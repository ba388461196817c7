--------------------------- MODULE FatFile_proofs ---------------------------
(***************************************************************************)
(* Proofs about the log file, for every volume, length of a line and       *)
(* number of records: the types, KeptUnlessLocked, and that the file on    *)
(* the disk implements AppendLog.                                          *)
(*                                                                         *)
(* The argument looks at two file systems, the one on the disk and the one *)
(* the volume object sees, which is the disk with the window on top        *)
(* (View).  Each is a table of clusters and an entry, and both are well    *)
(* formed at every step (WellFormed): no two links lead to one cluster,    *)
(* and the chain of the entry covers its size.  The table seen only grows  *)
(* from the table on the disk, so that the chains on the disk are          *)
(* beginnings of the chains seen.  Writing the window back turns a part of *)
(* the first into the second, and the file on the disk changes only when   *)
(* that part is the entry.  Where the call then is, what the line has      *)
(* become in buffer and data (DataInv) says what the file has grown by.    *)
(***************************************************************************)
EXTENDS FatFile, FatChain, SequenceTheorems

-----------------------------------------------------------------------------
(* Where the k-th byte of the file lies.                                   *)

\* Its sector in the file, and its place in the sector.
Sec(k) == (k - 1) \div SectorSize
Off(k) == ((k - 1) % SectorSize) + 1

\* The byte, along the path p of clusters.
At(p, dat, k) == dat[p[Sec(k)]][Off(k)]

-----------------------------------------------------------------------------
(* The two file systems.                                                   *)

\* The FAT that the sectors d hold.
Fat(d) == [c \in ClusterSet |-> d[FatSector(c)][c]]

\* The disk as the volume object sees it, and the two entries and tables.
View   == IF fs.winsect \in Sectors THEN Written ELSE disk
VEntry == View[DirSector]
FV == Fat(View)
FD == Fat(disk)

\* A link leads to a cluster that is taken, and no two lead to the same.
Tidy(F) ==
  /\ \A c \in ClusterSet : F[c] \in ClusterSet => F[F[c]] # Free
  /\ Injective(ClusterSet, F)

\* The chain that starts with a, and covers size bytes.
Front(F, a) ==
  a # 0 => a \in ClusterSet /\ F[a] # Free /\ \A c \in ClusterSet : F[c] # a
Covers(F, a, size) ==
  size > 0 => \A n \in 0 .. Sec(size) : Path(ClusterSet, F, a)[n] \in ClusterSet

\* A file system without cross links, whose one file is all there.
WellFormed(F, e) ==
  /\ Tidy(F) /\ Front(F, e.sclust) /\ Covers(F, e.sclust, e.size)
  /\ e.exists \/ (e.size = 0 /\ e.sclust = 0)

\* What links in F links in G.
Grown(F, G) == \A c \in ClusterSet : F[c] \in ClusterSet => G[c] = F[c]

GoodDisk == WellFormed(FD, Entry)
GoodView == WellFormed(FV, VEntry)
ViewGrown == Grown(FD, FV)

-----------------------------------------------------------------------------
(* The inductive invariant.                                                *)

\* What a sector may hold, whatever the size of the file.
Image(s) ==
  IF s = DirSector
  THEN [exists : BOOLEAN, sclust : {0} \cup ClusterSet, size : Nat]
  ELSE [{c \in ClusterSet : FatSector(c) = s} -> {Free, EOC} \cup ClusterSet]
Images == UNION {Image(s) : s \in Sectors}

WFatFs ==
  [mounted : BOOLEAN, winsect : Sectors \cup {NoSector}, win : Images,
   wflag : BOOLEAN, last_clst : {1} \cup ClusterSet]
WFil ==
  [sclust : {0} \cup ClusterSet, objsize : Nat, fptr : Nat,
   clust : {0} \cup ClusterSet, sect : {0} \cup ClusterSet,
   buf : Block, dirty : BOOLEAN, modified : BOOLEAN]

\* TypeOK, but for how large a file may be.
DiskType ==
  /\ disk \in [Sectors -> Images] /\ \A s \in Sectors : disk[s] \in Image(s)
  /\ fs \in WFatFs
  /\ fs.winsect \in Sectors => fs.win \in Image(fs.winsect)
CallType ==
  /\ data \in [ClusterSet -> Block]
  /\ lock \in BOOLEAN /\ trouble \in BOOLEAN
  /\ fp \in WFil
  /\ step \in Steps /\ mode \in {"append", "create"} /\ left \in Nat
  /\ scan \in [scl : 0 .. n_fatent, ncl : 0 .. n_fatent]
  /\ rec \in 0 .. MaxRecords
  /\ step # "idle" => rec > 0

\* A clean window shows the disk.
WindowInv ==
  /\ fs.wflag => fs.winsect \in Sectors
  /\ ~fs.wflag => View = disk
  /\ ~fs.mounted => fs.winsect = NoSector

\* The steps after the lock is taken; those before the entry is brought up to
\* date; and those that write.
OpenedSteps == {"seek", "fill"}
EntryOld    == WriteSteps \cup {"close", "entry"}
DataSteps   == EntryOld \cup {"sync"}

\* An entry that is in the window only is the locked file's.
LockInv ==
  /\ lock => fs.mounted /\ VEntry.exists
  /\ step \notin {"idle", "mount"} => fs.mounted
  /\ fs.wflag /\ fs.winsect = DirSector => lock
  /\ step \in OpenedSteps \cup DataSteps => lock
  /\ step \in OpenedSteps => mode = "append" /\ ~fs.wflag
  /\ step \in EntryOld /\ ~fp.modified => ~(fs.wflag /\ fs.winsect = DirSector)

\* The chain of the FIL.
P == Path(ClusterSet, FV, fp.sclust)

\* What the cluster chain says of the FIL, while the end is looked for.
OpenInv ==
  /\ step \in OpenedSteps =>
       /\ fp.fptr = Entry.size /\ fp.objsize = Entry.size
       /\ fp.sclust = Entry.sclust /\ ~fp.dirty /\ ~fp.modified
       /\ left \in 1 .. fp.fptr /\ (fp.fptr - left) % SectorSize = 0
       /\ fp.clust = P[Sec(fp.fptr - left + 1)]
  /\ step = "seek" => left > SectorSize
  /\ step = "fill" => left < SectorSize
  /\ step \in {"idle", "mount", "find"} => fp = NoFile /\ left = 0

\* Where the line starts.
Base == fp.fptr - (LineLength - left)

\* The data once the buffer is written back.
LData == IF fp.dirty THEN BufferWritten ELSE data

\* The chain covers what is written so far.
ChainInv ==
  step \in DataSteps =>
    /\ left \in 0 .. LineLength /\ Base >= 0 /\ fp.objsize = fp.fptr
    /\ (fp.sclust = 0 => fp.fptr = 0)
    /\ Front(FV, fp.sclust) /\ Covers(FV, fp.sclust, fp.fptr)

\* Until the entry is brought up to date it is the one f_open found.
EntryInv ==
  /\ step \in EntryOld =>
       /\ VEntry.size = Entry.size /\ VEntry.sclust = Entry.sclust
  /\ step \in EntryOld \/ (step = "sync" /\ fs.wflag) =>
       /\ Base = Entry.size
       /\ Entry.sclust # 0 => fp.sclust = Entry.sclust
  /\ step = "sync" =>
       /\ VEntry = [exists |-> TRUE, sclust |-> fp.sclust, size |-> fp.fptr]
       /\ fs.wflag => fs.winsect = DirSector
  /\ step \in {"entry", "sync"} => ~fp.dirty

\* The line is at the end of the chain, and the buffer changes nothing of what
\* the file had.
DataInv ==
  /\ step \in DataSteps =>
       \A k \in Base + 1 .. fp.fptr : At(P, LData, k) = <<rec, k - Base>>
  /\ step \in EntryOld =>
       \A k \in 1 .. Entry.size : At(P, LData, k) = At(P, data, k)
  /\ step \in DataSteps /\ fp.dirty => fp.fptr > 0 /\ fp.sect = P[Sec(fp.fptr)]
  /\ step = "write" /\ fp.fptr % SectorSize # 0 =>
       fp.sect = fp.clust /\ (~fp.dirty => fp.buf = data[fp.sect])

\* Where f_write is in the chain.
ClustInv ==
  /\ step \in {"write", "chain", "advance", "probe", "link"} /\ fp.fptr > 0 =>
       fp.clust = P[Sec(fp.fptr)]
  /\ step \in WriteSteps \ {"write"} => left > 0 /\ fp.fptr % SectorSize = 0
  /\ step = "place" => fp.clust \in ClusterSet /\ fp.clust = P[Sec(fp.fptr + 1)]
  /\ step \in {"chain", "link"} => fp.fptr > 0
  /\ step \in {"advance", "probe", "link"} =>
       IF fp.sclust = 0 THEN fp.fptr = 0 ELSE fp.fptr > 0 /\ FV[fp.clust] = EOC
  /\ step = "advance" => scan.scl \in {1} \cup ClusterSet /\ scan.ncl \in {1} \cup ClusterSet
  /\ step = "probe" => scan.scl \in {1} \cup ClusterSet /\ scan.ncl \in ClusterSet
  /\ step = "link" =>
       /\ scan.ncl \in ClusterSet /\ FV[scan.ncl] = EOC /\ scan.ncl # fp.clust
       /\ scan.ncl # fp.sclust
       /\ \A c \in ClusterSet : FV[c] # scan.ncl

\* The file has lines of the records so far, and none of the one being logged
\* before f_sync has written its entry.
RecInv ==
  /\ \A k \in DOMAIN File : File[k][1] \in Nat /\ File[k][1] <= rec
  /\ step \notin {"idle", "sync"} \/ (step = "sync" /\ fs.wflag) =>
       \A k \in DOMAIN File : File[k][1] # rec

\* The clusters create_chain has looked at are taken.
SearchInv ==
  /\ step = "advance" =>
       \A c \in ClusterSet :
         (IF scan.ncl < scan.scl THEN c > scan.scl \/ c <= scan.ncl
          ELSE c > scan.scl /\ c <= scan.ncl) => FV[c] # Free
  /\ step = "probe" =>
       \A c \in ClusterSet :
         (IF scan.ncl <= scan.scl THEN c > scan.scl \/ c < scan.ncl
          ELSE c > scan.scl /\ c < scan.ncl) => FV[c] # Free

\* A record is cut short only when the volume is full.
FullInv ==
  /\ step \in CloseSteps /\ left > 0 /\ ~trouble =>
       \A c \in ClusterSet : FV[c] # Free
  /\ step = "close" /\ ~trouble => fp.modified
  /\ step \in {"mount", "find"} /\ mode = "create" => trouble \/ lock

\* Where the FIL, its buffer and the search for a free cluster are.
Placed == OpenInv /\ ChainInv /\ EntryInv /\ DataInv /\ ClustInv /\ SearchInv

\* The inductive invariant.
IInv ==
  /\ DiskType /\ GoodDisk /\ GoodView /\ ViewGrown /\ WindowInv
  /\ CallType /\ LockInv /\ Placed /\ FullInv
  /\ RecInv /\ KeptUnlessLocked

-----------------------------------------------------------------------------
(* Bytes and sectors.                                                      *)

\* A sector is longer than one byte.
LEMMA Sizing == SectorSize \in Nat /\ SectorSize > 1
  BY VolumeAssumption

\* Every byte of the file has a sector and a place in it.
LEMMA BytePlace ==
  ASSUME NEW k \in Nat, k > 0
  PROVE  Sec(k) \in Nat /\ Off(k) \in 1 .. SectorSize /\ k = Sec(k) * SectorSize + Off(k)
<1> DEFINE n == k - 1
<1>1. n \in Nat OBVIOUS
<1>2. n % SectorSize \in 0 .. SectorSize - 1 BY <1>1, Sizing
<1>3. n = SectorSize * (n \div SectorSize) + (n % SectorSize) BY <1>1, Sizing
<1>4. n \div SectorSize \in Nat BY <1>1, <1>3, Sizing
<1> QED BY <1>2, <1>3, <1>4, Sizing DEF Sec, Off

\* The i-th byte of the j-th sector is found there.
LEMMA PlaceByte ==
  ASSUME NEW j \in Nat, NEW i \in 1 .. SectorSize
  PROVE  Sec(j * SectorSize + i) = j /\ Off(j * SectorSize + i) = i
  BY Sizing DEF Sec, Off

\* The remainder f_write takes of the file pointer.
LEMMA Remainder ==
  ASSUME NEW j \in Nat, NEW r \in Nat, r < SectorSize
  PROVE  (j * SectorSize + r) % SectorSize = r
  BY Sizing

\* An earlier byte lies in an earlier sector, or in front of it in the same.
LEMMA PlaceOrder ==
  ASSUME NEW k \in Nat, NEW m \in Nat, 0 < k, k <= m
  PROVE  Sec(k) <= Sec(m) /\ (Sec(k) = Sec(m) => Off(k) <= Off(m))
<1>1. Sec(k) \in Nat /\ Off(k) \in 1 .. SectorSize /\ k = Sec(k) * SectorSize + Off(k)
  BY BytePlace
<1>2. Sec(m) \in Nat /\ Off(m) \in 1 .. SectorSize /\ m = Sec(m) * SectorSize + Off(m)
  BY BytePlace
<1>3. ASSUME Sec(k) > Sec(m) PROVE FALSE
  <2>1. Sec(k) * SectorSize >= (Sec(m) + 1) * SectorSize BY <1>1, <1>2, <1>3, Sizing
  <2>2. (Sec(m) + 1) * SectorSize = Sec(m) * SectorSize + SectorSize BY <1>2, Sizing
  <2>3. Sec(m) * SectorSize \in Nat /\ Sec(k) * SectorSize \in Nat BY <1>1, <1>2, Sizing
  <2> QED BY <2>1, <2>2, <2>3, <1>1, <1>2, Sizing
<1>4. ASSUME Sec(k) = Sec(m) PROVE Off(k) <= Off(m)
  <2>1. k = Sec(m) * SectorSize + Off(k) BY <1>1, <1>4
  <2>2. Sec(m) * SectorSize \in Nat BY <1>2, Sizing
  <2> QED BY <2>1, <2>2, <1>1, <1>2
<1> QED BY <1>1, <1>2, <1>3, <1>4

\* What still fits into the sector of the next byte.
LEMMA PlaceRun ==
  ASSUME NEW n \in Nat, NEW w \in Nat, 0 < w, w <= SectorSize - (n % SectorSize)
  PROVE  Sec(n + w) = Sec(n + 1) /\ Off(n + w) = (n % SectorSize) + w
<1>1. n % SectorSize \in 0 .. SectorSize - 1 BY Sizing
<1>2. n = SectorSize * (n \div SectorSize) + (n % SectorSize) /\ n \div SectorSize \in Nat
  BY Sizing
<1>3. n + w = (n \div SectorSize) * SectorSize + ((n % SectorSize) + w)
  BY <1>1, <1>2, Sizing
<1>4. n + 1 = (n \div SectorSize) * SectorSize + ((n % SectorSize) + 1)
  BY <1>1, <1>2, Sizing
<1>5. (n % SectorSize) + w \in 1 .. SectorSize /\ (n % SectorSize) + 1 \in 1 .. SectorSize
  BY <1>1, Sizing
<1>6. Sec(n + w) = n \div SectorSize /\ Off(n + w) = (n % SectorSize) + w
  BY PlaceByte, <1>2, <1>3, <1>5
<1>7. Sec(n + 1) = n \div SectorSize
  BY PlaceByte, <1>2, <1>4, <1>5
<1> QED BY <1>6, <1>7

\* The byte after the n-th starts a sector, or follows it.
LEMMA PlaceNext ==
  ASSUME NEW n \in Nat, n > 0
  PROVE  IF n % SectorSize = 0
         THEN Sec(n + 1) = Sec(n) + 1
         ELSE Sec(n + 1) = Sec(n) /\ Off(n) = n % SectorSize
<1>2. Sec(n) \in Nat /\ Off(n) \in 1 .. SectorSize /\ n = Sec(n) * SectorSize + Off(n)
  BY BytePlace
<1>3. CASE Off(n) = SectorSize
  <2>1. n = (Sec(n) + 1) * SectorSize + 0 BY <1>2, <1>3, Sizing
  <2>2. n % SectorSize = 0
    <3>1. Sec(n) + 1 \in Nat /\ 0 \in Nat /\ 0 < SectorSize BY <1>2, Sizing
    <3> QED BY <2>1, <3>1, Remainder
  <2>3. n + 1 = (Sec(n) + 1) * SectorSize + 1 /\ Sec(n) + 1 \in Nat /\ 1 \in 1 .. SectorSize
    BY <2>1, <1>2, Sizing
  <2>4. Sec(n + 1) = Sec(n) + 1 BY <2>3, PlaceByte
  <2> QED BY <2>2, <2>4
<1>4. CASE Off(n) # SectorSize
  <2>1. n + 1 = Sec(n) * SectorSize + (Off(n) + 1) /\ Off(n) + 1 \in 1 .. SectorSize
    BY <1>2, <1>4, Sizing
  <2>2. Sec(n + 1) = Sec(n) BY <2>1, <1>2, PlaceByte
  <2>3. n % SectorSize = Off(n)
    <3>1. Off(n) \in Nat /\ Off(n) < SectorSize BY <1>2, <1>4, Sizing
    <3> QED BY <1>2, <3>1, Remainder
  <2>4. n % SectorSize # 0 BY <2>3, <1>2
  <2> QED BY <2>2, <2>3, <2>4
<1> QED BY <1>3, <1>4

\* The file begins in its first sector.
LEMMA FirstPlace == Sec(1) = 0
<1>1. 1 = 0 * SectorSize + 1 /\ 0 \in Nat /\ 1 \in 1 .. SectorSize
  BY Sizing
<1> QED BY <1>1, PlaceByte

\* The step of f_lseek: a sector on.
LEMMA SectorOn ==
  ASSUME NEW n \in Nat, n % SectorSize = 0
  PROVE  /\ (n + SectorSize) % SectorSize = 0
         /\ Sec(n + SectorSize + 1) = Sec(n + 1) + 1
         /\ Sec(n + SectorSize) = Sec(n + 1)
         /\ \A r \in 1 .. SectorSize - 1 :
              Sec(n + r) = Sec(n + 1) /\ (n + r) % SectorSize = r
<1> DEFINE d == n \div SectorSize
<1>1. n = SectorSize * d + (n % SectorSize) /\ d \in Nat
  BY Sizing
<1>2. n = d * SectorSize
  BY <1>1, Sizing
<1> HIDE DEF d
<1>3. n + SectorSize = (d + 1) * SectorSize + 0 /\ d + 1 \in Nat /\ n + SectorSize + 1 = (d + 1) * SectorSize + 1
  BY <1>1, <1>2, Sizing
<1>4. (n + SectorSize) % SectorSize = 0
  <2>1. 0 \in Nat /\ 0 < SectorSize BY Sizing
  <2> QED BY <1>3, <2>1, Remainder
<1>5. n + 1 = d * SectorSize + 1 /\ 1 \in 1 .. SectorSize
  BY <1>2, Sizing
<1>6. Sec(n + 1) = d /\ Sec(n + SectorSize + 1) = d + 1
  BY <1>1, <1>3, <1>5, PlaceByte
<1>7. Sec(n + SectorSize) = d
  <2>1. n + SectorSize = d * SectorSize + SectorSize /\ SectorSize \in 1 .. SectorSize
    BY <1>2, Sizing
  <2> QED BY <2>1, <1>1, PlaceByte
<1>8. ASSUME NEW r \in 1 .. SectorSize - 1
      PROVE  Sec(n + r) = Sec(n + 1) /\ (n + r) % SectorSize = r
  <2>1. n + r = d * SectorSize + r /\ r \in 1 .. SectorSize /\ r \in Nat /\ r < SectorSize
    BY <1>2, Sizing
  <2>2. Sec(n + r) = d BY <2>1, <1>1, PlaceByte
  <2>3. (n + r) % SectorSize = r BY <2>1, <1>1, Remainder
  <2> QED BY <2>2, <2>3, <1>6
<1> QED BY <1>4, <1>6, <1>7, <1>8

-----------------------------------------------------------------------------
(* Clusters, sectors and tables.                                           *)

\* Free, the end of a chain and "no cluster" are no clusters; the volume
\* has as many as it says.
LEMMA ClusterFacts ==
  /\ 0 \notin ClusterSet /\ 1 \notin ClusterSet /\ EOC \notin ClusterSet /\ EOC # 0
  /\ ClusterSet \subseteq Nat /\ NoSector \notin Sectors /\ DirSector \in Sectors
  /\ IsFiniteSet(ClusterSet) /\ Cardinality(ClusterSet) = Clusters
<1>1. /\ 0 \notin ClusterSet /\ 1 \notin ClusterSet /\ EOC \notin ClusterSet /\ EOC # 0
      /\ ClusterSet \subseteq Nat
  BY VolumeAssumption DEF ClusterSet, EOC, n_fatent
<1>2. IsFiniteSet(ClusterSet) /\ Cardinality(ClusterSet) = Clusters
  <2>1. 2 \in Int /\ n_fatent - 1 \in Int /\ ~(2 > n_fatent - 1) /\ (n_fatent - 1) - 2 + 1 = Clusters
    BY VolumeAssumption DEF n_fatent
  <2> QED BY <2>1, FS_Interval DEF ClusterSet
<1>3. NoSector \notin Sectors /\ DirSector \in Sectors
  <2>1. ASSUME NEW c \in ClusterSet PROVE FatSector(c) # NoSector
    <3>1. c \in Nat /\ PerSector \in Nat \ {0}
      BY <1>1, VolumeAssumption
    <3>2. c \div PerSector \in Nat
      BY <3>1
    <3> QED BY <3>2 DEF FatSector, NoSector
  <2> QED BY <2>1 DEF Sectors, NoSector, DirSector
<1> QED BY <1>1, <1>2, <1>3

\* No entry of the FAT lies in the sector of the directory.
LEMMA SectorFacts ==
  ASSUME NEW c \in ClusterSet
  PROVE  FatSector(c) \in Sectors /\ FatSector(c) # DirSector
<1>1. c \in Nat /\ c >= 2
  BY VolumeAssumption DEF ClusterSet, n_fatent
<1>2. FatSector(c) # DirSector
  <2>1. PerSector \in Nat \ {0}
    BY VolumeAssumption
  <2>2. c \div PerSector \in Nat
    BY <1>1, <2>1
  <2> QED BY <2>2 DEF FatSector, DirSector
<1> QED BY <1>2 DEF Sectors

\* A FAT.
Table == [ClusterSet -> {Free, EOC} \cup ClusterSet]

\* The chains of a table go on in one that has grown from it.
LEMMA GrownPath ==
  ASSUME NEW F, NEW G, NEW a, NEW size \in Nat, size > 0, Grown(F, G), Covers(F, a, size)
  PROVE  \A n \in 0 .. Sec(size) :
           Path(ClusterSet, G, a)[n] = Path(ClusterSet, F, a)[n]
<1>1. Sec(size) \in Nat
  BY BytePlace
<1>2. \A n \in 0 .. Sec(size) : Path(ClusterSet, F, a)[n] \in ClusterSet
  BY DEF Covers
<1> QED BY <1>1, <1>2, SamePrefix DEF Grown

\* What a chain covers it covers in a table that has grown.
LEMMA GrownCovers ==
  ASSUME NEW F, NEW G, NEW a, NEW size \in Nat, Grown(F, G), Covers(F, a, size)
  PROVE  Covers(G, a, size)
<1> SUFFICES ASSUME size > 0
             PROVE  \A n \in 0 .. Sec(size) : Path(ClusterSet, G, a)[n] \in ClusterSet
  BY DEF Covers
<1>1. \A n \in 0 .. Sec(size) : Path(ClusterSet, F, a)[n] \in ClusterSet
  BY DEF Covers
<1>2. \A n \in 0 .. Sec(size) : Path(ClusterSet, G, a)[n] = Path(ClusterSet, F, a)[n]
  BY GrownPath
<1> QED BY <1>1, <1>2

\* create_chain marks a free cluster as the end of a chain.
LEMMA Taken ==
  ASSUME NEW F \in Table, NEW n \in ClusterSet, Tidy(F), F[n] = Free
  PROVE  LET G == [F EXCEPT ![n] = EOC]
         IN /\ G \in Table /\ Tidy(G) /\ Grown(F, G) /\ G[n] = EOC
            /\ \A c \in ClusterSet : G[c] # n
            /\ \A a : Front(F, a) => Front(G, a) /\ a # n
<1> DEFINE G == [F EXCEPT ![n] = EOC]
<1>0. Free # EOC /\ EOC \notin ClusterSet /\ Free \notin ClusterSet
  BY ClusterFacts DEF Free
<1>1. G \in Table /\ \A c \in ClusterSet : G[c] = IF c = n THEN EOC ELSE F[c]
  BY DEF Table
<1> HIDE DEF G
<1>2. Grown(F, G)
  BY <1>0, <1>1 DEF Grown
<1>3. \A c \in ClusterSet : G[c] # n
  BY <1>0, <1>1 DEF Tidy
<1>4. Tidy(G)
  BY <1>0, <1>1 DEF Tidy, Injective
<1>5. ASSUME NEW a, Front(F, a) PROVE Front(G, a) /\ a # n
  BY <1>0, <1>1, <1>5 DEF Front, Free
<1> QED BY <1>0, <1>1, <1>2, <1>3, <1>4, <1>5 DEF G

\* create_chain links the end of the chain to the new cluster.
LEMMA Linked ==
  ASSUME NEW F \in Table, NEW e \in ClusterSet, NEW n \in ClusterSet, e # n,
         Tidy(F), F[e] = EOC, F[n] = EOC, \A c \in ClusterSet : F[c] # n
  PROVE  LET G == [F EXCEPT ![e] = n]
         IN /\ G \in Table /\ Tidy(G) /\ Grown(F, G) /\ G[e] = n
            /\ \A a : Front(F, a) /\ a # n => Front(G, a)
<1> DEFINE G == [F EXCEPT ![e] = n]
<1>0. Free # EOC /\ EOC \notin ClusterSet /\ Free \notin ClusterSet
  BY ClusterFacts DEF Free
<1>1. G \in Table /\ \A c \in ClusterSet : G[c] = IF c = e THEN n ELSE F[c]
  BY DEF Table
<1> HIDE DEF G
<1>2. Grown(F, G)
  BY <1>0, <1>1 DEF Grown
<1>4. Tidy(G)
  BY <1>0, <1>1 DEF Tidy, Injective
<1>5. ASSUME NEW a, Front(F, a), a # n PROVE Front(G, a)
  BY <1>0, <1>1, <1>5 DEF Front, Free
<1> QED BY <1>0, <1>1, <1>2, <1>4, <1>5 DEF G

-----------------------------------------------------------------------------
(* The file on the disk, along the chain.                                  *)

\* The file the sectors d and the clusters dat hold.
FileOf(d, dat) ==
  [k \in 1 .. d[DirSector].size |->
     At(Path(ClusterSet, Fat(d), d[DirSector].sclust), dat, k)]

\* ClusterAt, which follows the FAT on the disk, is the chain of its entry.
LEMMA ClusterAtPath ==
  \A n \in Nat : ClusterAt[n] = Path(ClusterSet, FD, Entry.sclust)[n]
<1> DEFINE R(q) == q = [n \in Nat |->
                    IF n = 0 THEN Entry.sclust
                    ELSE IF q[n - 1] \in ClusterSet THEN FatOf(q[n - 1]) ELSE Free]
           S(q) == q = [n \in Nat |->
                    IF n = 0 THEN Entry.sclust ELSE Successor(ClusterSet, FD, q[n - 1])]
           p == Path(ClusterSet, FD, Entry.sclust)
<1>1. \A c \in ClusterSet : FD[c] = FatOf(c)
  BY DEF FD, Fat, FatOf
<1>2. ASSUME NEW q PROVE R(q) <=> S(q)
  <2>1. ASSUME NEW c
        PROVE (IF c \in ClusterSet THEN FatOf(c) ELSE Free) = Successor(ClusterSet, FD, c)
    BY <1>1 DEF Successor, Free
  <2>2. [n \in Nat |->
                    IF n = 0 THEN Entry.sclust
                    ELSE IF q[n - 1] \in ClusterSet THEN FatOf(q[n - 1]) ELSE Free]
         = [n \in Nat |->
                    IF n = 0 THEN Entry.sclust ELSE Successor(ClusterSet, FD, q[n - 1])]
    BY <2>1
  <2> QED BY <2>2
<1>3. S(p)
  BY PathDef
<1>4. \E q : R(q)
  <2> HIDE DEF R, S, p
  <2> QED BY <1>2, <1>3
<1>5. R(CHOOSE q : R(q))
  <2> HIDE DEF R
  <2> QED BY <1>4
<1>6. ClusterAt = CHOOSE q : R(q)
  BY DEF ClusterAt
<1>7. S(ClusterAt)
  <2> HIDE DEF R, S
  <2> QED BY <1>2, <1>5, <1>6
<1> QED BY <1>7, PathUnique

FileIsAlong == DiskType /\ GoodDisk => File = FileOf(disk, data)

\* The file is the bytes along the chain.
LEMMA FileAlong == FileIsAlong
<1> SUFFICES ASSUME DiskType, GoodDisk PROVE File = FileOf(disk, data)
  BY DEF FileIsAlong
<1> DEFINE p == Path(ClusterSet, FD, Entry.sclust)
<1>0. Entry.size \in Nat
  BY ClusterFacts DEF DiskType, Entry, Image
<1>1. ASSUME NEW k \in 1 .. Entry.size PROVE ByteAt(k) = At(p, data, k)
  <2>1. k \in Nat /\ 0 < k /\ k <= Entry.size /\ Entry.size > 0
    BY <1>0
  <2>2. Sec(k) \in Nat /\ Sec(k) <= Sec(Entry.size) /\ Sec(Entry.size) \in Nat
    BY <2>1, <1>0, BytePlace, PlaceOrder
  <2>3. p[Sec(k)] \in ClusterSet
    BY <2>1, <2>2 DEF GoodDisk, WellFormed, Covers
  <2>4. ClusterAt[(k - 1) \div SectorSize] = p[Sec(k)]
    BY <2>2, ClusterAtPath DEF Sec
  <2> HIDE DEF p
  <2> QED BY <2>3, <2>4 DEF ByteAt, At, Off
<1> QED BY <1>1 DEF File, FileOf, Entry, FD

\* And so it is after a step.
LEMMA FileAlongNext == FileIsAlong'
  BY FileAlong, PTL

-----------------------------------------------------------------------------
(* What the actions do to the two file systems.                            *)

\* What Image says of the directory and of each sector of the FAT.
LEMMA ImageFacts ==
  /\ \A s \in Sectors : Image(s) \subseteq Images
  /\ NoEntry \in Image(DirSector) /\ NoEntry \in Images
  /\ Image(DirSector) = [exists : BOOLEAN, sclust : {0} \cup ClusterSet, size : Nat]
  /\ \A c \in ClusterSet :
       Image(FatSector(c)) =
         [{d \in ClusterSet : FatSector(d) = FatSector(c)} -> {Free, EOC} \cup ClusterSet]
<1>1. \A s \in Sectors : Image(s) \subseteq Images
  BY DEF Images
<1>2. NoEntry \in Image(DirSector)
  BY DEF NoEntry, Image
<1>3. NoEntry \in Images
  BY <1>1, <1>2, ClusterFacts
<1> QED BY <1>1, <1>2, <1>3, SectorFacts DEF Image

\* The sectors of the FAT make a table.
LEMMA TableOf ==
  ASSUME NEW d \in [Sectors -> Images], \A s \in Sectors : d[s] \in Image(s)
  PROVE  Fat(d) \in Table
<1>1. ASSUME NEW c \in ClusterSet PROVE d[FatSector(c)][c] \in {Free, EOC} \cup ClusterSet
  <2>1. d[FatSector(c)] \in [{e \in ClusterSet : FatSector(e) = FatSector(c)} -> {Free, EOC} \cup ClusterSet]
    BY SectorFacts, ImageFacts
  <2> QED BY <2>1
<1> QED BY <1>1 DEF Fat, Table

\* The types of the two file systems.
ViewTyped ==
  DiskType =>
    /\ View \in [Sectors -> Images] /\ \A s \in Sectors : View[s] \in Image(s)
    /\ FV \in Table /\ FD \in Table
    /\ Entry \in [exists : BOOLEAN, sclust : {0} \cup ClusterSet, size : Nat]
    /\ VEntry \in [exists : BOOLEAN, sclust : {0} \cup ClusterSet, size : Nat]
    /\ fs.winsect \in Sectors => fs.win = View[fs.winsect]
    /\ fs.winsect = DirSector => fs.win = VEntry
    /\ \A c \in ClusterSet : fs.winsect = FatSector(c) => fs.win[c] = FV[c]

\* What the volume sees has the types of what the disk has, and the window
\* shows a part of it.
LEMMA ViewType == ViewTyped
<1> SUFFICES ASSUME DiskType
             PROVE  /\ View \in [Sectors -> Images] /\ \A s \in Sectors : View[s] \in Image(s)
                    /\ FV \in Table /\ FD \in Table
                    /\ Entry \in [exists : BOOLEAN, sclust : {0} \cup ClusterSet, size : Nat]
                    /\ VEntry \in [exists : BOOLEAN, sclust : {0} \cup ClusterSet, size : Nat]
                    /\ fs.winsect \in Sectors => fs.win = View[fs.winsect]
                    /\ fs.winsect = DirSector => fs.win = VEntry
                    /\ \A c \in ClusterSet : fs.winsect = FatSector(c) => fs.win[c] = FV[c]
  BY DEF ViewTyped
<1>0. /\ disk \in [Sectors -> Images] /\ \A s \in Sectors : disk[s] \in Image(s)
      /\ fs.winsect \in Sectors => fs.win \in Image(fs.winsect) /\ fs.win \in Images
  BY ImageFacts DEF DiskType
<1>1. View \in [Sectors -> Images] /\ \A s \in Sectors : View[s] \in Image(s)
  BY <1>0 DEF View, Written
<1>2. fs.winsect \in Sectors => fs.win = View[fs.winsect]
  BY <1>0 DEF View, Written
<1>3. FV \in Table /\ FD \in Table
  BY <1>0, <1>1, TableOf DEF FV, FD
<1>4. /\ Entry \in [exists : BOOLEAN, sclust : {0} \cup ClusterSet, size : Nat]
      /\ VEntry \in [exists : BOOLEAN, sclust : {0} \cup ClusterSet, size : Nat]
  BY <1>0, <1>1, ClusterFacts, ImageFacts DEF Entry, VEntry
<1>5. fs.winsect = DirSector => fs.win = VEntry
  BY <1>2, ClusterFacts DEF VEntry
<1>6. \A c \in ClusterSet : fs.winsect = FatSector(c) => fs.win[c] = FV[c]
  BY <1>2, SectorFacts DEF FV, Fat
<1> QED BY <1>1, <1>2, <1>3, <1>4, <1>5, <1>6

\* And so it is after a step.
LEMMA ViewTypeNext == ViewTyped'
  BY ViewType, PTL

\* The window is written back: the disk may become what the volume sees.
LEMMA FlushView ==
  ASSUME DiskType, WindowInv, FlushWindow
  PROVE  /\ View' = View /\ disk' \in {disk, View}
         /\ fs' = fs \/ (disk' = View /\ fs' = [fs EXCEPT !.wflag = FALSE])
         /\ DiskType'
<1>1. fs.winsect \in Sectors /\ View = Written
  BY DEF FlushWindow, WindowInv, View
<1>2. disk' \in {disk, View} /\ (fs' = fs \/ (disk' = View /\ fs' = [fs EXCEPT !.wflag = FALSE]))
  BY <1>1 DEF FlushWindow
<1>3. fs'.winsect = fs.winsect /\ fs'.win = fs.win /\ fs' \in WFatFs
  BY <1>2 DEF DiskType, WFatFs
<1>4. View \in [Sectors -> Images] /\ \A s \in Sectors : View[s] \in Image(s)
  BY ViewType DEF ViewTyped
<1>5. disk' \in [Sectors -> Images] /\ \A s \in Sectors : disk'[s] \in Image(s)
  BY <1>2, <1>4 DEF DiskType
<1>6. View' = [disk' EXCEPT ![fs.winsect] = fs.win]
  BY <1>1, <1>3 DEF View, Written
<1>7. View' = View
  <2>1. CASE disk' = disk BY <2>1, <1>1, <1>6 DEF Written
  <2>2. CASE disk' = View
    <3>1. View = [disk EXCEPT ![fs.winsect] = fs.win] BY <1>1 DEF Written
    <3>2. [View EXCEPT ![fs.winsect] = fs.win] = View
      BY <1>1, <3>1 DEF DiskType
    <3> QED BY <2>2, <1>6, <3>2
  <2> QED BY <1>2, <2>1, <2>2
<1>8. DiskType'
  BY <1>1, <1>3, <1>5 DEF DiskType
<1> QED BY <1>2, <1>7, <1>8

\* A sector is read, or invalidated, and a fresh volume object has none:
\* the volume sees the disk.
LEMMA CleanView ==
  ASSUME DiskType, WindowInv, disk' = disk, fs' \in WFatFs,
         fs'.winsect = NoSector \/ (fs'.winsect \in Sectors /\ fs'.win = disk[fs'.winsect])
  PROVE  View' = disk /\ disk' = disk /\ DiskType'
<1>1. CASE fs'.winsect = NoSector
  <2>1. fs'.winsect \notin Sectors BY <1>1, ClusterFacts
  <2> QED BY <2>1 DEF View, DiskType
<1>2. CASE fs'.winsect \in Sectors /\ fs'.win = disk[fs'.winsect]
  <2>1. View' = [disk EXCEPT ![fs'.winsect] = disk[fs'.winsect]]
    BY <1>2 DEF View, Written
  <2>2. View' = disk
    BY <2>1, <1>2 DEF DiskType
  <2>3. DiskType'
    BY <1>2 DEF DiskType
  <2> QED BY <2>2, <2>3
<1> QED BY <1>1, <1>2

\* Nothing changes where neither the disk nor the volume object does.
LEMMA StillView ==
  ASSUME DiskType, disk' = disk, fs' = fs
  PROVE  View' = View /\ DiskType'
  BY DEF DiskType, View, Written

\* The FAT is changed in the window.
LEMMA PutView ==
  ASSUME DiskType, disk' = disk, NEW c \in ClusterSet, NEW v \in {Free, EOC} \cup ClusterSet,
         fs.winsect = FatSector(c), NEW l \in {1} \cup ClusterSet,
         fs' = [fs EXCEPT !.win[c] = v, !.wflag = TRUE, !.last_clst = l]
  PROVE  FV' = [FV EXCEPT ![c] = v] /\ VEntry' = VEntry /\ FD' = FD /\ Entry' = Entry /\ DiskType'
<1>0. FatSector(c) \in Sectors /\ FatSector(c) # DirSector /\ DirSector \in Sectors
  BY SectorFacts, ClusterFacts
<1> DEFINE D == {d \in ClusterSet : FatSector(d) = FatSector(c)}
<1>1. fs.win \in [D -> {Free, EOC} \cup ClusterSet]
  BY <1>0, ImageFacts DEF DiskType
<1>2. [fs.win EXCEPT ![c] = v] \in [D -> {Free, EOC} \cup ClusterSet]
  BY <1>1
<1>3. [fs.win EXCEPT ![c] = v] \in Image(FatSector(c)) /\ [fs.win EXCEPT ![c] = v] \in Images
  BY <1>0, <1>2, ImageFacts
<1>4. fs' = [fs EXCEPT !.win = [fs.win EXCEPT ![c] = v], !.wflag = TRUE, !.last_clst = l]
  BY DEF DiskType, WFatFs
<1> DEFINE w == [fs.win EXCEPT ![c] = v]
<1> HIDE DEF w
<1>5. fs'.winsect = FatSector(c) /\ fs'.win = w /\ fs' \in WFatFs
  BY <1>3, <1>4 DEF DiskType, WFatFs, w
<1>6. DiskType'
  BY <1>0, <1>3, <1>5 DEF DiskType, w
<1>7. View' = [disk EXCEPT ![FatSector(c)] = w]
  BY <1>0, <1>5 DEF View, Written
<1>8. View = [disk EXCEPT ![FatSector(c)] = fs.win]
  BY <1>0 DEF View, Written
<1>9. ASSUME NEW d \in ClusterSet PROVE FV'[d] = IF d = c THEN v ELSE FV[d]
  <2>1. FatSector(d) \in Sectors BY SectorFacts
  <2>2. CASE FatSector(d) = FatSector(c)
    <3>1. d \in D /\ c \in D BY <2>2
    <3>2. w[d] = IF d = c THEN v ELSE fs.win[d] BY <1>1, <3>1 DEF w
    <3>3. FV'[d] = w[d] BY <1>0, <1>7, <2>2 DEF FV, Fat, DiskType
    <3>4. FV[d] = fs.win[d] BY <1>0, <1>8, <2>2 DEF FV, Fat, DiskType
    <3> QED BY <3>2, <3>3, <3>4
  <2>3. CASE FatSector(d) # FatSector(c)
    BY <1>0, <1>7, <1>8, <2>1, <2>3 DEF FV, Fat, DiskType
  <2> QED BY <2>2, <2>3
<1>10. FV' = [FV EXCEPT ![c] = v]
  <2>1. FV \in [ClusterSet -> {Free, EOC} \cup ClusterSet]
    BY ViewType DEF ViewTyped, Table
  <2>2. FV' = [d \in ClusterSet |-> FV'[d]]
    BY DEF FV, Fat
  <2> QED BY <2>1, <2>2, <1>9
<1>11. VEntry' = VEntry
  BY <1>0, <1>7, <1>8 DEF VEntry, DiskType
<1> QED BY <1>6, <1>10, <1>11 DEF FD, Entry

\* The entry is changed in the window.
LEMMA EntryView ==
  ASSUME DiskType, disk' = disk, fs.winsect = DirSector,
         NEW e \in [exists : BOOLEAN, sclust : {0} \cup ClusterSet, size : Nat],
         fs' = [fs EXCEPT !.win = e, !.wflag = TRUE]
  PROVE  FV' = FV /\ VEntry' = e /\ FD' = FD /\ Entry' = Entry /\ DiskType'
<1>0. DirSector \in Sectors /\ e \in Image(DirSector) /\ e \in Images
  BY ClusterFacts, ImageFacts
<1>1. fs'.winsect = DirSector /\ fs'.win = e /\ fs' \in WFatFs
  BY <1>0 DEF DiskType, WFatFs
<1>2. DiskType'
  BY <1>0, <1>1 DEF DiskType
<1>3. View' = [disk EXCEPT ![DirSector] = e] /\ View = [disk EXCEPT ![DirSector] = fs.win]
  BY <1>0, <1>1 DEF View, Written
<1>4. VEntry' = e
  BY <1>0, <1>3 DEF VEntry, DiskType
<1>5. \A c \in ClusterSet : View'[FatSector(c)] = View[FatSector(c)]
  BY <1>0, <1>3, SectorFacts DEF DiskType
<1>6. FV' = FV
  BY <1>5 DEF FV, Fat
<1> QED BY <1>2, <1>4, <1>6 DEF FD, Entry

-----------------------------------------------------------------------------
(* Where the FIL is in its chain.                                          *)

\* While the end is looked for the FIL is on a cluster of the file, and the
\* window hides nothing.
LEMMA SeekPlace ==
  ASSUME IInv, step \in OpenedSteps
  PROVE  /\ View = disk /\ FV = FD /\ VEntry = Entry /\ Entry.size \in Nat /\ fp.fptr > 0
         /\ Sec(fp.fptr - left + 1) \in Nat /\ Sec(fp.fptr) \in Nat
         /\ Sec(fp.fptr - left + 1) <= Sec(fp.fptr)
         /\ \A n \in 0 .. Sec(fp.fptr) : P[n] \in ClusterSet
         /\ fp.clust \in ClusterSet
<1>1. View = disk /\ FV = FD /\ VEntry = Entry
  BY DEF IInv, LockInv, WindowInv, FV, FD, VEntry, Entry
<1>2. /\ fp.fptr = Entry.size /\ fp.sclust = Entry.sclust /\ left \in 1 .. fp.fptr
      /\ fp.clust = P[Sec(fp.fptr - left + 1)]
  BY DEF IInv, Placed, OpenInv
<1>3. Entry.size \in Nat
  BY ViewType DEF ViewTyped, IInv
<1> DEFINE n == fp.fptr - left + 1
<1>4. n \in Nat /\ 0 < n /\ n <= fp.fptr /\ fp.fptr \in Nat /\ fp.fptr > 0
  BY <1>2, <1>3
<1>5. Sec(n) \in Nat /\ Sec(fp.fptr) \in Nat /\ Sec(n) <= Sec(fp.fptr)
  <2> HIDE DEF n
  <2> QED BY <1>4, BytePlace, PlaceOrder
<1>6. Covers(FV, fp.sclust, fp.fptr)
  BY <1>1, <1>2 DEF IInv, GoodView, WellFormed
<1>7. \A m \in 0 .. Sec(fp.fptr) : P[m] \in ClusterSet
  BY <1>4, <1>6 DEF Covers, P
<1> QED BY <1>1, <1>2, <1>3, <1>4, <1>5, <1>7

\* While the file is written its chain is on the volume as far as it goes.
LEMMA WritePlace ==
  ASSUME IInv, step \in DataSteps, fp.fptr > 0
  PROVE  /\ fp.fptr \in Nat /\ Sec(fp.fptr) \in Nat /\ fp.sclust \in ClusterSet
         /\ \A n \in 0 .. Sec(fp.fptr) : P[n] \in ClusterSet
<1>1. fp.fptr \in Nat /\ fp.sclust \in {0} \cup ClusterSet
  BY DEF IInv, CallType, WFil
<1>2. Sec(fp.fptr) \in Nat
  BY <1>1, BytePlace
<1>3. Covers(FV, fp.sclust, fp.fptr) /\ fp.sclust # 0
  BY <1>1 DEF IInv, Placed, ChainInv
<1> QED BY <1>1, <1>2, <1>3 DEF Covers, P

\* fp->clust is a cluster wherever the FAT is asked about it.
LEMMA ClustPlace ==
  ASSUME IInv, step \in {"seek", "chain", "link"}
  PROVE  fp.clust \in ClusterSet
<1>1. CASE step = "seek"
  BY <1>1, SeekPlace DEF OpenedSteps
<1>2. CASE step \in {"chain", "link"}
  <2>1. fp.fptr > 0 /\ step \in DataSteps
    BY <1>2 DEF IInv, Placed, ClustInv, DataSteps, EntryOld, WriteSteps
  <2>2. fp.clust = P[Sec(fp.fptr)]
    BY <1>2, <2>1 DEF IInv, Placed, ClustInv
  <2> QED BY <2>1, <2>2, WritePlace
<1> QED BY <1>1, <1>2

\* While the entry is as f_open found it, the file on the disk is the part of
\* the chain in front of the line.
LEMMA OldPath ==
  ASSUME IInv, step \in EntryOld \/ (step = "sync" /\ fs.wflag)
  PROVE  \A k \in 1 .. Entry.size :
           Path(ClusterSet, FD, Entry.sclust)[Sec(k)] = P[Sec(k)]
<1> SUFFICES ASSUME NEW k \in 1 .. Entry.size
             PROVE  Path(ClusterSet, FD, Entry.sclust)[Sec(k)] = P[Sec(k)]
  OBVIOUS
<1>1. Entry.size \in Nat
  BY ViewType DEF ViewTyped, IInv
<1>2. k \in Nat /\ 0 < k /\ k <= Entry.size /\ Entry.size > 0
  BY <1>1
<1>3. Sec(k) \in 0 .. Sec(Entry.size)
  BY <1>1, <1>2, BytePlace, PlaceOrder
<1>4. Grown(FD, FV) /\ Covers(FD, Entry.sclust, Entry.size)
  BY DEF IInv, ViewGrown, GoodDisk, WellFormed
<1>5. Entry.sclust # 0
  <2>1. 0 \in 0 .. Sec(Entry.size) BY <1>1, <1>2, BytePlace
  <2>2. Path(ClusterSet, FD, Entry.sclust)[0] \in ClusterSet BY <1>2, <1>4, <2>1 DEF Covers
  <2> QED BY <2>2, PathSteps, ClusterFacts
<1>6. fp.sclust = Entry.sclust
  BY <1>5 DEF IInv, Placed, EntryInv
<1>7. Path(ClusterSet, FV, Entry.sclust)[Sec(k)] = Path(ClusterSet, FD, Entry.sclust)[Sec(k)]
  <2>1. \A n \in 0 .. Sec(Entry.size) :
          Path(ClusterSet, FV, Entry.sclust)[n] = Path(ClusterSet, FD, Entry.sclust)[n]
    BY <1>1, <1>2, <1>4, GrownPath
  <2> QED BY <1>3, <2>1
<1> QED BY <1>6, <1>7 DEF P

-----------------------------------------------------------------------------
(* Most actions leave both file systems alone.                             *)

\* The actions that do.
Quiet ==
  \/ UNCHANGED vars \/ NewRecord
  \/ LoadWindow \/ LoadFails \/ FindVolume \/ OpenRefused \/ OpenAppend \/ Seek
  \/ Fill \/ WriteOn \/ Chain \/ Advance \/ Place \/ Close \/ Sync
  \/ (Probe /\ fs.win[scan.ncl] # Free)

\* Such an action leaves the disk as it is, and what the volume sees.
LEMMA QuietView ==
  ASSUME IInv, Quiet
  PROVE  /\ View' = View /\ disk' = disk /\ DiskType'
         /\ FV' = FV /\ VEntry' = VEntry /\ FD' = FD /\ Entry' = Entry
<1>0. DiskType /\ WindowInv
  BY DEF IInv
<1>1. SUFFICES View' = View /\ disk' = disk /\ DiskType'
  BY DEF FV, VEntry, FD, Entry
<1>2. ASSUME disk' = disk, fs' = fs PROVE View' = View /\ disk' = disk /\ DiskType'
  BY <1>0, <1>2, StillView
<1>3. ASSUME disk' = disk, ~fs.wflag, fs' \in WFatFs,
             fs'.winsect = NoSector \/ (fs'.winsect \in Sectors /\ fs'.win = disk[fs'.winsect])
      PROVE  View' = View /\ disk' = disk /\ DiskType'
  BY <1>0, <1>3, CleanView DEF WindowInv
<1>4. CASE UNCHANGED vars \/ NewRecord \/ OpenRefused \/ OpenAppend \/ Seek \/ Fill \/ WriteOn
           \/ Chain \/ Advance \/ Place \/ Close \/ (Probe /\ fs.win[scan.ncl] # Free)
  BY <1>2, <1>4 DEF vars, NewRecord, OpenRefused, OpenAppend, Seek, Fill, WriteOn, Chain,
                    Advance, Place, Close, Probe
<1>5. CASE LoadWindow
  <2>1. Needed \in Sectors
    <3>1. step \in {"find", "entry"} => Needed = DirSector BY DEF Needed
    <3>2. step \in {"seek", "chain", "link"} => Needed = FatSector(fp.clust) BY DEF Needed
    <3>3. step = "probe" => Needed = FatSector(scan.ncl) BY DEF Needed
    <3>4. step \notin {"find", "entry", "seek", "chain", "link", "probe"} => Needed = fs.winsect
      BY DEF Needed
    <3>5. step = "probe" => scan.ncl \in ClusterSet BY DEF IInv, Placed, ClustInv
    <3>6. Needed # fs.winsect BY <1>5 DEF LoadWindow, InWindow
    <3> QED BY <3>1, <3>2, <3>3, <3>4, <3>5, <3>6, ClustPlace, SectorFacts, ClusterFacts
  <2>2. disk[Needed] \in Images
    BY <2>1, <1>0 DEF DiskType
  <2>3. fs' = [fs EXCEPT !.winsect = Needed, !.win = disk[Needed]] /\ disk' = disk /\ ~fs.wflag
    BY <1>5 DEF LoadWindow
  <2>4. fs' \in WFatFs /\ fs'.winsect = Needed /\ fs'.win = disk[Needed]
    BY <2>1, <2>2, <2>3, <1>0 DEF DiskType, WFatFs
  <2> QED BY <1>3, <2>1, <2>3, <2>4
<1>6. CASE LoadFails
  <2>1. fs' = [fs EXCEPT !.winsect = NoSector, !.win = NoEntry] /\ disk' = disk /\ ~fs.wflag
    BY <1>6 DEF LoadFails
  <2>2. fs' \in WFatFs /\ fs'.winsect = NoSector
    BY <2>1, <1>0, ImageFacts DEF DiskType, WFatFs
  <2> QED BY <1>3, <2>1, <2>2
<1>7. CASE FindVolume
  <2>1. CASE fs' = fs
    BY <2>1, <1>2, <1>7 DEF FindVolume
  <2>2. CASE fs' # fs
    <3>1. PICK c \in {1} \cup ClusterSet :
            fs' = [NotMounted EXCEPT !.mounted = TRUE, !.last_clst = c]
      BY <1>7, <2>2 DEF FindVolume
    <3>2. ~fs.mounted /\ disk' = disk
      BY <1>7, <2>2 DEF FindVolume
    <3>3. ~fs.wflag
      BY <3>2, <1>0, ClusterFacts DEF WindowInv, DiskType, WFatFs
    <3>4. fs' \in WFatFs /\ fs'.winsect = NoSector
      BY <3>1, ImageFacts DEF WFatFs, NotMounted
    <3> QED BY <1>3, <3>2, <3>3, <3>4
  <2> QED BY <2>1, <2>2
<1>8. CASE Sync
  <2>1. disk' = disk /\ ~fs.wflag
    BY <1>8 DEF Sync
  <2>2. CASE fs' = fs
    BY <2>1, <2>2, <1>2
  <2>3. CASE fs' = [fs EXCEPT !.winsect = NoSector, !.win = NoEntry]
    <3>1. fs' \in WFatFs /\ fs'.winsect = NoSector
      BY <2>3, <1>0, ImageFacts DEF DiskType, WFatFs
    <3> QED BY <1>3, <2>1, <3>1
  <2> QED BY <1>8, <2>2, <2>3 DEF Sync
<1> QED BY <1>4, <1>5, <1>6, <1>7, <1>8 DEF Quiet

\* When the power is lost the volume will see what the disk has.
LEMMA PowerView ==
  ASSUME IInv, PowerLoss
  PROVE  /\ View' = disk /\ disk' = disk /\ DiskType'
         /\ FV' = FD /\ VEntry' = Entry /\ FD' = FD /\ Entry' = Entry
<1>1. disk' = disk /\ fs' = NotMounted
  BY DEF PowerLoss
<1>2. fs' \in WFatFs /\ fs'.winsect = NoSector
  BY <1>1, ImageFacts DEF WFatFs, NotMounted
<1>3. View' = disk /\ DiskType'
  BY <1>1, <1>2, CleanView DEF IInv
<1> QED BY <1>1, <1>3 DEF FV, VEntry, FD, Entry

\* create_chain takes a free cluster.
Takes == Probe /\ fs.win[scan.ncl] = Free

\* create_chain marks the free cluster in the window, and nowhere else.
LEMMA TakesView ==
  ASSUME IInv, Takes
  PROVE  /\ scan.ncl \in ClusterSet /\ FV[scan.ncl] = Free /\ FV \in Table
         /\ FV' = [FV EXCEPT ![scan.ncl] = EOC]
         /\ VEntry' = VEntry /\ FD' = FD /\ Entry' = Entry /\ DiskType'
         /\ fs'.wflag /\ fs'.winsect = FatSector(scan.ncl) /\ fs'.mounted = fs.mounted
<1>1. step = "probe" /\ InWindow /\ disk' = disk /\ fs.win[scan.ncl] = Free
  BY DEF Takes, Probe
<1>2. scan.ncl \in ClusterSet
  BY <1>1 DEF IInv, Placed, ClustInv
<1>3. fs.winsect = FatSector(scan.ncl)
  BY <1>1 DEF InWindow, Needed
<1>4. FV[scan.ncl] = Free /\ FV \in Table
  BY <1>1, <1>2, <1>3, ViewType DEF ViewTyped, IInv
<1>5. PICK l \in {1} \cup ClusterSet :
        fs' = [fs EXCEPT !.win[scan.ncl] = EOC, !.wflag = TRUE, !.last_clst = l]
  <2>1. fs \in WFatFs BY DEF IInv, DiskType
  <2>2. CASE fp.sclust = 0
    BY <1>1, <1>2, <2>1, <2>2, ClusterFacts DEF Takes, Probe, PutFat, WFatFs, Free
  <2>3. CASE fp.sclust # 0
    <3>1. fs' = [fs EXCEPT !.win[scan.ncl] = EOC, !.wflag = TRUE]
      BY <1>1, <2>3 DEF Takes, Probe, PutFat
    <3>2. fs' = [fs EXCEPT !.win[scan.ncl] = EOC, !.wflag = TRUE, !.last_clst = fs.last_clst]
      BY <2>1, <3>1 DEF WFatFs
    <3> QED BY <2>1, <3>2 DEF WFatFs
  <2> QED BY <2>2, <2>3
<1>6. /\ FV' = [FV EXCEPT ![scan.ncl] = EOC]
      /\ VEntry' = VEntry /\ FD' = FD /\ Entry' = Entry /\ DiskType'
  BY <1>1, <1>2, <1>3, <1>5, PutView DEF IInv
<1>7. fs'.wflag /\ fs'.winsect = FatSector(scan.ncl) /\ fs'.mounted = fs.mounted
  BY <1>3, <1>5 DEF IInv, DiskType, WFatFs
<1> QED BY <1>2, <1>4, <1>6, <1>7

\* create_chain links the cluster in the window, and nowhere else.
LEMMA LinkView ==
  ASSUME IInv, Link
  PROVE  /\ fp.clust \in ClusterSet /\ FV \in Table
         /\ FV' = [FV EXCEPT ![fp.clust] = scan.ncl]
         /\ VEntry' = VEntry /\ FD' = FD /\ Entry' = Entry /\ DiskType'
         /\ fs'.wflag /\ fs'.winsect = FatSector(fp.clust) /\ fs'.mounted = fs.mounted
<1>1. step = "link" /\ InWindow /\ disk' = disk
      /\ fs' = [PutFat(fp.clust, scan.ncl) EXCEPT !.last_clst = scan.ncl]
  BY DEF Link
<1>2. scan.ncl \in ClusterSet /\ fp.clust \in ClusterSet
  BY <1>1, ClustPlace DEF IInv, Placed, ClustInv
<1>3. fs.winsect = FatSector(fp.clust)
  BY <1>1 DEF InWindow, Needed
<1>4. FV \in Table
  BY ViewType DEF ViewTyped, IInv
<1>5. fs' = [fs EXCEPT !.win[fp.clust] = scan.ncl, !.wflag = TRUE, !.last_clst = scan.ncl]
  BY <1>1 DEF IInv, DiskType, WFatFs, PutFat
<1>6. /\ FV' = [FV EXCEPT ![fp.clust] = scan.ncl]
      /\ VEntry' = VEntry /\ FD' = FD /\ Entry' = Entry /\ DiskType'
  BY <1>1, <1>2, <1>3, <1>5, PutView DEF IInv
<1>7. fs'.wflag /\ fs'.winsect = FatSector(fp.clust) /\ fs'.mounted = fs.mounted
  BY <1>3, <1>5 DEF IInv, DiskType, WFatFs
<1> QED BY <1>2, <1>4, <1>6, <1>7

\* dir_register adds an empty entry in the window, where there was none.
LEMMA RegisterView ==
  ASSUME IInv, Register
  PROVE  /\ FV' = FV /\ VEntry' = [exists |-> TRUE, sclust |-> 0, size |-> 0]
         /\ FD' = FD /\ Entry' = Entry /\ DiskType'
         /\ VEntry.size = 0 /\ VEntry.sclust = 0
         /\ fs'.wflag /\ fs'.winsect = DirSector /\ fs'.mounted = fs.mounted
<1>1. /\ step = "find" /\ InWindow /\ disk' = disk /\ ~fs.win.exists
      /\ fs' = [fs EXCEPT !.win = [NoEntry EXCEPT !.exists = TRUE], !.wflag = TRUE]
  BY DEF Register
<1>2. fs.winsect = DirSector /\ fs.win = VEntry
  BY <1>1, ViewType DEF InWindow, Needed, ViewTyped, IInv
<1>3. VEntry.size = 0 /\ VEntry.sclust = 0
  BY <1>1, <1>2 DEF IInv, GoodView, WellFormed
<1> DEFINE e == [exists |-> TRUE, sclust |-> 0, size |-> 0]
<1>4. [NoEntry EXCEPT !.exists = TRUE] = e
  <2> DEFINE x == [NoEntry EXCEPT !.exists = TRUE]
  <2>1. /\ x \in [exists : BOOLEAN, sclust : {0} \cup ClusterSet, size : Nat]
        /\ x.exists /\ x.sclust = 0 /\ x.size = 0
    BY DEF NoEntry
  <2> HIDE DEF x
  <2>2. x = e
    BY <2>1
  <2> QED BY <2>2 DEF x
<1>5. e \in [exists : BOOLEAN, sclust : {0} \cup ClusterSet, size : Nat]
  OBVIOUS
<1>6. FV' = FV /\ VEntry' = e /\ FD' = FD /\ Entry' = Entry /\ DiskType'
  <2> HIDE DEF e
  <2> QED BY <1>1, <1>2, <1>4, <1>5, EntryView DEF IInv
<1>7. fs'.wflag /\ fs'.winsect = DirSector /\ fs'.mounted = fs.mounted
  BY <1>1, <1>2 DEF IInv, DiskType, WFatFs
<1> QED BY <1>3, <1>6, <1>7

\* f_sync brings the entry in the window up to date.
LEMMA UpdateView ==
  ASSUME IInv, UpdateEntry
  PROVE  /\ FV' = FV
         /\ VEntry' = [exists |-> TRUE, sclust |-> fp.sclust, size |-> fp.fptr]
         /\ FD' = FD /\ Entry' = Entry /\ DiskType'
         /\ fs'.wflag /\ fs'.winsect = DirSector /\ fs'.mounted = fs.mounted
<1>1. /\ step = "entry" /\ InWindow /\ disk' = disk
      /\ fs' = [fs EXCEPT !.win.sclust = fp.sclust, !.win.size = fp.objsize, !.wflag = TRUE]
  BY DEF UpdateEntry
<1>2. fs.winsect = DirSector /\ fs.win = VEntry
      /\ VEntry \in [exists : BOOLEAN, sclust : {0} \cup ClusterSet, size : Nat]
  BY <1>1, ViewType DEF InWindow, Needed, ViewTyped, IInv
<1>3. VEntry.exists = TRUE /\ fp.objsize = fp.fptr
  BY <1>1, <1>2 DEF IInv, Placed, LockInv, ChainInv, DataSteps, EntryOld
<1> DEFINE e == [exists |-> TRUE, sclust |-> fp.sclust, size |-> fp.fptr]
<1>4. fs' = [fs EXCEPT !.win = e, !.wflag = TRUE]
  <2>1. [VEntry EXCEPT !.sclust = fp.sclust, !.size = fp.fptr] = e
    <3> DEFINE y == [VEntry EXCEPT !.sclust = fp.sclust, !.size = fp.fptr]
    <3>1. fp.sclust \in {0} \cup ClusterSet /\ fp.fptr \in Nat
      BY DEF IInv, CallType, WFil
    <3>2. y \in [exists : BOOLEAN, sclust : {0} \cup ClusterSet, size : Nat]
      BY <1>2, <3>1
    <3>3. y.exists = TRUE /\ y.sclust = fp.sclust /\ y.size = fp.fptr
      BY <1>2, <1>3
    <3> HIDE DEF y
    <3>4. y = [exists |-> y.exists, sclust |-> y.sclust, size |-> y.size]
      BY <3>2
    <3>5. y = e
      BY <3>3, <3>4
    <3> QED BY <3>5 DEF y
  <2>2. fs' = [fs EXCEPT !.win = [fs.win EXCEPT !.sclust = fp.sclust, !.size = fp.objsize],
                         !.wflag = TRUE]
    BY <1>1 DEF IInv, DiskType, WFatFs
  <2> QED BY <1>2, <1>3, <2>1, <2>2
<1>5. e \in [exists : BOOLEAN, sclust : {0} \cup ClusterSet, size : Nat]
  BY DEF IInv, CallType, WFil
<1>6. FV' = FV /\ VEntry' = e /\ FD' = FD /\ Entry' = Entry /\ DiskType'
  <2> HIDE DEF e
  <2> QED BY <1>1, <1>2, <1>4, <1>5, EntryView DEF IInv
<1>7. fs'.wflag /\ fs'.winsect = DirSector /\ fs'.mounted = fs.mounted
  BY <1>2, <1>4 DEF IInv, DiskType, WFatFs
<1> QED BY <1>6, <1>7

-----------------------------------------------------------------------------
(* Both file systems stay well formed.                                     *)

\* The part of the invariant that is about the file systems alone.
Sound == DiskType /\ GoodDisk /\ GoodView /\ ViewGrown /\ WindowInv

\* A table that grows leaves both file systems well formed.
LEMMA GrownGood ==
  ASSUME IInv, NEW G \in Table, Tidy(G), Grown(FV, G), Front(G, VEntry.sclust),
         FV' = G, VEntry' = VEntry, FD' = FD, Entry' = Entry
  PROVE  GoodDisk' /\ GoodView' /\ ViewGrown'
<1>1. GoodDisk /\ GoodView /\ ViewGrown
  BY DEF IInv
<1>2. GoodDisk'
  BY <1>1 DEF GoodDisk
<1>3. VEntry.size \in Nat
  BY ViewType DEF ViewTyped, IInv
<1>4. Covers(G, VEntry.sclust, VEntry.size)
  BY <1>1, <1>3, GrownCovers DEF GoodView, WellFormed
<1>5. GoodView'
  BY <1>1, <1>4 DEF GoodView, WellFormed
<1>6. ViewGrown'
  <2>1. Grown(FD, FV) BY <1>1 DEF ViewGrown
  <2>2. Grown(FD, G) BY <2>1 DEF Grown
  <2> QED BY <2>2 DEF ViewGrown
<1> QED BY <1>2, <1>5, <1>6

\* Every step keeps both file systems well formed, the one on the disk a
\* beginning of the one the volume sees: f_write marks a cluster before it
\* links it, and f_sync writes the entry after both.
LEMMA SoundStep ==
  ASSUME IInv, [Next]_vars
  PROVE  Sound'
<1>0. DiskType /\ GoodDisk /\ GoodView /\ ViewGrown /\ WindowInv
  BY DEF IInv
<1>1. CASE Quiet
  <2>1. /\ View' = View /\ disk' = disk /\ DiskType'
        /\ FV' = FV /\ VEntry' = VEntry /\ FD' = FD /\ Entry' = Entry
    BY <1>1, QuietView
  <2>2. GoodDisk' /\ GoodView' /\ ViewGrown'
    BY <1>0, <2>1 DEF GoodDisk, GoodView, ViewGrown
  <2>3. WindowInv'
    <3>1. ASSUME fs' = fs PROVE WindowInv'
      BY <1>0, <2>1, <3>1 DEF WindowInv
    <3>2. ASSUME ~fs.wflag, fs'.wflag = FALSE, fs'.mounted = TRUE PROVE WindowInv'
      BY <1>0, <2>1, <3>2 DEF WindowInv
    <3>3. CASE UNCHANGED vars \/ NewRecord \/ OpenRefused \/ OpenAppend \/ Seek \/ Fill \/ WriteOn
               \/ Chain \/ Advance \/ Place \/ Close \/ (Probe /\ fs.win[scan.ncl] # Free)
      BY <3>1, <3>3 DEF vars, NewRecord, OpenRefused, OpenAppend, Seek, Fill, WriteOn, Chain,
                        Advance, Place, Close, Probe
    <3>4. CASE LoadWindow \/ LoadFails
      <4>1. step \notin {"idle", "mount"} /\ ~fs.wflag
        BY <3>4 DEF LoadWindow, LoadFails, InWindow, Needed
      <4>2. fs.mounted = TRUE /\ fs.wflag = FALSE
        BY <4>1 DEF IInv, LockInv, DiskType, WFatFs
      <4>3. fs'.mounted = TRUE /\ fs'.wflag = FALSE
        BY <3>4, <4>2, <1>0 DEF LoadWindow, LoadFails, DiskType, WFatFs
      <4> QED BY <3>2, <4>1, <4>3
    <3>5. CASE FindVolume
      <4>1. CASE fs' = fs
        BY <3>1, <4>1
      <4>2. CASE fs' # fs
        <5>1. ~fs.mounted /\ fs'.wflag = FALSE /\ fs'.mounted = TRUE
          BY <3>5, <4>2 DEF FindVolume, NotMounted
        <5>2. ~fs.wflag
          BY <5>1, <1>0, ClusterFacts DEF WindowInv, DiskType, WFatFs
        <5> QED BY <3>2, <5>1, <5>2
      <4> QED BY <4>1, <4>2
    <3>6. CASE Sync
      <4>1. step = "sync" /\ ~fs.wflag
        BY <3>6 DEF Sync
      <4>2. fs.mounted = TRUE /\ fs.wflag = FALSE
        BY <4>1 DEF IInv, LockInv, DiskType, WFatFs
      <4>3. fs'.mounted = TRUE /\ fs'.wflag = FALSE
        BY <3>6, <4>2, <1>0 DEF Sync, DiskType, WFatFs
      <4> QED BY <3>2, <4>1, <4>3
    <3> QED BY <1>1, <3>3, <3>4, <3>5, <3>6 DEF Quiet
  <2> QED BY <2>1, <2>2, <2>3 DEF Sound
<1>2. CASE FlushWindow
  <2>1. /\ View' = View /\ disk' \in {disk, View}
        /\ fs' = fs \/ (disk' = View /\ fs' = [fs EXCEPT !.wflag = FALSE])
        /\ DiskType'
    BY <1>0, <1>2, FlushView
  <2>2. FV' = FV /\ VEntry' = VEntry
    BY <2>1 DEF FV, VEntry
  <2>3. GoodView'
    BY <1>0, <2>2 DEF GoodView
  <2>4. (FD' = FD /\ Entry' = Entry) \/ (FD' = FV /\ Entry' = VEntry)
    BY <2>1 DEF FD, FV, Entry, VEntry
  <2>5. GoodDisk' /\ ViewGrown'
    BY <1>0, <2>2, <2>4 DEF GoodDisk, GoodView, ViewGrown, Grown
  <2>6. WindowInv'
    BY <1>0, <1>2, <2>1 DEF WindowInv, FlushWindow, DiskType, WFatFs
  <2> QED BY <2>1, <2>3, <2>5, <2>6 DEF Sound
<1>3. CASE PowerLoss
  <2>1. /\ View' = disk /\ disk' = disk /\ DiskType'
        /\ FV' = FD /\ VEntry' = Entry /\ FD' = FD /\ Entry' = Entry
    BY <1>3, PowerView
  <2>2. GoodDisk' /\ GoodView' /\ ViewGrown'
    BY <1>0, <2>1 DEF GoodDisk, GoodView, ViewGrown, Grown
  <2>3. WindowInv'
    BY <1>3, <2>1 DEF PowerLoss, NotMounted, WindowInv
  <2> QED BY <2>1, <2>2, <2>3 DEF Sound
<1>4. CASE Takes
  <2>1. /\ scan.ncl \in ClusterSet /\ FV[scan.ncl] = Free /\ FV \in Table
        /\ FV' = [FV EXCEPT ![scan.ncl] = EOC]
        /\ VEntry' = VEntry /\ FD' = FD /\ Entry' = Entry /\ DiskType'
        /\ fs'.wflag /\ fs'.winsect = FatSector(scan.ncl) /\ fs'.mounted = fs.mounted
    BY <1>4, TakesView
  <2>2. Tidy(FV) /\ Front(FV, VEntry.sclust)
    BY <1>0 DEF GoodView, WellFormed
  <2>3. /\ FV' \in Table /\ Tidy(FV') /\ Grown(FV, FV')
        /\ Front(FV', VEntry.sclust)
    BY <2>1, <2>2, Taken
  <2>4. GoodDisk' /\ GoodView' /\ ViewGrown'
    BY <2>1, <2>3, GrownGood
  <2>5. WindowInv'
    <3>1. fs.mounted
      BY <1>4 DEF Takes, Probe, IInv, LockInv
    <3> QED BY <2>1, <3>1, SectorFacts DEF WindowInv
  <2> QED BY <2>1, <2>4, <2>5 DEF Sound
<1>5. CASE Link
  <2>1. /\ fp.clust \in ClusterSet /\ FV \in Table
        /\ FV' = [FV EXCEPT ![fp.clust] = scan.ncl]
        /\ VEntry' = VEntry /\ FD' = FD /\ Entry' = Entry /\ DiskType'
        /\ fs'.wflag /\ fs'.winsect = FatSector(fp.clust) /\ fs'.mounted = fs.mounted
    BY <1>5, LinkView
  <2>2. Tidy(FV) /\ Front(FV, VEntry.sclust)
    BY <1>0 DEF GoodView, WellFormed
  <2>3. step = "link"
    BY <1>5 DEF Link
  <2>4. /\ scan.ncl \in ClusterSet /\ FV[scan.ncl] = EOC /\ scan.ncl # fp.clust
        /\ scan.ncl # fp.sclust /\ FV[fp.clust] = EOC
        /\ \A c \in ClusterSet : FV[c] # scan.ncl
    BY <2>3, ClusterFacts DEF IInv, Placed, ClustInv
  <2>5. VEntry.sclust # scan.ncl
    <3>1. VEntry.sclust = Entry.sclust /\ (Entry.sclust # 0 => fp.sclust = Entry.sclust)
      BY <2>3 DEF IInv, Placed, EntryInv, EntryOld, WriteSteps
    <3> QED BY <3>1, <2>4, ClusterFacts
  <2>6. /\ FV' \in Table /\ Tidy(FV') /\ Grown(FV, FV')
        /\ Front(FV', VEntry.sclust)
    BY <2>1, <2>2, <2>4, <2>5, Linked
  <2>7. GoodDisk' /\ GoodView' /\ ViewGrown'
    BY <2>1, <2>6, GrownGood
  <2>8. WindowInv'
    <3>1. fs.mounted
      BY <2>3 DEF IInv, LockInv
    <3> QED BY <2>1, <3>1, SectorFacts DEF WindowInv
  <2> QED BY <2>1, <2>7, <2>8 DEF Sound
<1>6. CASE Register
  <2>1. /\ FV' = FV /\ VEntry' = [exists |-> TRUE, sclust |-> 0, size |-> 0]
        /\ FD' = FD /\ Entry' = Entry /\ DiskType'
        /\ fs'.wflag /\ fs'.winsect = DirSector /\ fs'.mounted = fs.mounted
    BY <1>6, RegisterView
  <2>2. GoodDisk' /\ ViewGrown'
    BY <1>0, <2>1 DEF GoodDisk, ViewGrown
  <2>3. GoodView'
    <3>1. VEntry'.exists /\ VEntry'.sclust = 0 /\ VEntry'.size = 0
      BY <2>1
    <3>2. Tidy(FV') BY <1>0, <2>1 DEF GoodView, WellFormed
    <3>3. Front(FV', 0) /\ Covers(FV', 0, 0)
      BY DEF Front, Covers
    <3> QED BY <3>1, <3>2, <3>3 DEF GoodView, WellFormed
  <2>4. WindowInv'
    <3>1. fs.mounted
      BY <1>6 DEF Register, IInv, LockInv
    <3> QED BY <2>1, <3>1, ClusterFacts DEF WindowInv
  <2> QED BY <2>1, <2>2, <2>3, <2>4 DEF Sound
<1>7. CASE UpdateEntry
  <2>1. /\ FV' = FV
        /\ VEntry' = [exists |-> TRUE, sclust |-> fp.sclust, size |-> fp.fptr]
        /\ FD' = FD /\ Entry' = Entry /\ DiskType'
        /\ fs'.wflag /\ fs'.winsect = DirSector /\ fs'.mounted = fs.mounted
    BY <1>7, UpdateView
  <2>2. GoodDisk' /\ ViewGrown'
    BY <1>0, <2>1 DEF GoodDisk, ViewGrown
  <2>3. GoodView'
    <3>1. VEntry'.exists /\ VEntry'.sclust = fp.sclust /\ VEntry'.size = fp.fptr
      BY <2>1
    <3>2. Tidy(FV') BY <1>0, <2>1 DEF GoodView, WellFormed
    <3>3. Front(FV', fp.sclust) /\ Covers(FV', fp.sclust, fp.fptr)
      BY <1>7, <2>1 DEF UpdateEntry, IInv, Placed, ChainInv, DataSteps, EntryOld
    <3> QED BY <3>1, <3>2, <3>3 DEF GoodView, WellFormed
  <2>4. WindowInv'
    <3>1. fs.mounted
      BY <1>7 DEF UpdateEntry, IInv, LockInv
    <3> QED BY <2>1, <3>1, ClusterFacts DEF WindowInv
  <2> QED BY <2>1, <2>2, <2>3, <2>4 DEF Sound
<1> QED BY <1>1, <1>2, <1>3, <1>4, <1>5, <1>6, <1>7
        DEF Next, Handler, Quiet, Takes

-----------------------------------------------------------------------------
(* The call: what becomes of the FIL and of the steps.                     *)

\* The steps of a call, group by group.
LEMMA StepNames ==
  /\ OpenSteps = {"mount", "find", "seek", "fill"}
  /\ WriteSteps = {"write", "chain", "advance", "probe", "link", "place"}
  /\ CloseSteps = {"close", "entry", "sync"}
  /\ Steps = {"idle", "mount", "find", "seek", "fill", "write", "chain", "advance", "probe",
              "link", "place", "close", "entry", "sync"}
  /\ EntryOld = {"write", "chain", "advance", "probe", "link", "place", "close", "entry"}
  /\ DataSteps = {"write", "chain", "advance", "probe", "link", "place", "close", "entry", "sync"}
  /\ OpenedSteps = {"seek", "fill"}
  BY DEF OpenSteps, WriteSteps, CloseSteps, Steps, EntryOld, DataSteps, OpenedSteps

\* The three ways a call goes on after a failure.
TriesToCreate ==
  /\ mode = "append" /\ step' = "mount" /\ mode' = "create"
  /\ fp' = NoFile /\ left' = 0 /\ scan' = scan
Returns ==
  step' = "idle" /\ mode' = mode /\ fp' = NoFile /\ left' = 0 /\ scan' = NoScan
GivesUp ==
  step' = "close" /\ mode' = mode /\ fp' = fp /\ left' = left /\ scan' = NoScan

\* An open that fails is tried again as a creation, once.
LEMMA OpenFailure ==
  ASSUME OpenFails
  PROVE  TriesToCreate \/ (mode # "append" /\ Returns)
  BY DEF OpenFails, Return, GoTo, TriesToCreate, Returns

\* What the handler makes of an error of the disk.
LEMMA Failure ==
  ASSUME DiskError, step \in Steps, step # "idle"
  PROVE  /\ trouble' = TRUE /\ lock' = lock /\ rec' = rec
         /\ \/ step \in OpenSteps /\ TriesToCreate
            \/ step \in OpenSteps /\ mode # "append" /\ Returns
            \/ step \in CloseSteps /\ Returns
            \/ step \in WriteSteps /\ GivesUp
<1>1. Fails /\ trouble' = TRUE /\ lock' = lock /\ rec' = rec
  BY DEF DiskError
<1>2. CASE step \in OpenSteps
  <2>1. OpenFails
    BY <1>1, <1>2, StepNames DEF Fails
  <2> QED BY <1>1, <1>2, <2>1, OpenFailure
<1>3. CASE step \in WriteSteps
  <2>1. WriteFails
    BY <1>1, <1>3, StepNames DEF Fails
  <2> QED BY <1>1, <1>3, <2>1 DEF WriteFails, GoTo, GivesUp
<1>4. CASE step \in CloseSteps
  <2>1. Return
    BY <1>1, <1>4, StepNames DEF Fails
  <2> QED BY <1>1, <1>4, <2>1 DEF Return, GoTo, Returns
<1> QED BY <1>2, <1>3, <1>4, StepNames

\* As much of the line as the sector takes.
LEMMA Copied ==
  ASSUME CallType, step # "idle", NEW s \in ClusterSet \cup {0}, Copy(s), left > 0, left <= LineLength
  PROVE  \E w \in Nat :
           /\ 0 < w /\ w <= left /\ w <= SectorSize - (fp.fptr % SectorSize)
           /\ step' = "write" /\ mode' = mode /\ left' = left - w
           /\ fp' = [sclust |-> fp.sclust,
                     objsize |-> IF fp.fptr + w > fp.objsize THEN fp.fptr + w ELSE fp.objsize,
                     fptr |-> fp.fptr + w, clust |-> fp.clust, sect |-> s,
                     buf |-> [i \in 1 .. SectorSize |->
                                IF i - (fp.fptr % SectorSize) \in 1 .. w
                                THEN Line[(LineLength - left) + i - (fp.fptr % SectorSize)]
                                ELSE fp.buf[i]],
                     dirty |-> TRUE, modified |-> fp.modified]
           /\ fp' \in WFil
<1> DEFINE ofs == fp.fptr % SectorSize
           w == IF left < SectorSize - ofs THEN left ELSE SectorSize - ofs
           done == LineLength - left
           b == [i \in 1 .. SectorSize |->
                   IF i - ofs \in 1 .. w THEN Line[done + i - ofs] ELSE fp.buf[i]]
           o == IF fp.fptr + w > fp.objsize THEN fp.fptr + w ELSE fp.objsize
<1>1. fp \in WFil /\ fp.fptr \in Nat /\ fp.objsize \in Nat /\ left \in Nat /\ rec \in 1 .. MaxRecords
      /\ LineLength \in Nat /\ fp.buf \in [1 .. SectorSize -> Bytes]
  BY VolumeAssumption DEF CallType, WFil, Block
<1>2. ofs \in 0 .. SectorSize - 1
  BY <1>1, Sizing
<1>3. w \in Nat /\ 0 < w /\ w <= left /\ w <= SectorSize - ofs
  <2> HIDE DEF ofs
  <2> QED BY <1>1, <1>2, Sizing
<1>4. /\ fp' = [fp EXCEPT !.sect = s, !.dirty = TRUE, !.fptr = fp.fptr + w, !.objsize = o, !.buf = b]
      /\ left' = left - w /\ step' = "write" /\ mode' = mode
  BY DEF Copy, GoTo
<1>5. b \in Block
  <2>1. ASSUME NEW i \in 1 .. SectorSize, i - ofs \in 1 .. w
        PROVE  Line[done + i - ofs] \in Bytes
    <3> HIDE DEF ofs, w
    <3>1. done + i - ofs \in 1 .. LineLength
      BY <1>1, <1>2, <1>3, <2>1
    <3> QED BY <1>1, <3>1 DEF Line, Bytes
  <2> HIDE DEF ofs, w
  <2> QED BY <1>1, <2>1 DEF Block
<1>6. o \in Nat /\ fp.fptr + w \in Nat
  <2> HIDE DEF w
  <2> QED BY <1>1, <1>3
<1> HIDE DEF b, o, w
<1> DEFINE q == [sclust |-> fp.sclust, objsize |-> o, fptr |-> fp.fptr + w, clust |-> fp.clust,
                 sect |-> s, buf |-> b, dirty |-> TRUE, modified |-> fp.modified]
<1>7. fp' = q
  <2>1. fp = [sclust |-> fp.sclust, objsize |-> fp.objsize, fptr |-> fp.fptr, clust |-> fp.clust,
              sect |-> fp.sect, buf |-> fp.buf, dirty |-> fp.dirty, modified |-> fp.modified]
    BY <1>1 DEF WFil
  <2> QED BY <1>4, <2>1
<1>8. q \in WFil
  BY <1>1, <1>5, <1>6 DEF WFil
<1> HIDE DEF q
<1>9. fp' = q /\ fp' \in WFil
  BY <1>7, <1>8
<1> QED BY <1>3, <1>4, <1>9 DEF q, b, o, w

\* The values the FIL and the search have between calls.
LEMMA NoFileType == NoFile \in WFil /\ NoScan \in [scl : 0 .. n_fatent, ncl : 0 .. n_fatent]
<1>1. Blank \in Block
  BY DEF Blank, Block, Bytes
<1>2. 0 \in 0 .. n_fatent
  BY VolumeAssumption DEF n_fatent
<1> QED BY <1>1, <1>2 DEF NoFile, NoScan, WFil

\* Between calls, and before the file is found, nothing is said of a FIL.
LEMMA PlacedNone ==
  ASSUME step' \in {"idle", "mount", "find"}, fp' = NoFile, left' = 0
  PROVE  Placed'
<1>1. step' \notin DataSteps /\ step' \notin EntryOld /\ step' \notin OpenedSteps /\ step' \notin WriteSteps
  BY StepNames
<1>2. OpenInv' BY <1>1 DEF OpenInv
<1>3. ChainInv' BY <1>1 DEF ChainInv
<1>4. EntryInv' BY <1>1 DEF EntryInv
<1>5. DataInv' BY <1>1 DEF DataInv
<1>6. ClustInv' BY <1>1 DEF ClustInv
<1>7. SearchInv' BY DEF SearchInv
<1> QED BY <1>2, <1>3, <1>4, <1>5, <1>6, <1>7 DEF Placed

\* An open or a close that ends, and an open that is tried again.
LEMMA EndStep ==
  ASSUME CallType, TriesToCreate \/ Returns, step # "idle",
         lock' \in BOOLEAN, trouble' \in BOOLEAN, rec' = rec,
         data' \in [ClusterSet -> Block]
  PROVE  CallType' /\ Placed'
<1>1. step' \in {"idle", "mount"} /\ mode' \in {"append", "create"} /\ fp' = NoFile /\ left' = 0
      /\ scan' \in {scan, NoScan}
  BY DEF TriesToCreate, Returns, CallType
<1>2. Placed'
  BY <1>1, PlacedNone
<1>3. step' \in Steps
  BY <1>1, StepNames
<1>4. CallType'
  BY <1>1, <1>3, NoFileType DEF CallType
<1> QED BY <1>2, <1>4

\* A request is served and the call has not gone on.
LEMMA StayStep ==
  ASSUME IInv, UNCHANGED <<data, lock, fp, calls, rec, trouble>>,
         FV' = FV, VEntry' = VEntry,
         fs'.wflag => fs.wflag /\ fs'.winsect = fs.winsect,
         step \in EntryOld \/ (step = "sync" /\ fs'.wflag) =>
           Entry'.size = Entry.size /\ Entry'.sclust = Entry.sclust,
         step \in OpenedSteps => Entry' = Entry
  PROVE  CallType' /\ Placed' /\ FullInv'
<1>0. CallType /\ OpenInv /\ ChainInv /\ EntryInv /\ DataInv /\ ClustInv /\ SearchInv /\ FullInv
  BY DEF IInv, Placed
<1>1. /\ data' = data /\ lock' = lock /\ fp' = fp /\ step' = step /\ mode' = mode
      /\ left' = left /\ scan' = scan /\ rec' = rec /\ trouble' = trouble
  BY DEF calls
<1>2. P' = P /\ Base' = Base /\ LData' = LData
  BY <1>1 DEF P, Base, LData, BufferWritten
<1>3. CallType' BY <1>0, <1>1 DEF CallType
<1>4. OpenInv' BY <1>0, <1>1, <1>2 DEF OpenInv
<1>5. ChainInv' BY <1>0, <1>1, <1>2 DEF ChainInv
<1>6. EntryInv' BY <1>0, <1>1, <1>2 DEF EntryInv
<1>7. DataInv'
  <2>1. step \in EntryOld => Entry'.size = Entry.size OBVIOUS
  <2> QED BY <1>0, <1>1, <1>2, <2>1 DEF DataInv
<1>8. ClustInv' BY <1>0, <1>1, <1>2 DEF ClustInv
<1>9. SearchInv' BY <1>0, <1>1 DEF SearchInv
<1>10. FullInv' BY <1>0, <1>1 DEF FullInv
<1> QED BY <1>3, <1>4, <1>5, <1>6, <1>7, <1>8, <1>9, <1>10 DEF Placed

\* f_write gives up on an error of the disk, whatever became of the sector.
LEMMA GiveUpStep ==
  ASSUME IInv, step \in WriteSteps, GivesUp, lock' = lock, rec' = rec, trouble' = TRUE,
         data' \in {data, BufferWritten}, data' = data \/ fp.dirty,
         FV' = FV, VEntry' = VEntry,
         Entry'.size = Entry.size, Entry'.sclust = Entry.sclust
  PROVE  CallType' /\ Placed' /\ FullInv'
<1>0. CallType /\ OpenInv /\ ChainInv /\ EntryInv /\ DataInv /\ ClustInv /\ SearchInv /\ FullInv
  BY DEF IInv, Placed
<1>1. /\ step' = "close" /\ mode' = mode /\ fp' = fp /\ left' = left /\ scan' = NoScan
      /\ rec' = rec /\ lock' = lock
      /\ step \in DataSteps /\ step \in EntryOld
  BY StepNames DEF GivesUp
<1>2. P' = P /\ Base' = Base
  BY <1>1 DEF P, Base
<1>3. LData' = LData /\ (data' = data \/ data' = LData)
  <2>1. CASE data' = data
    BY <1>1, <2>1 DEF LData, BufferWritten
  <2>2. CASE data' = BufferWritten /\ fp.dirty
    <3>1. LData' = [BufferWritten EXCEPT ![fp.sect] = fp.buf]
      BY <1>1, <2>2 DEF LData, BufferWritten
    <3>2. data \in [ClusterSet -> Block]
      BY <1>0 DEF CallType
    <3>3. LData' = BufferWritten
      BY <3>1, <3>2 DEF BufferWritten
    <3> QED BY <2>2, <3>3 DEF LData
  <2> QED BY <2>1, <2>2
<1>4. data' \in [ClusterSet -> Block]
  BY <1>0 DEF BufferWritten, CallType, WFil
<1>5. CallType' BY <1>0, <1>1, <1>4, NoFileType, StepNames DEF CallType
<1>6. OpenInv' BY <1>1, StepNames DEF OpenInv
<1>7. ChainInv' BY <1>0, <1>1, <1>2, StepNames DEF ChainInv
<1>8. EntryInv' BY <1>0, <1>1, <1>2, StepNames DEF EntryInv
<1>9. DataInv'
  <2>1. \A k \in Base + 1 .. fp.fptr : At(P, LData, k) = <<rec, k - Base>>
    BY <1>0, <1>1 DEF DataInv
  <2>2. \A k \in 1 .. Entry.size : At(P, LData, k) = At(P, data', k)
    BY <1>0, <1>1, <1>3 DEF DataInv
  <2>3. fp.dirty => fp.fptr > 0 /\ fp.sect = P[Sec(fp.fptr)]
    BY <1>0, <1>1 DEF DataInv
  <2> QED BY <1>1, <1>2, <1>3, <2>1, <2>2, <2>3 DEF DataInv
<1>10. ClustInv' BY <1>1, StepNames DEF ClustInv
<1>11. SearchInv' BY <1>1 DEF SearchInv
<1>12. FullInv' BY <1>1 DEF FullInv
<1> QED BY <1>5, <1>6, <1>7, <1>8, <1>9, <1>10, <1>11, <1>12 DEF Placed

-----------------------------------------------------------------------------
(* f_open, action by action.                                               *)

\* A new record changes nothing of the file system.
LEMMA NewRecordStep ==
  ASSUME IInv, NewRecord
  PROVE  CallType' /\ Placed' /\ FullInv'
<1>1. /\ step = "idle" /\ step' = "mount" /\ mode' = "append" /\ rec' = rec + 1 /\ rec < MaxRecords
      /\ trouble' = FALSE /\ data' = data /\ lock' = lock /\ fp' = fp /\ left' = left /\ scan' = scan
  BY DEF NewRecord
<1>2. fp = NoFile /\ left = 0
  BY <1>1 DEF IInv, Placed, OpenInv
<1>3. Placed'
  BY <1>1, <1>2, PlacedNone
<1>4. CallType'
  <2>1. rec' \in 0 .. MaxRecords /\ rec' > 0
    BY <1>1, VolumeAssumption DEF IInv, CallType
  <2> QED BY <1>1, <2>1, StepNames DEF IInv, CallType
<1>5. FullInv'
  BY <1>1, StepNames DEF FullInv
<1> QED BY <1>3, <1>4, <1>5

\* The volume is mounted, or is already, or cannot be.
LEMMA FindVolumeStep ==
  ASSUME IInv, FindVolume
  PROVE  CallType' /\ Placed' /\ FullInv'
<1>0. CallType /\ LockInv /\ FullInv /\ step = "mount" /\ data' = data
  BY DEF IInv, FindVolume
<1>1. fp = NoFile /\ left = 0
  BY <1>0 DEF IInv, Placed, OpenInv
<1>2. CASE DiskError
  <2>1. TriesToCreate \/ Returns
    BY <1>0, <1>2, Failure, StepNames
  <2>2. trouble' = TRUE /\ lock' = lock /\ rec' = rec
    BY <1>0, <1>2, Failure, StepNames
  <2>3. CallType' /\ Placed'
    BY <1>0, <2>1, <2>2, EndStep DEF CallType
  <2>4. FullInv'
    BY <2>1, <2>2, StepNames DEF FullInv, TriesToCreate, Returns
  <2> QED BY <2>3, <2>4
<1>3. CASE GoTo("find") /\ UNCHANGED <<fp, left, scan, rec, trouble>> /\ lock' = lock
  <2>1. Placed'
    BY <1>1, <1>3, PlacedNone DEF GoTo
  <2>2. CallType'
    BY <1>0, <1>3, StepNames DEF CallType, GoTo
  <2>3. FullInv'
    BY <1>0, <1>3, StepNames DEF FullInv, GoTo
  <2> QED BY <2>1, <2>2, <2>3
<1>4. CASE ~fs.mounted /\ GoTo("find") /\ UNCHANGED <<fp, left, scan, rec, trouble>> /\ lock' = FALSE
  <2>1. lock = FALSE
    BY <1>0, <1>4 DEF LockInv, CallType
  <2> QED BY <2>1, <1>3, <1>4
<1> QED BY <1>2, <1>3, <1>4 DEF FindVolume

\* A file that is open or that exists is refused.
LEMMA OpenRefusedStep ==
  ASSUME IInv, OpenRefused
  PROVE  CallType' /\ Placed' /\ FullInv'
<1>0. CallType /\ step = "find" /\ data' = data /\ lock' = lock /\ rec' = rec /\ trouble' = trouble
      /\ OpenFails /\ (lock \/ mode = "create")
  BY DEF IInv, OpenRefused
<1>1. TriesToCreate \/ Returns
  BY <1>0, OpenFailure
<1>2. CallType' /\ Placed'
  BY <1>0, <1>1, EndStep DEF CallType
<1>3. FullInv'
  BY <1>0, <1>1, StepNames DEF FullInv, TriesToCreate, Returns
<1> QED BY <1>2, <1>3

\* Where f_open goes on with ofs bytes left to the end of the file.
LEMMA SeekFromIs ==
  ASSUME NEW ofs \in Nat, SeekFrom(ofs)
  PROVE  /\ mode' = mode
         /\ \/ step' = "seek" /\ left' = ofs /\ ofs > SectorSize
            \/ step' = "fill" /\ left' = ofs /\ 0 < ofs /\ ofs < SectorSize
            \/ step' = "write" /\ left' = LineLength /\ ofs \in {0, SectorSize}
<1>1. SectorSize % SectorSize = 0 /\ 0 % SectorSize = 0
  <2>1. SectorSize = 1 * SectorSize + 0 /\ 0 = 0 * SectorSize + 0 /\ 0 < SectorSize
    BY Sizing
  <2>2. (1 * SectorSize + 0) % SectorSize = 0 /\ (0 * SectorSize + 0) % SectorSize = 0
    BY Remainder, Sizing
  <2> QED BY <2>1, <2>2
<1>2. CASE ofs > SectorSize
  BY <1>2 DEF SeekFrom, GoTo
<1>3. CASE ~(ofs > SectorSize) /\ ofs % SectorSize # 0
  <2>1. ofs # SectorSize /\ ofs # 0
    BY <1>1, <1>3
  <2>2. 0 < ofs /\ ofs < SectorSize
    BY <1>3, <2>1, Sizing
  <2> QED BY <1>3, <2>2 DEF SeekFrom, GoTo
<1>4. CASE ~(ofs > SectorSize) /\ ofs % SectorSize = 0
  <2>1. ofs \in {0, SectorSize}
    <3>1. ASSUME 0 < ofs, ofs < SectorSize PROVE FALSE
      <4>1. (0 * SectorSize + ofs) % SectorSize = ofs BY <3>1, Remainder
      <4>2. 0 * SectorSize + ofs = ofs BY Sizing
      <4> QED BY <4>1, <4>2, <3>1, <1>4
    <3> QED BY <3>1, <1>4, Sizing
  <2> QED BY <1>4, <2>1 DEF SeekFrom, GoTo
<1> QED BY <1>2, <1>3, <1>4

\* A file that is not empty begins with a cluster.
LEMMA FirstCluster ==
  ASSUME NEW F, NEW a, NEW size \in Nat, size > 0, Covers(F, a, size)
  PROVE  a \in ClusterSet
<1>1. 0 \in 0 .. Sec(size)
  BY BytePlace
<1>2. Path(ClusterSet, F, a)[0] \in ClusterSet
  BY <1>1 DEF Covers
<1> QED BY <1>2, PathSteps

\* The end of the file is found: the line is written from here.
LEMMA StartsWrite ==
  ASSUME IInv, VEntry = Entry, FV' = FV, VEntry' = VEntry, Entry' = Entry,
         data' = data, lock' = TRUE, rec' = rec, trouble' = trouble, mode' = mode, scan' = scan,
         step = "find" \/ step \in OpenedSteps,
         step' = "write", left' = LineLength, fp' \in WFil,
         fp'.sclust = Entry.sclust, fp'.objsize = Entry.size, fp'.fptr = Entry.size,
         fp'.dirty = FALSE,
         Entry.size > 0 => fp'.clust = P'[Sec(Entry.size)],
         Entry.size % SectorSize # 0 => fp'.sect = fp'.clust /\ fp'.buf = data[fp'.sect]
  PROVE  CallType' /\ Placed' /\ FullInv'
<1>0. CallType /\ GoodView /\ Entry.size \in Nat
  BY ViewType DEF IInv, ViewTyped
<1>1. step # "idle" /\ step' \in DataSteps /\ step' \in EntryOld
  BY StepNames
<1>2. Base' = Entry.size
  BY <1>0, VolumeAssumption DEF Base
<1>3. LData' = data
  BY DEF LData
<1>4. CallType'
  BY <1>0, <1>1, VolumeAssumption, StepNames DEF CallType
<1>5. OpenInv' BY StepNames DEF OpenInv
<1>6. ChainInv'
  <2>1. Front(FV, Entry.sclust) /\ Covers(FV, Entry.sclust, Entry.size)
    BY <1>0 DEF GoodView, WellFormed
  <2>2. Entry.sclust = 0 => Entry.size = 0
    BY <1>0, <2>1, FirstCluster, ClusterFacts
  <2> QED BY <1>0, <1>2, <2>1, <2>2, VolumeAssumption DEF ChainInv
<1>7. EntryInv' BY <1>2, StepNames DEF EntryInv
<1>8. DataInv'
  <2>1. \A k \in Entry.size + 1 .. Entry.size : FALSE
    BY <1>0
  <2> QED BY <1>2, <1>3, <2>1, StepNames DEF DataInv
<1>9. ClustInv' BY StepNames DEF ClustInv
<1>10. SearchInv' BY DEF SearchInv
<1>11. FullInv' BY StepNames DEF FullInv
<1> QED BY <1>4, <1>5, <1>6, <1>7, <1>8, <1>9, <1>10, <1>11 DEF Placed

\* The end of the file is still to be found.
LEMMA SeeksOn ==
  ASSUME IInv, VEntry = Entry, FV' = FV, VEntry' = VEntry, Entry' = Entry,
         data' = data, lock' = TRUE, rec' = rec, trouble' = trouble, mode' = mode, scan' = scan,
         step = "find" \/ step \in OpenedSteps,
         step' \in OpenedSteps, fp' \in WFil,
         fp'.sclust = Entry.sclust, fp'.objsize = Entry.size, fp'.fptr = Entry.size,
         fp'.dirty = FALSE, fp'.modified = FALSE,
         left' \in 1 .. Entry.size, (Entry.size - left') % SectorSize = 0,
         fp'.clust = P'[Sec(Entry.size - left' + 1)],
         step' = "seek" => left' > SectorSize,
         step' = "fill" => left' < SectorSize
  PROVE  CallType' /\ Placed' /\ FullInv'
<1>0. CallType /\ Entry.size \in Nat
  BY ViewType DEF IInv, ViewTyped
<1>1. step # "idle" /\ step' \notin DataSteps /\ step' \notin EntryOld /\ step' \in Steps
      /\ step' \notin {"idle", "mount", "find"}
  BY StepNames
<1>4. CallType'
  <2>1. left' \in Nat BY <1>0
  <2> QED BY <1>0, <1>1, <2>1 DEF CallType
<1>5. OpenInv' BY <1>1 DEF OpenInv
<1>6. ChainInv' BY <1>1 DEF ChainInv
<1>7. EntryInv' BY <1>1, StepNames DEF EntryInv
<1>8. DataInv' BY <1>1, StepNames DEF DataInv
<1>9. ClustInv' BY <1>1, StepNames DEF ClustInv
<1>10. SearchInv' BY StepNames DEF SearchInv
<1>11. FullInv' BY StepNames DEF FullInv
<1> QED BY <1>4, <1>5, <1>6, <1>7, <1>8, <1>9, <1>10, <1>11 DEF Placed

\* A window that is not the locked file's shows the directory of the disk.
LEMMA FindEntry ==
  ASSUME IInv, step = "find", InWindow, ~lock \/ ~fs.win.exists
  PROVE  fs.win = Entry /\ VEntry = Entry /\ fs.wflag = FALSE
<1>1. fs.winsect = DirSector /\ fs.win = VEntry
  BY ViewType DEF InWindow, Needed, ViewTyped, IInv
<1>2. ~fs.wflag
  BY <1>1 DEF IInv, LockInv
<1>3. View = disk /\ fs.wflag = FALSE
  BY <1>2 DEF IInv, WindowInv, DiskType, WFatFs
<1> QED BY <1>1, <1>3 DEF VEntry, Entry

\* f_open starts the search for the end at the first cluster.
LEMMA OpenAppendStep ==
  ASSUME IInv, OpenAppend
  PROVE  CallType' /\ Placed' /\ FullInv'
<1>1. /\ FV' = FV /\ VEntry' = VEntry /\ Entry' = Entry
  BY QuietView DEF Quiet
<1>2. /\ step = "find" /\ InWindow /\ ~lock /\ lock' = TRUE
      /\ fp' = [NoFile EXCEPT !.sclust = fs.win.sclust, !.objsize = fs.win.size,
                              !.fptr = fs.win.size, !.clust = fs.win.sclust]
      /\ SeekFrom(fs.win.size)
      /\ data' = data /\ scan' = scan /\ rec' = rec /\ trouble' = trouble
  BY DEF OpenAppend
<1>3. fs.win = Entry /\ VEntry = Entry
  BY <1>2, FindEntry
<1>4. Entry.size \in Nat /\ Entry.sclust \in {0} \cup ClusterSet
  BY ViewType DEF IInv, ViewTyped
<1>5. /\ fp'.sclust = Entry.sclust /\ fp'.objsize = Entry.size /\ fp'.fptr = Entry.size
      /\ fp'.clust = Entry.sclust /\ fp'.dirty = FALSE /\ fp'.modified = FALSE
  BY <1>2, <1>3 DEF NoFile
<1>6. fp' \in WFil
  BY <1>2, <1>3, <1>4, NoFileType DEF WFil
<1>7. P'[0] = Entry.sclust
  BY <1>1, <1>5, PathSteps DEF P
<1>8. /\ mode' = mode
      /\ \/ step' = "seek" /\ left' = Entry.size /\ Entry.size > SectorSize
         \/ step' = "fill" /\ left' = Entry.size /\ 0 < Entry.size /\ Entry.size < SectorSize
         \/ step' = "write" /\ left' = LineLength /\ Entry.size \in {0, SectorSize}
  BY <1>2, <1>3, <1>4, SeekFromIs
<1>9. 0 % SectorSize = 0 /\ Sec(SectorSize) = 0 /\ SectorSize % SectorSize = 0
  <2>1. (0 * SectorSize + 0) % SectorSize = 0 /\ (1 * SectorSize + 0) % SectorSize = 0
    BY Remainder, Sizing
  <2>2. 0 * SectorSize + 0 = 0 /\ 0 * SectorSize + SectorSize = SectorSize
        /\ 1 * SectorSize + 0 = SectorSize /\ SectorSize \in 1 .. SectorSize
    BY Sizing
  <2>3. Sec(0 * SectorSize + SectorSize) = 0
    BY <2>2, PlaceByte
  <2> QED BY <2>1, <2>2, <2>3
<1>10. CASE step' \in OpenedSteps
  <2>1. left' = Entry.size /\ left' > 0 /\ (step' = "seek" => left' > SectorSize)
        /\ (step' = "fill" => left' < SectorSize)
    BY <1>4, <1>8, <1>10, Sizing DEF OpenedSteps
  <2>2. left' \in 1 .. Entry.size /\ Entry.size - left' = 0
    BY <1>4, <2>1
  <2>3. fp'.clust = P'[Sec(Entry.size - left' + 1)] /\ (Entry.size - left') % SectorSize = 0
    BY <1>5, <1>7, <1>9, <2>2, FirstPlace
  <2> QED BY <1>1, <1>2, <1>3, <1>5, <1>6, <1>8, <1>10, <2>1, <2>2, <2>3, SeeksOn
<1>11. CASE step' = "write"
  <2>1. left' = LineLength /\ Entry.size \in {0, SectorSize}
    BY <1>8, <1>11
  <2>2. Entry.size > 0 => fp'.clust = P'[Sec(Entry.size)]
    BY <1>5, <1>7, <1>9, <2>1
  <2>3. Entry.size % SectorSize = 0
    BY <1>9, <2>1
  <2> QED BY <1>1, <1>2, <1>3, <1>5, <1>6, <1>8, <1>11, <2>1, <2>2, <2>3, StartsWrite
<1> QED BY <1>8, <1>10, <1>11 DEF OpenedSteps

\* A file that f_open creates is empty.
LEMMA RegisterStep ==
  ASSUME IInv, Register
  PROVE  CallType' /\ Placed' /\ FullInv'
<1>1. /\ FV' = FV /\ VEntry' = [exists |-> TRUE, sclust |-> 0, size |-> 0]
      /\ Entry' = Entry /\ VEntry.size = 0 /\ VEntry.sclust = 0
  BY RegisterView
<1>2. /\ step = "find" /\ InWindow /\ ~fs.win.exists /\ lock' = TRUE
      /\ fp' = [NoFile EXCEPT !.modified = TRUE]
      /\ step' = "write" /\ mode' = mode /\ left' = LineLength
      /\ data' = data /\ scan' = scan /\ rec' = rec /\ trouble' = trouble
  BY DEF Register, GoTo
<1>3. VEntry = Entry
  BY <1>2, FindEntry
<1>4. /\ fp'.sclust = 0 /\ fp'.objsize = 0 /\ fp'.fptr = 0 /\ fp'.dirty = FALSE
      /\ fp' \in WFil
  BY <1>2, NoFileType DEF NoFile, WFil
<1>5. CallType
  BY DEF IInv
<1>6. Base' = 0 /\ LData' = data
  BY <1>2, <1>4, VolumeAssumption DEF Base, LData
<1>7. CallType'
  BY <1>2, <1>4, <1>5, VolumeAssumption, StepNames DEF CallType
<1>8. OpenInv' BY <1>2, StepNames DEF OpenInv
<1>9. ChainInv'
  <2>1. Front(FV', 0) /\ Covers(FV', 0, 0)
    BY DEF Front, Covers
  <2> QED BY <1>2, <1>4, <1>6, <2>1, VolumeAssumption DEF ChainInv
<1>10. EntryInv' BY <1>1, <1>2, <1>3, <1>6, StepNames DEF EntryInv
<1>11. DataInv'
  <2>1. \A k \in 0 + 1 .. 0 : FALSE
    OBVIOUS
  <2>2. 0 % SectorSize = 0
    <3>1. (0 * SectorSize + 0) % SectorSize = 0 BY Remainder, Sizing
    <3>2. 0 * SectorSize + 0 = 0 BY Sizing
    <3> QED BY <3>1, <3>2
  <2> QED BY <1>1, <1>2, <1>3, <1>4, <1>6, <2>1, <2>2, StepNames DEF DataInv
<1>12. ClustInv' BY <1>2, <1>4, StepNames DEF ClustInv
<1>13. SearchInv' BY <1>2 DEF SearchInv
<1>14. FullInv' BY <1>2, StepNames DEF FullInv
<1> QED BY <1>7, <1>8, <1>9, <1>10, <1>11, <1>12, <1>13, <1>14 DEF Placed

\* FA_SEEKEND goes one cluster on, which the chain always has.
LEMMA SeekStep ==
  ASSUME IInv, Seek
  PROVE  CallType' /\ Placed' /\ FullInv'
<1>1. /\ FV' = FV /\ VEntry' = VEntry /\ Entry' = Entry
  BY QuietView DEF Quiet
<1>2. /\ step = "seek" /\ InWindow /\ step \in OpenedSteps
      /\ data' = data /\ lock' = lock /\ rec' = rec /\ trouble' = trouble
  BY DEF Seek, OpenedSteps
<1>3. /\ FV = FD /\ VEntry = Entry /\ Entry.size \in Nat
      /\ Sec(fp.fptr - left + 1) \in Nat /\ Sec(fp.fptr - left + 1) <= Sec(fp.fptr)
      /\ fp.clust \in ClusterSet
  BY <1>2, SeekPlace
<1>4. /\ fp.fptr = Entry.size /\ fp.objsize = Entry.size
      /\ fp.sclust = Entry.sclust /\ ~fp.dirty /\ ~fp.modified
      /\ left \in 1 .. fp.fptr /\ (fp.fptr - left) % SectorSize = 0
      /\ fp.clust = P[Sec(fp.fptr - left + 1)] /\ left > SectorSize
  BY <1>2 DEF IInv, Placed, OpenInv
<1>5. lock = TRUE /\ fp \in WFil /\ CallType
  BY <1>2 DEF IInv, LockInv, CallType
<1>6. fs.win[fp.clust] = FV[fp.clust]
  BY <1>2, <1>3, ViewType DEF InWindow, Needed, IInv, ViewTyped
<1>7. CASE fs.win[fp.clust] \notin ClusterSet
  <2>1. OpenFails
    BY <1>7 DEF Seek
  <2>2. TriesToCreate \/ Returns
    BY <2>1, OpenFailure
  <2>3. CallType' /\ Placed'
    BY <1>2, <1>5, <2>2, EndStep DEF CallType
  <2>4. FullInv'
    BY <1>2, <1>5, <2>2, StepNames DEF FullInv, TriesToCreate, Returns
  <2> QED BY <2>3, <2>4
<1>8. CASE fs.win[fp.clust] \in ClusterSet
  <2> DEFINE pos == fp.fptr - left
             rest == left - SectorSize
  <2>1. fp' = [fp EXCEPT !.clust = fs.win[fp.clust]] /\ SeekFrom(rest) /\ scan' = scan
    BY <1>8 DEF Seek
  <2>2. /\ fp'.sclust = Entry.sclust /\ fp'.objsize = Entry.size /\ fp'.fptr = Entry.size
        /\ fp'.clust = FV[fp.clust] /\ fp'.dirty = FALSE /\ fp'.modified = FALSE
        /\ fp' \in WFil /\ fp'.sclust = fp.sclust
    BY <2>1, <1>4, <1>5, <1>6, <1>8 DEF WFil
  <2>3. P' = P
    BY <1>1, <2>2 DEF P
  <2>4. pos \in Nat /\ rest \in Nat /\ rest > 0 /\ fp.fptr = pos + SectorSize + rest /\ fp.fptr \in Nat
    <3>1. fp.fptr \in Nat
      BY <1>3, <1>4
    <3>2. left \in Nat /\ left <= fp.fptr /\ left > SectorSize
      BY <1>4, <3>1
    <3> QED BY <3>1, <3>2, Sizing
  <2>5. pos % SectorSize = 0
    BY <1>4
  <2>6. P[Sec(pos + 1) + 1] = FV[fp.clust]
    <3>1. P[Sec(pos + 1) + 1] = Successor(ClusterSet, FV, P[Sec(pos + 1)])
      BY <1>3, PathSteps DEF P
    <3> QED BY <3>1, <1>3, <1>4 DEF Successor
  <2>7. /\ mode' = mode
        /\ \/ step' = "seek" /\ left' = rest /\ rest > SectorSize
           \/ step' = "fill" /\ left' = rest /\ 0 < rest /\ rest < SectorSize
           \/ step' = "write" /\ left' = LineLength /\ rest \in {0, SectorSize}
    <3> HIDE DEF rest
    <3> QED BY <2>1, <2>4, SeekFromIs
  <2> HIDE DEF pos, rest
  <2>8. /\ (pos + SectorSize) % SectorSize = 0
        /\ Sec(pos + SectorSize + 1) = Sec(pos + 1) + 1
        /\ pos + SectorSize \in Nat
    <3>1. pos + SectorSize \in Nat
      BY <2>4, Sizing
    <3>2. (pos + SectorSize) % SectorSize = 0
      BY <2>4, <2>5, SectorOn
    <3>3. Sec(pos + SectorSize + 1) = Sec(pos + 1) + 1
      BY <2>4, <2>5, SectorOn
    <3> QED BY <3>1, <3>2, <3>3
  <2>9. fp'.clust = P'[Sec(pos + SectorSize + 1)]
    BY <2>2, <2>3, <2>6, <2>8
  <2>10. CASE step' \in OpenedSteps
    <3>1. left' = rest /\ (step' = "seek" => left' > SectorSize) /\ (step' = "fill" => left' < SectorSize)
      BY <2>4, <2>7, <2>10, Sizing DEF OpenedSteps
    <3>2. left' \in 1 .. Entry.size /\ Entry.size - left' = pos + SectorSize
      BY <1>4, <2>4, <3>1, Sizing
    <3>3. fp'.clust = P'[Sec(Entry.size - left' + 1)] /\ (Entry.size - left') % SectorSize = 0
      BY <2>8, <2>9, <3>2
    <3> QED BY <1>1, <1>2, <1>3, <1>5, <2>1, <2>2, <2>7, <2>10, <3>1, <3>2, <3>3, SeeksOn
  <2>11. CASE step' = "write"
    <3>1. left' = LineLength /\ rest = SectorSize
      BY <2>4, <2>7, <2>11
    <3>2. Entry.size = pos + SectorSize + SectorSize
      BY <1>4, <2>4, <3>1
    <3>3. Entry.size % SectorSize = 0 /\ Sec(Entry.size) = Sec(pos + SectorSize + 1)
      <4> DEFINE n == pos + SectorSize
      <4>1. n \in Nat /\ n % SectorSize = 0 /\ Entry.size = n + SectorSize
        BY <2>8, <3>2
      <4> HIDE DEF n
      <4>2. Entry.size % SectorSize = 0 /\ Sec(Entry.size) = Sec(n + 1)
        BY <4>1, SectorOn
      <4> QED BY <4>2 DEF n
    <3>4. Entry.size > 0 => fp'.clust = P'[Sec(Entry.size)]
      BY <2>9, <3>3
    <3> QED BY <1>1, <1>2, <1>3, <1>5, <2>1, <2>2, <2>7, <2>11, <3>1, <3>3, <3>4, StartsWrite
  <2> QED BY <2>7, <2>10, <2>11 DEF OpenedSteps
<1> QED BY <1>7, <1>8

\* The buffer holds the sector the file ends in.
LEMMA FillStep ==
  ASSUME IInv, Fill
  PROVE  CallType' /\ Placed' /\ FullInv'
<1>1. /\ FV' = FV /\ VEntry' = VEntry /\ Entry' = Entry
  BY QuietView DEF Quiet
<1>2. step = "fill" /\ step \in OpenedSteps /\ data' = data
  BY DEF Fill, OpenedSteps
<1>3. /\ FV = FD /\ VEntry = Entry /\ Entry.size \in Nat /\ fp.clust \in ClusterSet
  BY <1>2, SeekPlace
<1>4. /\ fp.fptr = Entry.size /\ fp.objsize = Entry.size
      /\ fp.sclust = Entry.sclust /\ ~fp.dirty /\ ~fp.modified
      /\ left \in 1 .. fp.fptr /\ (fp.fptr - left) % SectorSize = 0
      /\ fp.clust = P[Sec(fp.fptr - left + 1)] /\ left < SectorSize
  BY <1>2 DEF IInv, Placed, OpenInv
<1>5. lock = TRUE /\ fp \in WFil /\ CallType
  BY <1>2 DEF IInv, LockInv, CallType
<1>6. CASE DiskError
  <2>1. (TriesToCreate \/ Returns) /\ trouble' = TRUE /\ lock' = lock /\ rec' = rec
    BY <1>2, <1>6, Failure, StepNames
  <2>2. CallType' /\ Placed'
    BY <1>2, <1>5, <2>1, EndStep DEF CallType
  <2>3. FullInv'
    BY <2>1, StepNames DEF FullInv, TriesToCreate, Returns
  <2> QED BY <2>2, <2>3
<1>7. CASE /\ fp' = [fp EXCEPT !.sect = fp.clust, !.buf = data[fp.clust]]
           /\ GoTo("write") /\ left' = LineLength
           /\ UNCHANGED <<scan, lock, rec, trouble>>
  <2>1. /\ fp'.sclust = Entry.sclust /\ fp'.objsize = Entry.size /\ fp'.fptr = Entry.size
        /\ fp'.clust = fp.clust /\ fp'.sect = fp.clust /\ fp'.buf = data[fp'.sect]
        /\ fp'.dirty = FALSE /\ fp'.sclust = fp.sclust
    BY <1>4, <1>5, <1>7 DEF WFil
  <2>2. fp' \in WFil
    BY <1>3, <1>5, <1>7 DEF WFil, CallType
  <2>3. P' = P
    BY <1>1, <2>1 DEF P
  <2>4. Sec(Entry.size) = Sec(fp.fptr - left + 1)
    <3> DEFINE pos == fp.fptr - left
    <3>1. pos \in Nat /\ pos % SectorSize = 0 /\ left \in 1 .. SectorSize - 1 /\ Entry.size = pos + left
      BY <1>3, <1>4, Sizing
    <3> HIDE DEF pos
    <3>2. Sec(Entry.size) = Sec(pos + 1)
      BY <3>1, SectorOn
    <3> QED BY <3>2 DEF pos
  <2>5. Entry.size > 0 => fp'.clust = P'[Sec(Entry.size)]
    BY <1>4, <2>1, <2>3, <2>4
  <2>6. step' = "write" /\ mode' = mode /\ left' = LineLength /\ scan' = scan /\ lock' = TRUE
        /\ rec' = rec /\ trouble' = trouble
    BY <1>5, <1>7 DEF GoTo
  <2> QED BY <1>1, <1>2, <1>3, <2>1, <2>2, <2>5, <2>6, StartsWrite
<1> QED BY <1>6, <1>7 DEF Fill

-----------------------------------------------------------------------------
(* f_write, action by action.                                              *)

\* The chain as far as the sector of the next byte.
LEMMA ChainSoFar ==
  ASSUME IInv, step \in DataSteps, P[Sec(fp.fptr + 1)] \in ClusterSet
  PROVE  /\ fp.fptr \in Nat /\ Sec(fp.fptr + 1) \in Nat /\ fp.sclust \in ClusterSet
         /\ \A n \in 0 .. Sec(fp.fptr + 1) : P[n] \in ClusterSet
         /\ \A i, j \in 0 .. Sec(fp.fptr + 1) : P[i] = P[j] => i = j
         /\ \A k \in 1 .. fp.fptr :
              Sec(k) \in 0 .. Sec(fp.fptr) /\ Sec(k) \in 0 .. Sec(fp.fptr + 1)
<1>1. fp.fptr \in Nat /\ fp.sclust \in {0} \cup ClusterSet
  BY DEF IInv, CallType, WFil
<1>2. fp.fptr + 1 \in Nat /\ fp.fptr + 1 > 0 /\ Sec(fp.fptr + 1) \in Nat
  <2>1. fp.fptr + 1 \in Nat /\ fp.fptr + 1 > 0
    BY <1>1
  <2> QED BY <2>1, BytePlace
<1>3. \A n \in 0 .. Sec(fp.fptr + 1) : P[n] \in ClusterSet
  <2>1. CASE fp.fptr = 0
    <3>1. Sec(fp.fptr + 1) = 0
      BY <2>1, FirstPlace
    <3> QED BY <3>1
  <2>2. CASE fp.fptr > 0
    <3>1. Sec(fp.fptr) \in Nat /\ \A n \in 0 .. Sec(fp.fptr) : P[n] \in ClusterSet
      BY <2>2, WritePlace
    <3>2. Sec(fp.fptr + 1) \in {Sec(fp.fptr), Sec(fp.fptr) + 1}
      BY <1>1, <2>2, PlaceNext
    <3>3. ASSUME NEW n \in 0 .. Sec(fp.fptr + 1) PROVE P[n] \in ClusterSet
      <4>1. n \in 0 .. Sec(fp.fptr) \/ n = Sec(fp.fptr + 1)
        BY <3>1, <3>2
      <4> QED BY <3>1, <4>1
    <3> QED BY <3>3
  <2> QED BY <1>1, <2>1, <2>2
<1>4. fp.sclust \in ClusterSet
  <2>1. P[0] \in ClusterSet
    BY <1>2, <1>3
  <2> QED BY <2>1, PathSteps DEF P
<1>5. \A i, j \in 0 .. Sec(fp.fptr + 1) : P[i] = P[j] => i = j
  <2>1. Front(FV, fp.sclust) /\ Tidy(FV)
    BY DEF IInv, Placed, ChainInv, GoodView, WellFormed
  <2>2. Injective(ClusterSet, FV) /\ \A c \in ClusterSet : FV[c] # fp.sclust
    BY <1>4, <2>1, ClusterFacts DEF Front, Tidy
  <2>3. \A n \in 0 .. Sec(fp.fptr + 1) : Path(ClusterSet, FV, fp.sclust)[n] \in ClusterSet
    BY <1>3 DEF P
  <2> QED BY <1>2, <2>2, <2>3, PathInjective DEF P
<1>6. ASSUME NEW k \in 1 .. fp.fptr
      PROVE  Sec(k) \in 0 .. Sec(fp.fptr) /\ Sec(k) \in 0 .. Sec(fp.fptr + 1)
  <2>1. k \in Nat /\ 0 < k /\ k <= fp.fptr /\ k <= fp.fptr + 1 /\ fp.fptr > 0
    BY <1>1
  <2>2. Sec(k) \in Nat /\ Sec(fp.fptr) \in Nat
    BY <1>1, <2>1, BytePlace
  <2>3. Sec(k) <= Sec(fp.fptr)
    BY <1>1, <2>1, PlaceOrder
  <2>4. Sec(k) <= Sec(fp.fptr + 1)
    BY <1>2, <2>1, PlaceOrder
  <2> QED BY <1>2, <2>2, <2>3, <2>4
<1> QED BY <1>1, <1>2, <1>3, <1>4, <1>5, <1>6

\* A copy of w bytes into the sector s of the next byte makes of the buffer b.
CopiesInto(s, w, b) ==
  /\ s \in ClusterSet /\ s = P[Sec(fp.fptr + 1)]
  /\ fp.fptr % SectorSize # 0 => fp.sect = s /\ (~fp.dirty => fp.buf = data[fp.sect])
  /\ fp.fptr % SectorSize = 0 => ~fp.dirty
  /\ w \in Nat /\ 0 < w /\ w <= SectorSize - (fp.fptr % SectorSize)
  /\ \A i \in 1 .. SectorSize : i <= fp.fptr % SectorSize => b[i] = fp.buf[i]
  /\ \A j \in 1 .. w : b[(fp.fptr % SectorSize) + j] = <<rec, (LineLength - left) + j>>

\* What was there stays, and the line goes on behind it.
CopyKeeps(s, b) ==
  \A k \in 1 .. fp.fptr : At(P, [data EXCEPT ![s] = b], k) = At(P, LData, k)
CopyAppends(s, w, b) ==
  \A k \in fp.fptr + 1 .. fp.fptr + w :
    At(P, [data EXCEPT ![s] = b], k) = <<rec, k - Base>>

\* The bytes in front are what they were, and the line goes on behind them.
LEMMA CopyBytes ==
  ASSUME IInv, step \in WriteSteps, NEW s, NEW w, NEW b, CopiesInto(s, w, b)
  PROVE  CopyKeeps(s, b) /\ CopyAppends(s, w, b)
<1> PICK ofs : ofs = fp.fptr % SectorSize
  OBVIOUS
<1> /\ s \in ClusterSet /\ s = P[Sec(fp.fptr + 1)]
    /\ ofs # 0 => fp.sect = s /\ (~fp.dirty => fp.buf = data[fp.sect])
    /\ ofs = 0 => ~fp.dirty
    /\ w \in Nat /\ 0 < w /\ w <= SectorSize - ofs
    /\ \A i \in 1 .. SectorSize : i <= ofs => b[i] = fp.buf[i]
    /\ \A j \in 1 .. w : b[ofs + j] = <<rec, (LineLength - left) + j>>
  BY DEF CopiesInto
<1> DEFINE d == [data EXCEPT ![s] = b]
<1>0. step \in DataSteps
  BY StepNames
<1>1. /\ fp.fptr \in Nat /\ Sec(fp.fptr + 1) \in Nat
      /\ \A n \in 0 .. Sec(fp.fptr + 1) : P[n] \in ClusterSet
      /\ \A i, j \in 0 .. Sec(fp.fptr + 1) : P[i] = P[j] => i = j
      /\ \A k \in 1 .. fp.fptr :
           Sec(k) \in 0 .. Sec(fp.fptr) /\ Sec(k) \in 0 .. Sec(fp.fptr + 1)
  BY <1>0, ChainSoFar
<1>2. data \in [ClusterSet -> Block]
  BY DEF IInv, CallType
<1>3. d[s] = b /\ \A c \in ClusterSet : c # s => d[c] = data[c]
  BY <1>2
<1>4. ofs \in 0 .. SectorSize - 1
  <2>1. fp.fptr % SectorSize \in 0 .. SectorSize - 1
    BY <1>1, Sizing
  <2> QED BY <2>1
<1> HIDE DEF d
<1>5. ASSUME NEW k \in 1 .. fp.fptr PROVE At(P, d, k) = At(P, LData, k)
  <2>1. P[Sec(k)] \in ClusterSet
    BY <1>1
  <2>2. CASE P[Sec(k)] = s
    <3>1. Sec(k) = Sec(fp.fptr + 1)
      <4>1. Sec(fp.fptr + 1) \in 0 .. Sec(fp.fptr + 1) /\ Sec(k) \in 0 .. Sec(fp.fptr + 1)
        BY <1>1
      <4> QED BY <1>1, <2>2, <4>1
    <3>2. k \in Nat /\ 0 < k /\ k <= fp.fptr /\ fp.fptr > 0
      BY <1>1
    <3>3. ofs # 0 /\ Sec(k) = Sec(fp.fptr) /\ Off(fp.fptr) = ofs
      <4>1. Sec(k) <= Sec(fp.fptr) /\ Sec(k) \in Nat /\ Sec(fp.fptr) \in Nat
        BY <1>1, <3>2, BytePlace
      <4>2. IF fp.fptr % SectorSize = 0 THEN Sec(fp.fptr + 1) = Sec(fp.fptr) + 1
            ELSE Sec(fp.fptr + 1) = Sec(fp.fptr) /\ Off(fp.fptr) = fp.fptr % SectorSize
        BY <1>1, <3>2, PlaceNext
      <4> QED BY <3>1, <3>2, <4>1, <4>2
    <3>4. Off(k) \in 1 .. SectorSize /\ Off(k) <= ofs
      <4>1. Off(k) \in 1 .. SectorSize
        BY <3>2, BytePlace
      <4>2. Off(k) <= Off(fp.fptr)
        BY <1>1, <3>2, <3>3, PlaceOrder
      <4> QED BY <3>3, <4>1, <4>2
    <3>5. b[Off(k)] = fp.buf[Off(k)]
      BY <3>4
    <3>6. LData[s] = fp.buf
      <4>1. fp.sect = s /\ (~fp.dirty => fp.buf = data[fp.sect])
        BY <3>3
      <4> QED BY <1>2, <4>1 DEF LData, BufferWritten
    <3> QED BY <1>3, <2>2, <3>5, <3>6 DEF At
  <2>3. CASE P[Sec(k)] # s
    <3>1. LData[P[Sec(k)]] = data[P[Sec(k)]]
      <4>1. fp.dirty => fp.sect = s
        OBVIOUS
      <4> QED BY <1>2, <2>1, <2>3, <4>1 DEF LData, BufferWritten
    <3> QED BY <1>3, <2>1, <2>3, <3>1 DEF At
  <2> QED BY <2>2, <2>3
<1>6. ASSUME NEW k \in fp.fptr + 1 .. fp.fptr + w PROVE At(P, d, k) = <<rec, k - Base>>
  <2>0. k \in Int
    BY <1>1
  <2>1. PICK j \in 1 .. w : k = fp.fptr + j
    <3>1. k - fp.fptr \in 1 .. w /\ k = fp.fptr + (k - fp.fptr)
      BY <1>1, <2>0
    <3> QED BY <3>1
  <2>2. j \in Nat /\ 0 < j /\ j <= SectorSize - ofs
    BY <1>4, <2>1, Sizing
  <2>3. Sec(k) = Sec(fp.fptr + 1) /\ Off(k) = ofs + j
    BY <1>1, <2>1, <2>2, PlaceRun
  <2>4. k - Base = (LineLength - left) + j
    <3>1. left \in Nat
      BY DEF IInv, CallType
    <3> QED BY <1>1, <2>1, <2>2, <3>1, VolumeAssumption DEF Base
  <2>5. At(P, d, k) = b[ofs + j]
    BY <1>3, <2>3 DEF At
  <2> QED BY <2>1, <2>4, <2>5
<1> QED BY <1>5, <1>6 DEF d, CopyKeeps, CopyAppends

\* The line goes on in the buffer, at the end of the chain.
LEMMA CopyStep ==
  ASSUME IInv, step \in {"write", "place"}, left > 0, fp.clust \in ClusterSet, Copy(fp.clust),
         fp.clust = P[Sec(fp.fptr + 1)],
         fp.fptr % SectorSize # 0 => fp.sect = fp.clust /\ (~fp.dirty => fp.buf = data[fp.sect]),
         fp.fptr % SectorSize = 0 => ~fp.dirty,
         FV' = FV, VEntry' = VEntry, Entry' = Entry,
         data' = data, lock' = lock, scan' = scan, rec' = rec, trouble' = trouble
  PROVE  CallType' /\ Placed' /\ FullInv'
<1>0. /\ CallType /\ step # "idle" /\ step \in DataSteps /\ step \in EntryOld /\ step \in WriteSteps
      /\ fp \in WFil /\ data \in [ClusterSet -> Block]
  BY StepNames DEF IInv, CallType
<1>1. /\ left \in 0 .. LineLength /\ Base >= 0 /\ fp.objsize = fp.fptr
      /\ Front(FV, fp.sclust) /\ Covers(FV, fp.sclust, fp.fptr)
      /\ VEntry.size = Entry.size /\ VEntry.sclust = Entry.sclust
      /\ Base = Entry.size /\ (Entry.sclust # 0 => fp.sclust = Entry.sclust)
  BY <1>0 DEF IInv, Placed, ChainInv, EntryInv
<1>2. /\ fp.fptr \in Nat /\ Sec(fp.fptr + 1) \in Nat /\ fp.sclust \in ClusterSet
      /\ \A n \in 0 .. Sec(fp.fptr + 1) : P[n] \in ClusterSet
  BY <1>0, ChainSoFar
<1> DEFINE ofs == fp.fptr % SectorSize
<1>3. PICK w \in Nat :
        /\ 0 < w /\ w <= left /\ w <= SectorSize - ofs
        /\ step' = "write" /\ mode' = mode /\ left' = left - w
        /\ fp' = [sclust |-> fp.sclust,
                  objsize |-> IF fp.fptr + w > fp.objsize THEN fp.fptr + w ELSE fp.objsize,
                  fptr |-> fp.fptr + w, clust |-> fp.clust, sect |-> fp.clust,
                  buf |-> [i \in 1 .. SectorSize |->
                             IF i - ofs \in 1 .. w
                             THEN Line[(LineLength - left) + i - ofs]
                             ELSE fp.buf[i]],
                  dirty |-> TRUE, modified |-> fp.modified]
        /\ fp' \in WFil
  BY <1>0, <1>1, VolumeAssumption, Copied
<1>4. ofs \in 0 .. SectorSize - 1
  BY <1>2, Sizing
<1>5. /\ fp'.sclust = fp.sclust /\ fp'.fptr = fp.fptr + w /\ fp'.objsize = fp.fptr + w
      /\ fp'.clust = fp.clust /\ fp'.sect = fp.clust /\ fp'.dirty = TRUE
      /\ \A i \in 1 .. SectorSize :
           fp'.buf[i] = IF i - ofs \in 1 .. w THEN Line[(LineLength - left) + i - ofs] ELSE fp.buf[i]
  <2> HIDE DEF ofs
  <2> QED BY <1>1, <1>2, <1>3
<1>6. /\ \A i \in 1 .. SectorSize : i <= ofs => fp'.buf[i] = fp.buf[i]
      /\ \A j \in 1 .. w : fp'.buf[ofs + j] = <<rec, (LineLength - left) + j>>
  <2> HIDE DEF ofs
  <2>1. ASSUME NEW i \in 1 .. SectorSize, i <= ofs PROVE fp'.buf[i] = fp.buf[i]
    <3>1. ~(i - ofs \in 1 .. w)
      BY <1>4, <2>1
    <3> QED BY <1>5, <3>1
  <2>2. ASSUME NEW j \in 1 .. w PROVE fp'.buf[ofs + j] = <<rec, (LineLength - left) + j>>
    <3>1. ofs + j \in 1 .. SectorSize /\ (ofs + j) - ofs = j
      BY <1>3, <1>4, Sizing
    <3>2. fp'.buf[ofs + j] = Line[(LineLength - left) + (ofs + j) - ofs]
      BY <1>5, <3>1
    <3>3. (LineLength - left) + (ofs + j) - ofs = (LineLength - left) + j
          /\ (LineLength - left) + j \in 1 .. LineLength
      BY <1>1, <1>3, <1>4, VolumeAssumption
    <3> QED BY <3>2, <3>3 DEF Line
  <2> QED BY <2>1, <2>2
<1>7. /\ \A k \in 1 .. fp.fptr : At(P, [data EXCEPT ![fp.clust] = fp'.buf], k) = At(P, LData, k)
      /\ \A k \in fp.fptr + 1 .. fp.fptr + w :
           At(P, [data EXCEPT ![fp.clust] = fp'.buf], k) = <<rec, k - Base>>
  <2>1. CopiesInto(fp.clust, w, fp'.buf)
    BY <1>3, <1>6 DEF CopiesInto
  <2>2. CopyKeeps(fp.clust, fp'.buf) /\ CopyAppends(fp.clust, w, fp'.buf)
    BY <1>0, <2>1, CopyBytes
  <2> QED BY <2>2 DEF CopyKeeps, CopyAppends
<1>8. P' = P /\ Base' = Base /\ LData' = [data EXCEPT ![fp.clust] = fp'.buf]
  <2>1. P' = P
    BY <1>5 DEF P
  <2>2. Base' = Base
    BY <1>1, <1>2, <1>3, <1>5, VolumeAssumption DEF Base
  <2>3. LData' = [data EXCEPT ![fp.clust] = fp'.buf]
    BY <1>5 DEF LData, BufferWritten
  <2> QED BY <2>1, <2>2, <2>3
<1>9. Sec(fp.fptr + w) = Sec(fp.fptr + 1)
  BY <1>2, <1>3, PlaceRun
<1>10. left' \in 0 .. LineLength /\ left' \in Nat /\ fp'.fptr > 0 /\ fp'.fptr \in Nat
  BY <1>1, <1>2, <1>3, <1>5, VolumeAssumption
<1>11. CallType'
  BY <1>0, <1>3, <1>10, StepNames DEF CallType
<1>12. OpenInv' BY <1>3, StepNames DEF OpenInv
<1>13. ChainInv'
  <2>1. Covers(FV, fp.sclust, fp.fptr + w)
    BY <1>2, <1>9 DEF Covers, P
  <2>2. fp.sclust # 0
    BY <1>2, ClusterFacts
  <2> QED BY <1>1, <1>5, <1>8, <1>10, <2>1, <2>2 DEF ChainInv
<1>14. EntryInv' BY <1>1, <1>3, <1>5, <1>8, StepNames DEF EntryInv
<1>15. DataInv'
  <2> DEFINE nd == [data EXCEPT ![fp.clust] = fp'.buf]
  <2>1. \A k \in 1 .. fp.fptr : At(P, nd, k) = At(P, LData, k)
    BY <1>7
  <2>2. \A k \in fp.fptr + 1 .. fp.fptr + w : At(P, nd, k) = <<rec, k - Base>>
    BY <1>7
  <2> HIDE DEF nd
  <2>3. LData' = nd
    BY <1>8 DEF nd
  <2>4. Base \in Nat /\ Base <= fp.fptr
    BY <1>1, <1>2, VolumeAssumption DEF Base
  <2>5. ASSUME NEW k \in Base + 1 .. fp.fptr + w PROVE At(P, nd, k) = <<rec, k - Base>>
    <3>1. CASE k <= fp.fptr
      <4>1. k \in Base + 1 .. fp.fptr /\ k \in 1 .. fp.fptr
        BY <1>2, <2>4, <3>1
      <4>2. At(P, LData, k) = <<rec, k - Base>>
        BY <1>0, <4>1 DEF IInv, Placed, DataInv
      <4> QED BY <2>1, <4>1, <4>2
    <3>2. CASE ~(k <= fp.fptr)
      <4>1. k \in fp.fptr + 1 .. fp.fptr + w
        BY <1>2, <2>4, <3>2
      <4> QED BY <2>2, <4>1
    <3> QED BY <3>1, <3>2
  <2>6. ASSUME NEW k \in 1 .. Entry.size PROVE At(P, nd, k) = At(P, data, k)
    <3>1. k \in 1 .. fp.fptr
      BY <1>1, <1>2, <2>4
    <3>2. At(P, LData, k) = At(P, data, k)
      BY <1>0 DEF IInv, Placed, DataInv
    <3> QED BY <2>1, <3>1, <3>2
  <2>7. fp'.sect = P[Sec(fp'.fptr)] /\ fp'.sect = fp'.clust /\ fp'.dirty
    BY <1>5, <1>9
  <2> QED BY <1>5, <1>8, <1>10, <2>3, <2>5, <2>6, <2>7 DEF DataInv
<1>16. ClustInv'
  <2>1. fp'.clust = P[Sec(fp'.fptr)]
    BY <1>5, <1>9
  <2> QED BY <1>3, <1>8, <2>1, StepNames DEF ClustInv
<1>17. SearchInv' BY <1>3 DEF SearchInv
<1>18. FullInv' BY <1>3, StepNames DEF FullInv
<1> QED BY <1>11, <1>12, <1>13, <1>14, <1>15, <1>16, <1>17, <1>18 DEF Placed

\* The chain may get longer; the bytes of the file and of the line stay.
LEMMA ChainGrows ==
  ASSUME IInv, step \in WriteSteps,
         step' \in {"chain", "advance", "probe", "link", "place", "close"}, mode' = mode,
         fp' \in WFil, fp'.fptr = fp.fptr, fp'.objsize = fp.objsize, fp'.dirty = fp.dirty,
         fp'.sect = fp.sect, fp'.buf = fp.buf, left' = left,
         data' = data, lock' = lock, rec' = rec, trouble' = trouble,
         scan' \in [scl : 0 .. n_fatent, ncl : 0 .. n_fatent],
         Grown(FV, FV'), Front(FV', fp'.sclust), VEntry' = VEntry, Entry' = Entry,
         fp'.sclust = fp.sclust \/ fp.sclust = 0
  PROVE  /\ CallType' /\ OpenInv' /\ ChainInv' /\ EntryInv' /\ DataInv'
         /\ fp.fptr > 0 => P'[Sec(fp.fptr)] = P[Sec(fp.fptr)]
<1>0. /\ CallType /\ step # "idle" /\ step \in DataSteps /\ step \in EntryOld
      /\ step' \in DataSteps /\ step' \in EntryOld /\ step' \in Steps
      /\ step' \notin {"idle", "mount", "find", "seek", "fill", "write", "entry", "sync"}
      /\ step' \notin OpenedSteps
      /\ fp \in WFil /\ fp.fptr \in Nat
  BY StepNames DEF IInv, CallType, WFil
<1>1. /\ left \in 0 .. LineLength /\ Base >= 0 /\ fp.objsize = fp.fptr
      /\ (fp.sclust = 0 => fp.fptr = 0) /\ Covers(FV, fp.sclust, fp.fptr)
      /\ VEntry.size = Entry.size /\ VEntry.sclust = Entry.sclust
      /\ Base = Entry.size /\ (Entry.sclust # 0 => fp.sclust = Entry.sclust)
  BY <1>0 DEF IInv, Placed, ChainInv, EntryInv
<1>2. Base' = Base /\ LData' = LData
  BY DEF Base, LData, BufferWritten
<1>3. ASSUME fp.fptr > 0
      PROVE  fp'.sclust = fp.sclust /\ \A n \in 0 .. Sec(fp.fptr) : P'[n] = P[n]
  <2>1. fp'.sclust = fp.sclust
    BY <1>1, <1>3
  <2>2. \A n \in 0 .. Sec(fp.fptr) :
          Path(ClusterSet, FV', fp.sclust)[n] = Path(ClusterSet, FV, fp.sclust)[n]
    BY <1>0, <1>1, <1>3, GrownPath
  <2> QED BY <2>1, <2>2 DEF P
<1>4. ASSUME NEW k \in 1 .. fp.fptr, NEW d PROVE At(P', d, k) = At(P, d, k)
  <2>1. fp.fptr > 0 /\ Sec(k) \in 0 .. Sec(fp.fptr)
    <3>1. k \in Nat /\ 0 < k /\ k <= fp.fptr /\ fp.fptr > 0
      BY <1>0
    <3>2. Sec(k) \in Nat /\ Sec(fp.fptr) \in Nat
      BY <1>0, <3>1, BytePlace
    <3>3. Sec(k) <= Sec(fp.fptr)
      BY <1>0, <3>1, PlaceOrder
    <3> QED BY <3>1, <3>2, <3>3
  <2> QED BY <1>3, <2>1 DEF At
<1>5. Base \in Nat /\ Base <= fp.fptr
  BY <1>0, <1>1, VolumeAssumption DEF Base
<1>6. CallType' BY <1>0 DEF CallType
<1>7. OpenInv' BY <1>0 DEF OpenInv
<1>8. ChainInv'
  <2>1. Covers(FV', fp'.sclust, fp.fptr)
    <3>1. CASE fp.fptr > 0
      <4>1. Covers(FV', fp.sclust, fp.fptr)
        BY <1>0, <1>1, GrownCovers
      <4> QED BY <1>3, <3>1, <4>1
    <3>2. CASE ~(fp.fptr > 0)
      BY <3>2 DEF Covers
    <3> QED BY <3>1, <3>2
  <2>2. fp'.sclust = 0 => fp.fptr = 0
    BY <1>0, <1>1
  <2> QED BY <1>1, <1>2, <2>1, <2>2 DEF ChainInv
<1>9. EntryInv' BY <1>0, <1>1, <1>2 DEF EntryInv
<1>10. DataInv'
  <2>1. ASSUME NEW k \in Base + 1 .. fp.fptr PROVE At(P', LData, k) = <<rec, k - Base>>
    <3>1. k \in 1 .. fp.fptr
      BY <1>0, <1>5
    <3>2. At(P, LData, k) = <<rec, k - Base>>
      BY <1>0 DEF IInv, Placed, DataInv
    <3> QED BY <1>4, <3>1, <3>2
  <2>2. ASSUME NEW k \in 1 .. Entry.size PROVE At(P', LData, k) = At(P', data, k)
    <3>1. k \in 1 .. fp.fptr
      BY <1>0, <1>1, <1>5
    <3>2. At(P, LData, k) = At(P, data, k)
      BY <1>0 DEF IInv, Placed, DataInv
    <3> QED BY <1>4, <3>1, <3>2
  <2>3. fp.dirty => fp.fptr > 0 /\ fp.sect = P'[Sec(fp.fptr)]
    <3>1. fp.dirty => fp.fptr > 0 /\ fp.sect = P[Sec(fp.fptr)]
      BY <1>0 DEF IInv, Placed, DataInv
    <3>2. fp.fptr > 0 => Sec(fp.fptr) \in 0 .. Sec(fp.fptr)
      BY <1>0, BytePlace
    <3> QED BY <1>3, <3>1, <3>2
  <2> QED BY <1>0, <1>2, <2>1, <2>2, <2>3 DEF DataInv
<1>11. fp.fptr > 0 => P'[Sec(fp.fptr)] = P[Sec(fp.fptr)]
  <2>1. fp.fptr > 0 => Sec(fp.fptr) \in 0 .. Sec(fp.fptr)
    BY <1>0, BytePlace
  <2> QED BY <1>3, <2>1
<1> QED BY <1>6, <1>7, <1>8, <1>9, <1>10, <1>11

\* An entry of the chain is taken.
LEMMA ClustTaken ==
  ASSUME IInv, step \in DataSteps, fp.fptr > 0
  PROVE  FV[P[Sec(fp.fptr)]] # Free
<1>1. /\ fp.fptr \in Nat /\ Sec(fp.fptr) \in Nat /\ fp.sclust \in ClusterSet
      /\ \A n \in 0 .. Sec(fp.fptr) : P[n] \in ClusterSet
  BY WritePlace
<1>2. Tidy(FV) /\ Front(FV, fp.sclust)
  BY DEF IInv, Placed, ChainInv, GoodView, WellFormed
<1>3. CASE Sec(fp.fptr) = 0
  <2>1. P[0] = fp.sclust
    BY PathSteps DEF P
  <2> QED BY <1>1, <1>2, <1>3, <2>1, ClusterFacts DEF Front
<1>4. CASE Sec(fp.fptr) # 0
  <2> DEFINE m == Sec(fp.fptr) - 1
  <2>1. m \in Nat /\ m + 1 = Sec(fp.fptr) /\ m \in 0 .. Sec(fp.fptr)
        /\ Sec(fp.fptr) \in 0 .. Sec(fp.fptr)
    BY <1>1, <1>4
  <2> HIDE DEF m
  <2>2. P[m + 1] = Successor(ClusterSet, FV, P[m])
    BY <2>1, PathSteps DEF P
  <2>3. P[m] \in ClusterSet /\ P[m + 1] \in ClusterSet
    BY <1>1, <2>1
  <2>4. P[m + 1] = FV[P[m]]
    BY <2>2, <2>3 DEF Successor
  <2> QED BY <1>2, <2>1, <2>3, <2>4 DEF Tidy
<1> QED BY <1>3, <1>4

\* One cluster on in the chain.
LEMMA ChainOn ==
  ASSUME IInv, step \in {"chain", "link"}, P'[Sec(fp.fptr)] = P[Sec(fp.fptr)]
  PROVE  P'[Sec(fp.fptr + 1)] = FV'[fp.clust]
<1>1. fp.fptr > 0 /\ fp.fptr % SectorSize = 0 /\ fp.clust = P[Sec(fp.fptr)] /\ step \in DataSteps
  BY StepNames DEF IInv, Placed, ClustInv
<1>2. fp.fptr \in Nat /\ Sec(fp.fptr) \in Nat /\ fp.clust \in ClusterSet
  BY <1>1, WritePlace, ClustPlace
<1>3. Sec(fp.fptr + 1) = Sec(fp.fptr) + 1
  BY <1>1, <1>2, PlaceNext
<1>4. P'[Sec(fp.fptr) + 1] = Successor(ClusterSet, FV', P'[Sec(fp.fptr)])
  BY <1>2, PathSteps DEF P
<1> QED BY <1>1, <1>2, <1>3, <1>4 DEF Successor

\* f_write ends: all is written, or every cluster is taken.
LEMMA EndWriteStep ==
  ASSUME IInv, step \in WriteSteps, EndWrite, left' = left,
         data' = data, lock' = lock, rec' = rec, trouble' = trouble,
         scan' \in {scan, NoScan},
         FV' = FV, VEntry' = VEntry, Entry' = Entry,
         left > 0 => \A c \in ClusterSet : FV[c] # Free
  PROVE  CallType' /\ Placed' /\ FullInv'
<1>1. step' = "close" /\ mode' = mode /\ fp' = [fp EXCEPT !.modified = TRUE]
  BY DEF EndWrite, GoTo
<1>2. fp \in WFil /\ scan' \in [scl : 0 .. n_fatent, ncl : 0 .. n_fatent] /\ step \in DataSteps
  BY NoFileType, StepNames DEF IInv, CallType
<1>3. /\ fp' \in WFil /\ fp'.fptr = fp.fptr /\ fp'.objsize = fp.objsize /\ fp'.dirty = fp.dirty
      /\ fp'.sect = fp.sect /\ fp'.buf = fp.buf /\ fp'.sclust = fp.sclust /\ fp'.modified = TRUE
  BY <1>1, <1>2 DEF WFil
<1>4. Grown(FV, FV') /\ Front(FV', fp'.sclust)
  BY <1>2, <1>3 DEF Grown, IInv, Placed, ChainInv
<1>5. CallType' /\ OpenInv' /\ ChainInv' /\ EntryInv' /\ DataInv'
  BY <1>1, <1>2, <1>3, <1>4, ChainGrows
<1>6. ClustInv'
  BY <1>1, StepNames DEF ClustInv
<1>7. SearchInv'
  BY <1>1 DEF SearchInv
<1>8. FullInv'
  BY <1>1, <1>3 DEF FullInv
<1> QED BY <1>5, <1>6, <1>7, <1>8 DEF Placed

\* Of the FIL only the place in the chain changes.
MovesOn ==
  /\ fp' \in WFil /\ fp'.fptr = fp.fptr /\ fp'.objsize = fp.objsize /\ fp'.dirty = fp.dirty
  /\ fp'.sect = fp.sect /\ fp'.buf = fp.buf /\ fp'.sclust = fp.sclust

\* The FIL moves on to another cluster of its chain.
LEMMA Moves ==
  ASSUME IInv, NEW c \in ClusterSet, fp' = [fp EXCEPT !.clust = c]
  PROVE  MovesOn /\ fp'.clust = c
  BY DEF MovesOn, IInv, CallType, WFil

\* Or it stays where it is.
LEMMA MovesNot ==
  ASSUME IInv, fp' = fp
  PROVE  MovesOn
  BY DEF MovesOn, IInv, CallType

\* f_write goes on inside: neither the FIL's place nor a table changes.
LEMMA GoesOn ==
  ASSUME IInv, step \in WriteSteps, step' \in {"chain", "advance", "probe", "place"}, mode' = mode,
         MovesOn, left' = left,
         data' = data, lock' = lock, rec' = rec, trouble' = trouble,
         scan' \in [scl : 0 .. n_fatent, ncl : 0 .. n_fatent],
         FV' = FV, VEntry' = VEntry, Entry' = Entry,
         ClustInv', SearchInv'
  PROVE  CallType' /\ Placed' /\ FullInv'
<1>1. fp \in WFil /\ step \in DataSteps
  BY StepNames DEF IInv, CallType
<1>2. /\ fp' \in WFil /\ fp'.fptr = fp.fptr /\ fp'.objsize = fp.objsize /\ fp'.dirty = fp.dirty
      /\ fp'.sect = fp.sect /\ fp'.buf = fp.buf /\ fp'.sclust = fp.sclust
  BY DEF MovesOn
<1>3. Grown(FV, FV') /\ Front(FV', fp'.sclust)
  BY <1>1, <1>2 DEF Grown, IInv, Placed, ChainInv
<1>4. CallType' /\ OpenInv' /\ ChainInv' /\ EntryInv' /\ DataInv'
  BY <1>1, <1>2, <1>3, ChainGrows
<1>5. FullInv'
  BY StepNames DEF FullInv
<1> QED BY <1>4, <1>5 DEF Placed

\* The search of create_chain stays on the volume.
LEMMA ScanType ==
  ASSUME NEW a \in {1} \cup ClusterSet, NEW b \in {1} \cup ClusterSet
  PROVE  [scl |-> a, ncl |-> b] \in [scl : 0 .. n_fatent, ncl : 0 .. n_fatent]
<1>1. a \in 0 .. n_fatent /\ b \in 0 .. n_fatent
  BY VolumeAssumption DEF ClusterSet, n_fatent
<1> QED BY <1>1

\* create_chain begins its search after the cluster c.
LEMMA SearchBegins ==
  ASSUME NEW c \in {1} \cup ClusterSet, step' = "advance", scan' = [scl |-> c, ncl |-> c]
  PROVE  SearchInv' /\ scan' \in [scl : 0 .. n_fatent, ncl : 0 .. n_fatent]
<1>1. scan' \in [scl : 0 .. n_fatent, ncl : 0 .. n_fatent]
  BY ScanType
<1>2. c \in Int
  BY ClusterFacts
<1>3. \A d \in ClusterSet : ~(d > c /\ d <= c)
  BY <1>2, ClusterFacts
<1>4. SearchInv'
  BY <1>2, <1>3 DEF SearchInv
<1> QED BY <1>1, <1>4

\* f_write ends, copies, or looks for the cluster of the next sector.
LEMMA WriteOnStep ==
  ASSUME IInv, WriteOn
  PROVE  CallType' /\ Placed' /\ FullInv'
<1>1. /\ FV' = FV /\ VEntry' = VEntry /\ Entry' = Entry
  BY QuietView DEF Quiet
<1>2. /\ step = "write" /\ step \in WriteSteps /\ step \in DataSteps
      /\ data' = data /\ lock' = lock /\ rec' = rec /\ trouble' = trouble
  BY StepNames DEF WriteOn
<1>3. /\ fp \in WFil /\ fp.fptr \in Nat /\ fp.clust \in {0} \cup ClusterSet
      /\ fp.sclust \in {0} \cup ClusterSet
      /\ scan \in [scl : 0 .. n_fatent, ncl : 0 .. n_fatent]
      /\ left \in Nat
  BY DEF IInv, CallType, WFil
<1>4. /\ fp.fptr > 0 => fp.clust = P[Sec(fp.fptr)]
      /\ fp.sclust = 0 => fp.fptr = 0
      /\ fp.fptr % SectorSize # 0 => fp.sect = fp.clust /\ (~fp.dirty => fp.buf = data[fp.sect])
  BY <1>2 DEF IInv, Placed, ClustInv, ChainInv, DataInv
<1>0. 0 % SectorSize = 0
  <2>1. (0 * SectorSize + 0) % SectorSize = 0 BY Remainder, Sizing
  <2>2. 0 * SectorSize + 0 = 0 BY Sizing
  <2> QED BY <2>1, <2>2
<1>5. CASE left = 0 /\ EndWrite /\ UNCHANGED <<left, scan>>
  BY <1>1, <1>2, <1>5, EndWriteStep
<1>6. CASE left > 0 /\ ~Boundary /\ Copy(fp.sect) /\ UNCHANGED scan
  <2>1. fp.fptr % SectorSize # 0 /\ fp.fptr > 0
    BY <1>0, <1>3, <1>6 DEF Boundary
  <2>2. fp.clust = P[Sec(fp.fptr + 1)]
    BY <1>3, <1>4, <2>1, PlaceNext
  <2>3. fp.clust \in ClusterSet
    <3>1. Sec(fp.fptr) \in 0 .. Sec(fp.fptr)
      BY <1>3, <2>1, BytePlace
    <3> QED BY <1>2, <1>4, <2>1, <3>1, WritePlace
  <2>4. Copy(fp.clust) /\ fp.sect = fp.clust
    BY <1>4, <1>6, <2>1
  <2> QED BY <1>1, <1>2, <1>4, <1>6, <2>1, <2>2, <2>3, <2>4, CopyStep
<1>7. CASE /\ left > 0 /\ fp.fptr = 0 /\ fp.sclust = 0
           /\ scan' = [scl |-> fs.last_clst, ncl |-> fs.last_clst]
           /\ GoTo("advance") /\ UNCHANGED <<fp, left>>
  <2>1. fs.last_clst \in {1} \cup ClusterSet
    BY DEF IInv, DiskType, WFatFs
  <2>2. step' = "advance" /\ mode' = mode /\ fp' = fp
    BY <1>7 DEF GoTo
  <2>3. SearchInv' /\ scan' \in [scl : 0 .. n_fatent, ncl : 0 .. n_fatent]
    BY <1>7, <2>1, <2>2, SearchBegins
  <2>4. ClustInv'
    BY <1>0, <1>7, <2>1, <2>2 DEF ClustInv
  <2>5. MovesOn
    BY <2>2, MovesNot
  <2> QED BY <1>1, <1>2, <1>3, <1>7, <2>2, <2>3, <2>4, <2>5, GoesOn
<1>8. CASE /\ left > 0 /\ fp.fptr = 0 /\ fp.sclust # 0
           /\ fp' = [fp EXCEPT !.clust = fp.sclust]
           /\ GoTo("place") /\ UNCHANGED <<left, scan>>
  <2>1. step' = "place" /\ mode' = mode /\ fp.sclust \in ClusterSet
    BY <1>3, <1>8 DEF GoTo
  <2>2. MovesOn /\ fp'.clust = fp.sclust /\ fp'.fptr = 0 /\ fp'.sclust = fp.sclust
    <3>1. MovesOn /\ fp'.clust = fp.sclust
      BY <1>8, <2>1, Moves
    <3> QED BY <1>8, <3>1 DEF MovesOn
  <2>3. P'[Sec(0 + 1)] = fp.sclust
    BY <2>2, FirstPlace, PathSteps DEF P
  <2>4. ClustInv'
    BY <1>0, <1>8, <2>1, <2>2, <2>3 DEF ClustInv
  <2>5. SearchInv'
    BY <2>1 DEF SearchInv
  <2> QED BY <1>1, <1>2, <1>3, <1>8, <2>1, <2>2, <2>4, <2>5, GoesOn
<1>9. CASE /\ left > 0 /\ Boundary /\ fp.fptr > 0
           /\ GoTo("chain") /\ UNCHANGED <<fp, left, scan>>
  <2>1. step' = "chain" /\ mode' = mode /\ fp' = fp
    BY <1>9 DEF GoTo
  <2>2. P' = P
    BY <1>1, <2>1 DEF P
  <2>3. ClustInv'
    BY <1>4, <1>9, <2>1, <2>2 DEF ClustInv, Boundary
  <2>4. SearchInv'
    BY <2>1 DEF SearchInv
  <2>5. MovesOn
    BY <2>1, MovesNot
  <2> QED BY <1>1, <1>2, <1>3, <1>9, <2>1, <2>3, <2>4, <2>5, GoesOn
<1> QED BY <1>5, <1>6, <1>7, <1>8, <1>9 DEF WriteOn

\* The chain goes on already, or create_chain searches from its end.
LEMMA ChainStep ==
  ASSUME IInv, Chain
  PROVE  CallType' /\ Placed' /\ FullInv'
<1>1. /\ FV' = FV /\ VEntry' = VEntry /\ Entry' = Entry
  BY QuietView DEF Quiet
<1>2. /\ step = "chain" /\ step \in WriteSteps /\ step \in DataSteps /\ InWindow
      /\ data' = data /\ lock' = lock /\ rec' = rec /\ trouble' = trouble
  BY StepNames DEF Chain
<1>3. /\ fp.fptr > 0 /\ fp.clust = P[Sec(fp.fptr)] /\ left > 0 /\ fp.fptr % SectorSize = 0
      /\ fp.clust \in ClusterSet /\ fp.sclust # 0
      /\ scan \in [scl : 0 .. n_fatent, ncl : 0 .. n_fatent]
  BY <1>2, ClustPlace DEF IInv, Placed, ClustInv, ChainInv, CallType
<1>4. fs.win[fp.clust] = FV[fp.clust] /\ FV[fp.clust] # Free
  <2>1. fs.win[fp.clust] = FV[fp.clust]
    BY <1>2, <1>3, ViewType DEF InWindow, Needed, IInv, ViewTyped
  <2>2. FV[fp.clust] # Free
    BY <1>2, <1>3, ClustTaken
  <2> QED BY <2>1, <2>2
<1>5. CASE /\ FV[fp.clust] \in ClusterSet
           /\ fp' = [fp EXCEPT !.clust = FV[fp.clust]]
           /\ GoTo("place") /\ UNCHANGED <<left, scan>>
  <2>1. step' = "place" /\ mode' = mode
    BY <1>5 DEF GoTo
  <2>2. MovesOn /\ fp'.clust = FV[fp.clust]
    BY <1>5, Moves
  <2>3. P' = P /\ fp'.fptr = fp.fptr
    BY <1>1, <2>2 DEF P, MovesOn
  <2>4. P'[Sec(fp.fptr + 1)] = FV'[fp.clust]
    BY <1>2, <2>3, ChainOn
  <2>5. ClustInv'
    BY <1>1, <1>3, <1>5, <2>1, <2>2, <2>3, <2>4 DEF ClustInv
  <2>6. SearchInv'
    BY <2>1 DEF SearchInv
  <2> QED BY <1>1, <1>2, <1>3, <1>5, <2>1, <2>2, <2>5, <2>6, GoesOn
<1>6. CASE /\ FV[fp.clust] = EOC
           /\ scan' = [scl |-> fp.clust, ncl |-> fp.clust]
           /\ GoTo("advance") /\ UNCHANGED <<fp, left>>
  <2>1. step' = "advance" /\ mode' = mode /\ fp' = fp
    BY <1>6 DEF GoTo
  <2>2. SearchInv' /\ scan' \in [scl : 0 .. n_fatent, ncl : 0 .. n_fatent]
    BY <1>3, <1>6, <2>1, SearchBegins
  <2>3. P' = P
    BY <1>1, <2>1 DEF P
  <2>4. ClustInv'
    BY <1>1, <1>3, <1>6, <2>1, <2>3 DEF ClustInv
  <2>5. MovesOn
    BY <2>1, MovesNot
  <2> QED BY <1>1, <1>2, <1>3, <1>6, <2>1, <2>2, <2>4, <2>5, GoesOn
<1> QED BY <1>4, <1>5, <1>6 DEF Chain

\* create_chain goes on to a cluster it has not looked at, or has looked at
\* all of them.
LEMMA AdvanceStep ==
  ASSUME IInv, Advance
  PROVE  CallType' /\ Placed' /\ FullInv'
<1>1. /\ FV' = FV /\ VEntry' = VEntry /\ Entry' = Entry
  BY QuietView DEF Quiet
<1>2. /\ step = "advance" /\ step \in WriteSteps /\ step \in DataSteps
      /\ data' = data /\ lock' = lock /\ rec' = rec /\ trouble' = trouble /\ left' = left
  BY StepNames DEF Advance
<1>3. /\ fp.fptr > 0 => fp.clust = P[Sec(fp.fptr)]
      /\ left > 0 /\ fp.fptr % SectorSize = 0
      /\ IF fp.sclust = 0 THEN fp.fptr = 0 ELSE fp.fptr > 0 /\ FV[fp.clust] = EOC
      /\ scan.scl \in {1} \cup ClusterSet /\ scan.ncl \in {1} \cup ClusterSet
  BY <1>2 DEF IInv, Placed, ClustInv
<1>4. \A c \in ClusterSet :
        (IF scan.ncl < scan.scl THEN c > scan.scl \/ c <= scan.ncl
         ELSE c > scan.scl /\ c <= scan.ncl) => FV[c] # Free
  BY <1>2 DEF IInv, Placed, SearchInv
<1>5. /\ scan.scl \in Int /\ scan.ncl \in Int /\ scan.scl >= 1 /\ scan.ncl >= 1
      /\ scan.scl < n_fatent /\ scan.ncl < n_fatent /\ n_fatent \in Nat /\ n_fatent > 2
      /\ \A c \in ClusterSet : c \in Int /\ 2 <= c /\ c < n_fatent
      /\ ClusterSet = 2 .. n_fatent - 1
  BY <1>3, VolumeAssumption DEF ClusterSet, n_fatent
<1>6. ASSUME VolumeFull, ~(scan.ncl + 1 < n_fatent), 2 > scan.scl
      PROVE  CallType' /\ Placed' /\ FullInv'
  <2>1. \A c \in ClusterSet : FV[c] # Free
    BY <1>4, <1>5, <1>6
  <2> QED BY <1>1, <1>2, <1>6, <2>1, EndWriteStep DEF VolumeFull
<1>7. ASSUME NEW n \in ClusterSet, scan' = [scan EXCEPT !.ncl = n], GoTo("probe"), fp' = fp,
             n = scan.ncl + 1 \/ (n = 2 /\ ~(scan.ncl + 1 < n_fatent) /\ ~(2 > scan.scl))
      PROVE  CallType' /\ Placed' /\ FullInv'
  <2>1. step' = "probe" /\ mode' = mode
    BY <1>7 DEF GoTo
  <2>2. scan'.scl = scan.scl /\ scan'.ncl = n
        /\ scan' \in [scl : 0 .. n_fatent, ncl : 0 .. n_fatent]
    <3>1. scan \in [scl : 0 .. n_fatent, ncl : 0 .. n_fatent]
      BY DEF IInv, CallType
    <3>2. n \in 0 .. n_fatent
      BY <1>5
    <3> QED BY <1>7, <3>1, <3>2
  <2>3. ASSUME NEW c \in ClusterSet,
               IF n <= scan.scl THEN c > scan.scl \/ c < n ELSE c > scan.scl /\ c < n
        PROVE  FV[c] # Free
    <3>1. c \in Int /\ 2 <= c /\ c < n_fatent /\ n \in Int
      BY <1>5
    <3>2. IF scan.ncl < scan.scl THEN c > scan.scl \/ c <= scan.ncl
          ELSE c > scan.scl /\ c <= scan.ncl
      BY <1>5, <1>7, <2>3, <3>1
    <3> QED BY <1>4, <3>2
  <2>4. SearchInv'
    BY <1>1, <2>1, <2>2, <2>3 DEF SearchInv
  <2>5. P' = P
    BY <1>1, <1>7 DEF P
  <2>6. ClustInv'
    BY <1>1, <1>2, <1>3, <1>7, <2>1, <2>2, <2>5 DEF ClustInv
  <2>7. MovesOn
    BY <1>7, MovesNot
  <2> QED BY <1>1, <1>2, <2>1, <2>2, <2>4, <2>6, <2>7, GoesOn
<1>8. CASE scan.ncl + 1 < n_fatent
  <2>1. scan.ncl + 1 \in ClusterSet
    BY <1>5, <1>8
  <2>2. scan' = [scan EXCEPT !.ncl = scan.ncl + 1] /\ GoTo("probe") /\ fp' = fp
    BY <1>8 DEF Advance
  <2> QED BY <1>7, <2>1, <2>2
<1>9. CASE ~(scan.ncl + 1 < n_fatent) /\ 2 > scan.scl
  BY <1>6, <1>9 DEF Advance
<1>10. CASE ~(scan.ncl + 1 < n_fatent) /\ ~(2 > scan.scl)
  <2>1. 2 \in ClusterSet
    BY <1>5
  <2>2. scan' = [scan EXCEPT !.ncl = 2] /\ GoTo("probe") /\ fp' = fp
    BY <1>10 DEF Advance
  <2> QED BY <1>7, <1>10, <2>1, <2>2
<1> QED BY <1>8, <1>9, <1>10

\* A cluster that is taken is passed over.
LEMMA ProbeStep ==
  ASSUME IInv, Probe, fs.win[scan.ncl] # Free
  PROVE  CallType' /\ Placed' /\ FullInv'
<1>1. /\ FV' = FV /\ VEntry' = VEntry /\ Entry' = Entry
  BY QuietView DEF Quiet
<1>2. /\ step = "probe" /\ step \in WriteSteps /\ step \in DataSteps /\ InWindow
      /\ data' = data /\ lock' = lock /\ rec' = rec /\ trouble' = trouble /\ left' = left
  BY StepNames DEF Probe
<1>3. /\ fp.fptr > 0 => fp.clust = P[Sec(fp.fptr)]
      /\ left > 0 /\ fp.fptr % SectorSize = 0
      /\ IF fp.sclust = 0 THEN fp.fptr = 0 ELSE fp.fptr > 0 /\ FV[fp.clust] = EOC
      /\ scan.scl \in {1} \cup ClusterSet /\ scan.ncl \in ClusterSet
  BY <1>2 DEF IInv, Placed, ClustInv
<1>4. FV[scan.ncl] # Free
  BY <1>2, <1>3, ViewType DEF InWindow, Needed, IInv, ViewTyped
<1>5. \A c \in ClusterSet :
        (IF scan.ncl <= scan.scl THEN c > scan.scl \/ c < scan.ncl
         ELSE c > scan.scl /\ c < scan.ncl) => FV[c] # Free
  BY <1>2 DEF IInv, Placed, SearchInv
<1>6. (\A c \in ClusterSet : c \in Int) /\ scan.scl \in Int /\ scan.ncl \in Int
  BY <1>3 DEF ClusterSet
<1>7. CASE scan.ncl = scan.scl
  <2>1. VolumeFull
    BY <1>7, ClusterFacts DEF Probe
  <2>2. ASSUME NEW c \in ClusterSet PROVE FV[c] # Free
    <3>1. c \in Int
      BY <1>6
    <3> QED BY <1>4, <1>5, <1>6, <1>7, <3>1
  <2> QED BY <1>1, <1>2, <2>1, <2>2, EndWriteStep DEF VolumeFull
<1>8. CASE scan.ncl # scan.scl
  <2>1. step' = "advance" /\ mode' = mode /\ fp' = fp /\ scan' = scan
    BY <1>8 DEF Probe, GoTo
  <2>2. ASSUME NEW c \in ClusterSet,
               IF scan.ncl < scan.scl THEN c > scan.scl \/ c <= scan.ncl
               ELSE c > scan.scl /\ c <= scan.ncl
        PROVE  FV[c] # Free
    <3>1. c \in Int
      BY <1>6
    <3>2. CASE c = scan.ncl
      BY <1>4, <3>2
    <3>3. CASE c # scan.ncl
      BY <1>5, <1>6, <1>8, <2>2, <3>1, <3>3
    <3> QED BY <3>2, <3>3
  <2>3. SearchInv'
    BY <1>1, <2>1, <2>2 DEF SearchInv
  <2>4. P' = P
    BY <1>1, <2>1 DEF P
  <2>5. ClustInv'
    BY <1>1, <1>2, <1>3, <2>1, <2>4 DEF ClustInv
  <2>6. MovesOn /\ scan' \in [scl : 0 .. n_fatent, ncl : 0 .. n_fatent]
    BY <2>1, MovesNot DEF IInv, CallType
  <2> QED BY <1>1, <1>2, <2>1, <2>3, <2>5, <2>6, GoesOn
<1> QED BY <1>7, <1>8

\* A free cluster is marked as the end of a chain: the first of an empty
\* file, or the one to be linked next.
LEMMA TakesStep ==
  ASSUME IInv, Takes
  PROVE  CallType' /\ Placed' /\ FullInv'
<1>1. /\ scan.ncl \in ClusterSet /\ FV[scan.ncl] = Free /\ FV \in Table
      /\ FV' = [FV EXCEPT ![scan.ncl] = EOC]
      /\ VEntry' = VEntry /\ Entry' = Entry
  BY TakesView
<1>2. /\ step = "probe" /\ step \in WriteSteps /\ step \in DataSteps /\ fs.win[scan.ncl] = Free
      /\ data' = data /\ lock' = lock /\ rec' = rec /\ trouble' = trouble /\ left' = left
  BY StepNames DEF Takes, Probe
<1>3. /\ fp.fptr > 0 => fp.clust = P[Sec(fp.fptr)]
      /\ left > 0 /\ fp.fptr % SectorSize = 0
      /\ IF fp.sclust = 0 THEN fp.fptr = 0 ELSE fp.fptr > 0 /\ FV[fp.clust] = EOC
      /\ Front(FV, fp.sclust) /\ Tidy(FV)
      /\ fp \in WFil /\ scan \in [scl : 0 .. n_fatent, ncl : 0 .. n_fatent]
  BY <1>2 DEF IInv, Placed, ClustInv, ChainInv, GoodView, WellFormed, CallType
<1>4. /\ Grown(FV, FV') /\ FV'[scan.ncl] = EOC
      /\ \A c \in ClusterSet : FV'[c] # scan.ncl
      /\ \A a : Front(FV, a) => Front(FV', a) /\ a # scan.ncl
  <2> DEFINE G == [FV EXCEPT ![scan.ncl] = EOC]
  <2>1. /\ Grown(FV, G) /\ G[scan.ncl] = EOC
        /\ \A c \in ClusterSet : G[c] # scan.ncl
        /\ \A a : Front(FV, a) => Front(G, a) /\ a # scan.ncl
    BY <1>1, <1>3, Taken
  <2>2. FV' = G
    BY <1>1
  <2> HIDE DEF G
  <2> QED BY <2>1, <2>2
<1>5. CASE fp.sclust = 0
  <2>1. Allocated(scan.ncl)
    BY <1>2, <1>5 DEF Takes, Probe
  <2>2. /\ fp' = [fp EXCEPT !.clust = scan.ncl, !.sclust = scan.ncl]
        /\ scan' = NoScan /\ step' = "place" /\ mode' = mode
    BY <1>3, <1>5, <2>1 DEF Allocated, GoTo, WFil
  <2>3. /\ fp' \in WFil /\ fp'.fptr = fp.fptr /\ fp'.objsize = fp.objsize /\ fp'.dirty = fp.dirty
        /\ fp'.sect = fp.sect /\ fp'.buf = fp.buf /\ fp'.sclust = scan.ncl /\ fp'.clust = scan.ncl
    BY <1>1, <1>3, <2>2 DEF WFil
  <2>4. Front(FV', scan.ncl)
    BY <1>1, <1>4, ClusterFacts DEF Front, Free
  <2>5. CallType' /\ OpenInv' /\ ChainInv' /\ EntryInv' /\ DataInv'
    BY <1>1, <1>2, <1>4, <1>5, <2>2, <2>3, <2>4, NoFileType, ChainGrows
  <2>6. P'[Sec(0 + 1)] = scan.ncl
    BY <2>3, FirstPlace, PathSteps DEF P
  <2>7. ClustInv'
    BY <1>1, <1>2, <1>3, <1>5, <2>2, <2>3, <2>6 DEF ClustInv
  <2>8. SearchInv'
    BY <2>2 DEF SearchInv
  <2>9. FullInv'
    BY <2>2, StepNames DEF FullInv
  <2> QED BY <2>5, <2>7, <2>8, <2>9 DEF Placed
<1>6. CASE fp.sclust # 0
  <2>1. step' = "link" /\ mode' = mode /\ fp' = fp /\ scan' = scan
    BY <1>2, <1>6 DEF Takes, Probe, GoTo
  <2>2. Front(FV', fp'.sclust) /\ fp.sclust # scan.ncl
    BY <1>3, <1>4, <2>1
  <2>3. /\ CallType' /\ OpenInv' /\ ChainInv' /\ EntryInv' /\ DataInv'
        /\ fp.fptr > 0 => P'[Sec(fp.fptr)] = P[Sec(fp.fptr)]
    BY <1>1, <1>2, <1>3, <1>4, <2>1, <2>2, ChainGrows
  <2>4. fp.clust # scan.ncl /\ fp.clust \in ClusterSet /\ FV'[fp.clust] = EOC
    <3>1. Sec(fp.fptr) \in 0 .. Sec(fp.fptr)
      BY <1>2, <1>3, <1>6, WritePlace
    <3>2. fp.clust \in ClusterSet
      BY <1>2, <1>3, <1>6, <3>1, WritePlace
    <3>3. fp.clust # scan.ncl
      BY <1>1, <1>3, <1>6, ClusterFacts DEF Free
    <3> QED BY <1>1, <1>3, <1>6, <3>2, <3>3 DEF Table
  <2>5. ClustInv'
    BY <1>1, <1>2, <1>3, <1>4, <1>6, <2>1, <2>2, <2>3, <2>4 DEF ClustInv
  <2>6. SearchInv'
    BY <2>1 DEF SearchInv
  <2>7. FullInv'
    BY <2>1, StepNames DEF FullInv
  <2> QED BY <2>3, <2>5, <2>6, <2>7 DEF Placed
<1> QED BY <1>5, <1>6

\* The chain is longer by the cluster that was marked for it.
LEMMA LinkStep ==
  ASSUME IInv, Link
  PROVE  CallType' /\ Placed' /\ FullInv'
<1>1. /\ fp.clust \in ClusterSet /\ FV \in Table
      /\ FV' = [FV EXCEPT ![fp.clust] = scan.ncl]
      /\ VEntry' = VEntry /\ Entry' = Entry
  BY LinkView
<1>2. /\ step = "link" /\ step \in WriteSteps /\ step \in DataSteps /\ Allocated(scan.ncl)
      /\ data' = data /\ lock' = lock /\ rec' = rec /\ trouble' = trouble /\ left' = left
  BY StepNames DEF Link
<1>3. /\ fp.fptr > 0 /\ fp.clust = P[Sec(fp.fptr)]
      /\ left > 0 /\ fp.fptr % SectorSize = 0 /\ fp.sclust # 0 /\ FV[fp.clust] = EOC
      /\ scan.ncl \in ClusterSet /\ FV[scan.ncl] = EOC /\ scan.ncl # fp.clust
      /\ scan.ncl # fp.sclust /\ \A c \in ClusterSet : FV[c] # scan.ncl
      /\ Front(FV, fp.sclust) /\ Tidy(FV)
      /\ fp \in WFil
  BY <1>2 DEF IInv, Placed, ClustInv, ChainInv, GoodView, WellFormed, CallType
<1>4. Grown(FV, FV') /\ FV'[fp.clust] = scan.ncl /\ Front(FV', fp.sclust)
  <2>0. PICK e, n, G : e = fp.clust /\ n = scan.ncl /\ G = FV'
    OBVIOUS
  <2>1. /\ e \in ClusterSet /\ n \in ClusterSet /\ e # n
        /\ Tidy(FV) /\ FV[e] = EOC /\ FV[n] = EOC /\ \A c \in ClusterSet : FV[c] # n
    BY <1>1, <1>3, <2>0
  <2>2. G = [FV EXCEPT ![e] = n]
    BY <1>1, <2>0
  <2>3. /\ Grown(FV, G) /\ G[e] = n
        /\ \A a : Front(FV, a) /\ a # n => Front(G, a)
    BY <1>1, <2>1, <2>2, Linked
  <2> QED BY <1>3, <2>0, <2>3
<1>5. /\ fp' = [fp EXCEPT !.clust = scan.ncl] /\ scan' = NoScan /\ step' = "place" /\ mode' = mode
  BY <1>2, <1>3 DEF Allocated, GoTo, WFil
<1>6. MovesOn /\ fp'.clust = scan.ncl
  BY <1>3, <1>5, Moves
<1>7. /\ CallType' /\ OpenInv' /\ ChainInv' /\ EntryInv' /\ DataInv'
      /\ P'[Sec(fp.fptr)] = P[Sec(fp.fptr)]
  BY <1>1, <1>2, <1>3, <1>4, <1>5, <1>6, NoFileType, ChainGrows DEF MovesOn
<1>8. P'[Sec(fp.fptr + 1)] = scan.ncl
  BY <1>2, <1>4, <1>7, ChainOn
<1>9. ClustInv'
  BY <1>2, <1>3, <1>5, <1>6, <1>8 DEF ClustInv, MovesOn
<1>10. SearchInv'
  BY <1>5 DEF SearchInv
<1>11. FullInv'
  BY <1>5, StepNames DEF FullInv
<1> QED BY <1>7, <1>9, <1>10, <1>11 DEF Placed

\* The dirty buffer is written back, and the call stays where it is.
LEMMA WrittenBack ==
  ASSUME IInv, step \in {"place", "close"}, fp.dirty, data' = BufferWritten,
         fp' = [fp EXCEPT !.dirty = FALSE], UNCHANGED <<calls, lock, rec, trouble>>,
         FV' = FV, VEntry' = VEntry, Entry' = Entry
  PROVE  CallType' /\ Placed' /\ FullInv'
<1>1. /\ step' = step /\ mode' = mode /\ left' = left /\ scan' = scan
      /\ lock' = lock /\ rec' = rec /\ trouble' = trouble
      /\ step \in DataSteps /\ step \in EntryOld /\ step \notin OpenedSteps
      /\ step \notin {"idle", "mount", "find", "seek", "fill", "write", "entry", "sync"}
  BY StepNames DEF calls
<1>2. /\ CallType /\ ChainInv /\ EntryInv /\ DataInv /\ ClustInv /\ FullInv
      /\ fp \in WFil /\ data \in [ClusterSet -> Block]
  BY DEF IInv, Placed, CallType
<1>3. /\ fp' \in WFil /\ fp'.fptr = fp.fptr /\ fp'.objsize = fp.objsize /\ fp'.dirty = FALSE
      /\ fp'.sclust = fp.sclust /\ fp'.clust = fp.clust /\ fp'.modified = fp.modified
  BY <1>2 DEF WFil
<1>4. /\ P' = P /\ Base' = Base /\ LData' = LData /\ data' = LData
  BY <1>1, <1>3 DEF P, Base, LData
<1>5. data' \in [ClusterSet -> Block]
  BY <1>2 DEF BufferWritten, WFil
<1>6. CallType' BY <1>1, <1>2, <1>3, <1>5 DEF CallType
<1>7. OpenInv' BY <1>1 DEF OpenInv
<1>8. ChainInv' BY <1>1, <1>2, <1>3, <1>4 DEF ChainInv
<1>9. EntryInv' BY <1>1, <1>2, <1>3, <1>4 DEF EntryInv
<1>10. DataInv' BY <1>1, <1>2, <1>3, <1>4 DEF DataInv
<1>11. ClustInv' BY <1>1, <1>2, <1>3, <1>4 DEF ClustInv
<1>12. SearchInv' BY <1>1 DEF SearchInv
<1>13. FullInv' BY <1>1, <1>2, <1>3 DEF FullInv
<1> QED BY <1>6, <1>7, <1>8, <1>9, <1>10, <1>11, <1>12, <1>13 DEF Placed

\* The buffer is written back before it starts the next sector.
LEMMA PlaceStep ==
  ASSUME IInv, Place
  PROVE  CallType' /\ Placed' /\ FullInv'
<1>1. /\ FV' = FV /\ VEntry' = VEntry /\ Entry' = Entry
  BY QuietView DEF Quiet
<1>2. step = "place" /\ step \in WriteSteps /\ step \in Steps
  BY StepNames DEF Place
<1>3. /\ left > 0 /\ fp.fptr % SectorSize = 0
      /\ fp.clust \in ClusterSet /\ fp.clust = P[Sec(fp.fptr + 1)]
  BY <1>2 DEF IInv, Placed, ClustInv
<1>4. CASE ~fp.dirty /\ Copy(fp.clust) /\ UNCHANGED <<data, lock, scan, rec, trouble>>
  BY <1>1, <1>2, <1>3, <1>4, CopyStep
<1>5. CASE /\ fp.dirty /\ data' = BufferWritten
           /\ fp' = [fp EXCEPT !.dirty = FALSE] /\ UNCHANGED <<calls, lock, rec, trouble>>
  BY <1>1, <1>2, <1>5, WrittenBack
<1>6. CASE fp.dirty /\ data' \in {data, BufferWritten} /\ DiskError
  <2>1. trouble' = TRUE /\ lock' = lock /\ rec' = rec /\ GivesUp
    BY <1>2, <1>6, Failure, StepNames
  <2> QED BY <1>1, <1>2, <1>6, <2>1, GiveUpStep
<1> QED BY <1>4, <1>5, <1>6 DEF Place

-----------------------------------------------------------------------------
(* f_close, action by action.                                              *)

\* f_sync writes the buffer back before it asks for the entry.
LEMMA CloseStep ==
  ASSUME IInv, Close
  PROVE  CallType' /\ Placed' /\ FullInv'
<1>1. /\ FV' = FV /\ VEntry' = VEntry /\ Entry' = Entry
  BY QuietView DEF Quiet
<1>2. step = "close" /\ step \in CloseSteps /\ step \in DataSteps /\ step \in Steps
  BY StepNames DEF Close
<1>3. CallType /\ ChainInv /\ EntryInv /\ DataInv /\ FullInv /\ data \in [ClusterSet -> Block]
      /\ fp \in WFil
  BY DEF IInv, Placed, CallType
<1>4. CASE ~fp.modified /\ Unlock /\ UNCHANGED <<data, rec, trouble>>
  <2>1. Returns /\ lock' = FALSE
    BY <1>4 DEF Unlock, Return, GoTo, Returns
  <2>2. CallType' /\ Placed'
    BY <1>2, <1>3, <1>4, <2>1, EndStep DEF CallType
  <2>3. FullInv'
    BY <2>1, StepNames DEF FullInv, Returns
  <2> QED BY <2>2, <2>3
<1>5. CASE /\ fp.modified /\ ~fp.dirty /\ GoTo("entry")
           /\ UNCHANGED <<data, fp, left, scan, lock, rec, trouble>>
  <2>1. /\ step' = "entry" /\ step' \in DataSteps /\ step' \in EntryOld /\ step \in EntryOld
        /\ step' \notin OpenedSteps /\ mode' = mode
    BY <1>2, <1>5, StepNames DEF GoTo
  <2>2. P' = P /\ Base' = Base /\ LData' = LData
    BY <1>1, <1>5 DEF P, Base, LData, BufferWritten
  <2>3. CallType' BY <1>2, <1>3, <1>5, <2>1, StepNames DEF CallType
  <2>4. OpenInv' BY <2>1 DEF OpenInv
  <2>5. ChainInv' BY <1>1, <1>2, <1>3, <1>5, <2>2 DEF ChainInv
  <2>6. EntryInv' BY <1>1, <1>2, <1>3, <1>5, <2>1, <2>2 DEF EntryInv
  <2>7. DataInv' BY <1>1, <1>2, <1>3, <1>5, <2>1, <2>2 DEF DataInv
  <2>8. ClustInv' BY <2>1, StepNames DEF ClustInv
  <2>9. SearchInv' BY <2>1 DEF SearchInv
  <2>10. FullInv' BY <1>1, <1>2, <1>3, <1>5, <2>1 DEF FullInv
  <2> QED BY <2>3, <2>4, <2>5, <2>6, <2>7, <2>8, <2>9, <2>10 DEF Placed
<1>6. CASE /\ fp.modified /\ fp.dirty /\ data' = BufferWritten
           /\ fp' = [fp EXCEPT !.dirty = FALSE] /\ UNCHANGED <<calls, lock, rec, trouble>>
  BY <1>1, <1>2, <1>6, WrittenBack
<1>7. CASE fp.dirty /\ data' \in {data, BufferWritten} /\ DiskError
  <2>1. trouble' = TRUE /\ lock' = lock /\ rec' = rec /\ Returns
    BY <1>2, <1>7, Failure, StepNames
  <2>2. data' \in [ClusterSet -> Block]
    BY <1>3, <1>7 DEF BufferWritten, WFil
  <2>3. CallType' /\ Placed'
    BY <1>2, <1>3, <2>1, <2>2, EndStep DEF CallType
  <2>4. FullInv'
    BY <2>1, StepNames DEF FullInv, Returns
  <2> QED BY <2>3, <2>4
<1> QED BY <1>4, <1>5, <1>6, <1>7 DEF Close

\* The entry has the chain and the length of the FIL.
LEMMA UpdateEntryStep ==
  ASSUME IInv, UpdateEntry
  PROVE  CallType' /\ Placed' /\ FullInv'
<1>1. /\ FV' = FV
      /\ VEntry' = [exists |-> TRUE, sclust |-> fp.sclust, size |-> fp.fptr]
      /\ Entry' = Entry /\ fs'.winsect = DirSector
  BY UpdateView
<1>2. /\ step = "entry" /\ step' = "sync" /\ mode' = mode
      /\ step \in DataSteps /\ step \in EntryOld /\ step' \in DataSteps
      /\ step' \notin EntryOld /\ step' \notin OpenedSteps /\ step' \notin WriteSteps
      /\ data' = data /\ lock' = lock /\ fp' = fp /\ left' = left /\ scan' = scan
      /\ rec' = rec /\ trouble' = trouble
  BY StepNames DEF UpdateEntry, GoTo
<1>3. CallType /\ ChainInv /\ EntryInv /\ DataInv /\ FullInv
  BY DEF IInv, Placed
<1>4. P' = P /\ Base' = Base /\ LData' = LData
  BY <1>1, <1>2 DEF P, Base, LData, BufferWritten
<1>5. CallType' BY <1>2, <1>3, StepNames DEF CallType
<1>6. OpenInv' BY <1>2 DEF OpenInv
<1>7. ChainInv' BY <1>1, <1>2, <1>3, <1>4 DEF ChainInv
<1>8. EntryInv' BY <1>1, <1>2, <1>3, <1>4 DEF EntryInv
<1>9. DataInv' BY <1>1, <1>2, <1>3, <1>4 DEF DataInv
<1>10. ClustInv' BY <1>2 DEF ClustInv
<1>11. SearchInv' BY <1>2 DEF SearchInv
<1>12. FullInv' BY <1>1, <1>2, <1>3, StepNames DEF FullInv
<1> QED BY <1>5, <1>6, <1>7, <1>8, <1>9, <1>10, <1>11, <1>12 DEF Placed

\* f_close ends.
LEMMA SyncStep ==
  ASSUME IInv, Sync
  PROVE  CallType' /\ Placed' /\ FullInv'
<1>1. step = "sync" /\ step \in CloseSteps /\ step \in Steps /\ data' = data /\ CallType
  BY StepNames DEF Sync, IInv
<1>2. Returns /\ rec' = rec /\ lock' \in {lock, FALSE} /\ trouble' \in {trouble, TRUE}
  <2>1. CASE Unlock /\ UNCHANGED <<rec, trouble>>
    BY <2>1 DEF Unlock, Return, GoTo, Returns
  <2>2. CASE DiskError
    BY <1>1, <2>2, Failure, StepNames
  <2> QED BY <2>1, <2>2 DEF Sync
<1>3. CallType' /\ Placed'
  BY <1>1, <1>2, EndStep DEF CallType
<1>4. FullInv'
  BY <1>2, StepNames DEF FullInv, Returns
<1> QED BY <1>3, <1>4

-----------------------------------------------------------------------------
(* The window, the end of the power, and every step of the call.           *)

\* An error of the disk ends the call, or the write, and changes no table.
LEMMA FailStep ==
  ASSUME IInv, DiskError, step # "idle", data' = data, FV' = FV, VEntry' = VEntry,
         step \in EntryOld => Entry'.size = Entry.size /\ Entry'.sclust = Entry.sclust
  PROVE  CallType' /\ Placed' /\ FullInv'
<1>1. CallType /\ step \in Steps
  BY DEF IInv, CallType
<1>2. /\ trouble' = TRUE /\ lock' = lock /\ rec' = rec
      /\ \/ TriesToCreate
         \/ Returns
         \/ step \in WriteSteps /\ GivesUp
  BY <1>1, Failure
<1>3. CASE TriesToCreate \/ Returns
  <2>1. CallType' /\ Placed'
    BY <1>1, <1>2, <1>3, EndStep DEF CallType
  <2>2. FullInv'
    BY <1>2, <1>3, StepNames DEF FullInv, TriesToCreate, Returns
  <2> QED BY <2>1, <2>2
<1>4. CASE step \in WriteSteps /\ GivesUp
  <2>1. step \in EntryOld
    BY <1>4, StepNames
  <2> QED BY <1>2, <1>4, <2>1, GiveUpStep
<1> QED BY <1>2, <1>3, <1>4

\* What the window needs to be written for.
LEMMA WindowSteps ==
  ASSUME IInv, FlushWindow \/ LoadWindow \/ LoadFails
  PROVE  step \in {"find", "seek", "chain", "link", "probe", "entry", "sync"}
<1>1. ~InWindow \/ step = "sync"
  BY DEF FlushWindow, LoadWindow, LoadFails
<1> QED BY <1>1 DEF InWindow, Needed

\* The window written back changes nothing the call relies on.
LEMMA FlushWindowStep ==
  ASSUME IInv, FlushWindow
  PROVE  CallType' /\ Placed' /\ FullInv'
<1>1. /\ View' = View /\ disk' \in {disk, View}
      /\ fs' = fs \/ (disk' = View /\ fs' = [fs EXCEPT !.wflag = FALSE])
  BY FlushView DEF IInv
<1>2. FV' = FV /\ VEntry' = VEntry /\ (Entry' = Entry \/ Entry' = VEntry)
  BY <1>1 DEF FV, VEntry, Entry
<1>3. fs.wflag /\ step # "idle" /\ step \notin OpenedSteps
  BY WindowSteps DEF FlushWindow, IInv, LockInv
<1>4. step \in EntryOld => Entry'.size = Entry.size /\ Entry'.sclust = Entry.sclust
  BY <1>2 DEF IInv, Placed, EntryInv
<1>5. CASE /\ fs' = [fs EXCEPT !.wflag = FALSE]
           /\ UNCHANGED <<data, lock, fp, calls, rec, trouble>>
  <2>1. ~fs'.wflag
    BY <1>5 DEF IInv, DiskType, WFatFs
  <2> QED BY <1>2, <1>3, <1>4, <1>5, <2>1, StayStep
<1>6. CASE DiskError /\ UNCHANGED <<data, fs>>
  BY <1>2, <1>3, <1>4, <1>6, FailStep
<1> QED BY <1>5, <1>6 DEF FlushWindow

\* Nor does the sector read in its place.
LEMMA LoadStep ==
  ASSUME IInv, LoadWindow \/ LoadFails
  PROVE  CallType' /\ Placed' /\ FullInv'
<1>1. FV' = FV /\ VEntry' = VEntry /\ Entry' = Entry
  BY QuietView DEF Quiet
<1>2. step # "idle"
  BY WindowSteps
<1>3. CASE LoadWindow
  <2>1. /\ UNCHANGED <<data, lock, fp, calls, rec, trouble>>
        /\ ~fs.wflag /\ fs' = [fs EXCEPT !.winsect = Needed, !.win = disk[Needed]]
    BY <1>3 DEF LoadWindow
  <2>2. ~fs'.wflag
    BY <2>1 DEF IInv, DiskType, WFatFs
  <2> QED BY <1>1, <2>1, <2>2, StayStep
<1>4. CASE LoadFails
  BY <1>1, <1>2, <1>4, FailStep DEF LoadFails
<1> QED BY <1>3, <1>4

\* A step that changes nothing keeps all of it.
LEMMA StillStep ==
  ASSUME IInv, UNCHANGED vars
  PROVE  CallType' /\ Placed' /\ FullInv'
<1>1. FV' = FV /\ VEntry' = VEntry /\ Entry' = Entry
  BY QuietView DEF Quiet
<1>2. UNCHANGED <<data, lock, fp, calls, rec, trouble>> /\ fs' = fs
  BY DEF vars
<1> QED BY <1>1, <1>2, StayStep

\* Nothing of a call is left when the power is lost.
LEMMA PowerLossStep ==
  ASSUME IInv, PowerLoss
  PROVE  CallType' /\ Placed' /\ FullInv'
<1>1. /\ step' = "idle" /\ mode' = mode /\ fp' = NoFile /\ left' = 0 /\ scan' = NoScan
      /\ lock' = FALSE /\ trouble' = TRUE /\ data' = data /\ rec' = rec
  BY DEF PowerLoss, Return, GoTo
<1>2. Placed'
  BY <1>1, PlacedNone
<1>3. CallType'
  BY <1>1, NoFileType, StepNames DEF IInv, CallType
<1>4. FullInv'
  BY <1>1, StepNames DEF FullInv
<1> QED BY <1>2, <1>3, <1>4

\* Every step keeps what is said of the call: where the FIL is in its
\* chain, what its buffer holds, and how far create_chain has searched.
LEMMA CallStep ==
  ASSUME IInv, [Next]_vars
  PROVE  CallType' /\ Placed' /\ FullInv'
<1>1. CASE NewRecord BY <1>1, NewRecordStep
<1>2. CASE FlushWindow BY <1>2, FlushWindowStep
<1>3. CASE LoadWindow \/ LoadFails BY <1>3, LoadStep
<1>4. CASE FindVolume BY <1>4, FindVolumeStep
<1>5. CASE OpenRefused BY <1>5, OpenRefusedStep
<1>6. CASE OpenAppend BY <1>6, OpenAppendStep
<1>7. CASE Register BY <1>7, RegisterStep
<1>8. CASE Seek BY <1>8, SeekStep
<1>9. CASE Fill BY <1>9, FillStep
<1>10. CASE WriteOn BY <1>10, WriteOnStep
<1>11. CASE Chain BY <1>11, ChainStep
<1>12. CASE Advance BY <1>12, AdvanceStep
<1>13. CASE Probe BY <1>13, ProbeStep, TakesStep DEF Takes
<1>14. CASE Link BY <1>14, LinkStep
<1>15. CASE Place BY <1>15, PlaceStep
<1>16. CASE Close BY <1>16, CloseStep
<1>17. CASE UpdateEntry BY <1>17, UpdateEntryStep
<1>18. CASE Sync BY <1>18, SyncStep
<1>19. CASE PowerLoss BY <1>19, PowerLossStep
<1>20. CASE UNCHANGED vars BY <1>20, StillStep
<1> QED BY <1>1, <1>2, <1>3, <1>4, <1>5, <1>6, <1>7, <1>8, <1>9, <1>10, <1>11, <1>12, <1>13,
           <1>14, <1>15, <1>16, <1>17, <1>18, <1>19, <1>20 DEF Next, Handler

-----------------------------------------------------------------------------
(* The lock.                                                               *)

\* The call goes on with the lock and the volume as they are.
LEMMA LockStays ==
  ASSUME IInv, VEntry' = VEntry, lock' = lock, fs'.mounted = fs.mounted,
         fs'.wflag => fs.wflag /\ fs'.winsect = fs.winsect,
         step' \notin {"idle", "mount"} => step \notin {"idle", "mount"},
         step' \in OpenedSteps => step \in OpenedSteps /\ mode' = mode,
         step' \in DataSteps => step \in OpenedSteps \cup DataSteps,
         step' \in EntryOld =>
           fp'.modified \/ step \in OpenedSteps \/ (step \in EntryOld /\ ~fp.modified)
  PROVE  LockInv'
<1>1. LockInv
  BY DEF IInv
<1> QED BY <1>1 DEF LockInv

\* An error ends the call, or the write.
LEMMA LockFails ==
  ASSUME IInv, DiskError, step # "idle", VEntry' = VEntry, fs'.mounted = fs.mounted,
         fs'.wflag => fs.wflag /\ fs'.winsect = fs.winsect
  PROVE  LockInv'
<1>1. /\ lock' = lock
      /\ \/ TriesToCreate
         \/ Returns
         \/ step \in WriteSteps /\ GivesUp
  BY Failure DEF IInv, CallType
<1>2. CASE TriesToCreate \/ Returns
  BY <1>1, <1>2, LockStays, StepNames DEF TriesToCreate, Returns
<1>3. CASE step \in WriteSteps /\ GivesUp
  <2>1. step' = "close" /\ fp' = fp /\ step \in EntryOld /\ step \in DataSteps
        /\ step \notin {"idle", "mount"} /\ step' \notin OpenedSteps
    BY <1>3, StepNames DEF GivesUp
  <2> QED BY <1>1, <2>1, LockStays
<1> QED BY <1>1, <1>2, <1>3

\* The lock of a call that has found its end, on an entry the disk has.
LEMMA LockEnds ==
  ASSUME IInv, VEntry' = VEntry, fs'.mounted = fs.mounted, step' = "idle", lock' = FALSE,
         ~(fs'.wflag /\ fs'.winsect = DirSector)
  PROVE  LockInv'
  BY StepNames DEF LockInv

\* f_write does not touch the lock.
LEMMA LockWrite ==
  ASSUME IInv, WriteOn \/ Chain \/ Advance \/ Place \/ (Probe /\ fs.win[scan.ncl] # Free)
  PROVE  LockInv'
<1>1. VEntry' = VEntry
  BY QuietView DEF Quiet
<1>2. /\ step \in WriteSteps /\ step \in EntryOld /\ step \in DataSteps /\ step # "idle"
      /\ step \notin {"idle", "mount"} /\ fs' = fs
  BY StepNames DEF WriteOn, Chain, Advance, Place, Probe
<1>3. fp \in WFil /\ CallType
  BY DEF IInv, CallType
<1>4. CASE DiskError
  BY <1>1, <1>2, <1>4, LockFails
<1>5. CASE lock' = lock /\ step' \in EntryOld /\ (fp'.modified \/ fp'.modified = fp.modified)
  BY <1>1, <1>2, <1>5, LockStays, StepNames
<1>6. ASSUME EndWrite PROVE step' = "close" /\ fp'.modified
  BY <1>3, <1>6 DEF EndWrite, GoTo, WFil
<1>7. ASSUME NEW s \in {0} \cup ClusterSet, Copy(s) PROVE step' = "write" /\ fp'.modified = fp.modified
  BY <1>3, <1>7 DEF Copy, GoTo, WFil
<1>8. ASSUME NEW c, fp' = [fp EXCEPT !.clust = c] PROVE fp'.modified = fp.modified
  BY <1>3, <1>8 DEF WFil
<1>9. CASE WriteOn
  <2>1. fp.sect \in {0} \cup ClusterSet /\ lock' = lock
    BY <1>3, <1>9 DEF WFil, WriteOn
  <2>2. step' \in EntryOld /\ (fp'.modified \/ fp'.modified = fp.modified)
    BY <1>6, <1>7, <1>8, <1>9, <2>1, StepNames DEF WriteOn, GoTo
  <2> QED BY <1>5, <2>1, <2>2
<1>10. CASE Chain
  <2>1. lock' = lock
    BY <1>10 DEF Chain
  <2>2. step' \in EntryOld /\ (fp'.modified \/ fp'.modified = fp.modified)
    BY <1>8, <1>10, StepNames DEF Chain, GoTo, WriteFails
  <2> QED BY <1>5, <2>1, <2>2
<1>11. CASE Advance
  <2>1. lock' = lock
    BY <1>11 DEF Advance
  <2>2. step' \in EntryOld /\ (fp'.modified \/ fp'.modified = fp.modified)
    BY <1>6, <1>11, StepNames DEF Advance, GoTo, VolumeFull
  <2> QED BY <1>5, <2>1, <2>2
<1>12. CASE Probe /\ fs.win[scan.ncl] # Free
  <2>1. lock' = lock
    BY <1>12 DEF Probe
  <2>2. step' \in EntryOld /\ (fp'.modified \/ fp'.modified = fp.modified)
    BY <1>6, <1>12, StepNames DEF Probe, GoTo, VolumeFull
  <2> QED BY <1>5, <2>1, <2>2
<1>13. CASE Place /\ ~DiskError
  <2>1. lock' = lock /\ fp.clust \in {0} \cup ClusterSet
    BY <1>3, <1>13 DEF Place, WFil
  <2>2. step' \in EntryOld /\ fp'.modified = fp.modified
    <3>1. CASE Copy(fp.clust)
      BY <1>7, <2>1, <3>1, StepNames
    <3>2. CASE fp' = [fp EXCEPT !.dirty = FALSE] /\ UNCHANGED calls
      BY <1>2, <1>3, <3>2 DEF calls, WFil
    <3> QED BY <1>13, <3>1, <3>2 DEF Place
  <2> QED BY <1>5, <2>1, <2>2
<1> QED BY <1>4, <1>9, <1>10, <1>11, <1>12, <1>13

\* f_open locks the file before it looks for its end, and unlocks what a
\* mount finds locked.
LEMMA LockOpen ==
  ASSUME IInv, FindVolume \/ OpenRefused \/ OpenAppend \/ Seek \/ Fill
  PROVE  LockInv'
<1>1. VEntry' = VEntry
  BY QuietView DEF Quiet
<1>2. LockInv /\ fs \in WFatFs
  BY DEF IInv, DiskType
<1>3. CASE FindVolume
  <2>0. step # "idle"
    BY <1>3, Zenon DEF FindVolume
  <2>1. CASE DiskError /\ UNCHANGED fs
    BY <1>1, <2>0, <2>1, LockFails
  <2>2. CASE fs.mounted /\ GoTo("find") /\ UNCHANGED <<fs, lock>>
    BY <1>1, <1>2, <2>2, StepNames DEF GoTo, LockInv
  <2>3. CASE /\ GoTo("find") /\ lock' = FALSE
             /\ \E c \in {1} \cup ClusterSet :
                  fs' = [NotMounted EXCEPT !.mounted = TRUE, !.last_clst = c]
    <3>1. PICK c \in {1} \cup ClusterSet :
            fs' = [NotMounted EXCEPT !.mounted = TRUE, !.last_clst = c]
      BY <2>3, Zenon
    <3>2. fs'.mounted = TRUE /\ fs'.wflag = FALSE
      BY <3>1 DEF NotMounted
    <3> QED BY <1>1, <2>3, <3>2, StepNames DEF GoTo, LockInv
  <2> QED BY <1>3, <2>1, <2>2, <2>3, Zenon DEF FindVolume
<1>4. CASE OpenRefused
  <2>1. TriesToCreate \/ Returns
    BY <1>4, OpenFailure DEF OpenRefused
  <2> QED BY <1>1, <1>4, <2>1, LockStays, StepNames DEF OpenRefused, TriesToCreate, Returns
<1>5. CASE OpenAppend
  <2>1. /\ step = "find" /\ InWindow /\ fs.win.exists /\ ~lock /\ mode = "append" /\ lock' = TRUE
        /\ fs' = fs /\ SeekFrom(fs.win.size)
    BY <1>5 DEF OpenAppend
  <2>2. fs.win = Entry /\ VEntry = Entry /\ fs.wflag = FALSE
    BY <2>1, FindEntry
  <2>3. step' \in {"seek", "fill", "write"} /\ mode' = mode
    BY <2>1 DEF SeekFrom, GoTo
  <2>4. fs.mounted
    BY <1>2, <2>1 DEF LockInv
  <2> QED BY <1>1, <2>1, <2>2, <2>3, <2>4, StepNames DEF LockInv
<1>6. CASE Seek
  <2>1. step = "seek" /\ lock' = lock /\ fs' = fs /\ step \in OpenedSteps
    BY <1>6, StepNames DEF Seek
  <2>2. CASE OpenFails
    <3>1. TriesToCreate \/ Returns
      BY <2>2, OpenFailure
    <3> QED BY <1>1, <2>1, <3>1, LockStays, StepNames DEF TriesToCreate, Returns
  <2>3. CASE SeekFrom(left - SectorSize)
    <3>1. step' \in {"seek", "fill", "write"} /\ mode' = mode
      BY <2>3 DEF SeekFrom, GoTo
    <3> QED BY <1>1, <2>1, <3>1, LockStays, StepNames
  <2> QED BY <1>6, <2>2, <2>3 DEF Seek
<1>7. CASE Fill
  <2>1. step = "fill" /\ fs' = fs /\ step \in OpenedSteps
    BY <1>7, StepNames DEF Fill
  <2>2. CASE DiskError
    BY <1>1, <2>1, <2>2, LockFails
  <2>3. CASE GoTo("write") /\ lock' = lock
    BY <1>1, <2>1, <2>3, LockStays, StepNames DEF GoTo
  <2> QED BY <1>7, <2>2, <2>3 DEF Fill
<1> QED BY <1>3, <1>4, <1>5, <1>6, <1>7

\* Every step keeps what the lock says.
LEMMA LockStep ==
  ASSUME IInv, [Next]_vars
  PROVE  LockInv'
<1>0. LockInv /\ fs \in WFatFs
  BY DEF IInv, DiskType
<1>1. CASE NewRecord \/ UNCHANGED vars
  <2>1. VEntry' = VEntry /\ fs' = fs /\ lock' = lock
    BY <1>1, QuietView DEF Quiet, NewRecord, vars
  <2>2. step' = "mount" \/ (step' = step /\ mode' = mode /\ fp' = fp)
    BY <1>1 DEF NewRecord, vars, calls
  <2> QED BY <1>0, <2>1, <2>2, StepNames DEF LockInv
<1>2. CASE FlushWindow \/ LoadWindow \/ LoadFails
  <2>1. VEntry' = VEntry
    <3>1. CASE FlushWindow
      BY <3>1, FlushView DEF VEntry, IInv
    <3>2. CASE LoadWindow \/ LoadFails
      BY <3>2, QuietView DEF Quiet
    <3> QED BY <1>2, <3>1, <3>2
  <2>2. step # "idle"
    BY <1>2, WindowSteps
  <2>3. fs'.mounted = fs.mounted /\ (fs'.wflag => fs.wflag /\ fs'.winsect = fs.winsect)
    BY <1>0, <1>2 DEF FlushWindow, LoadWindow, LoadFails, WFatFs
  <2>4. CASE DiskError
    BY <2>1, <2>2, <2>3, <2>4, LockFails
  <2>5. CASE UNCHANGED <<lock, fp, calls>>
    BY <1>0, <2>1, <2>3, <2>5 DEF LockInv, calls
  <2> QED BY <1>2, <2>4, <2>5 DEF FlushWindow, LoadWindow, LoadFails
<1>3. CASE FindVolume \/ OpenRefused \/ OpenAppend \/ Seek \/ Fill
  BY <1>3, LockOpen
<1>4. CASE WriteOn \/ Chain \/ Advance \/ Place \/ (Probe /\ fs.win[scan.ncl] # Free)
  BY <1>4, LockWrite
<1>5. CASE Register
  <2>1. /\ VEntry'.exists /\ fs'.mounted = fs.mounted
    BY <1>5, RegisterView
  <2>2. step = "find" /\ lock' = TRUE /\ step' = "write" /\ fp'.modified
    BY <1>5, NoFileType DEF Register, GoTo, NoFile
  <2> QED BY <1>0, <2>1, <2>2, StepNames DEF LockInv
<1>6. CASE Takes \/ Link
  <2>1. /\ VEntry' = VEntry /\ fs'.mounted = fs.mounted
        /\ \E c \in ClusterSet : fs'.winsect = FatSector(c)
    BY <1>6, TakesView, LinkView
  <2>2. fs'.winsect # DirSector
    BY <2>1, SectorFacts
  <2>3. step \in {"probe", "link"} /\ lock' = lock /\ step' \in {"link", "place"}
    BY <1>6 DEF Takes, Probe, Link, Allocated, GoTo
  <2> QED BY <1>0, <2>1, <2>2, <2>3, StepNames DEF LockInv
<1>7. CASE Close
  <2>1. VEntry' = VEntry /\ fs' = fs /\ step = "close"
    BY <1>7, QuietView DEF Quiet, Close
  <2>2. CASE DiskError
    BY <2>1, <2>2, LockFails
  <2>3. CASE ~fp.modified /\ Unlock
    <3>1. step' = "idle" /\ lock' = FALSE
      BY <2>3 DEF Unlock, Return, GoTo
    <3> QED BY <1>0, <2>1, <2>3, <3>1, LockEnds, StepNames DEF LockInv
  <2>4. CASE fp.modified /\ GoTo("entry") /\ UNCHANGED <<fp, lock>>
    BY <1>0, <2>1, <2>4, StepNames DEF LockInv, GoTo
  <2>5. CASE fp.modified /\ fp' = [fp EXCEPT !.dirty = FALSE] /\ UNCHANGED <<calls, lock>>
    <3>1. fp'.modified
      BY <2>5 DEF IInv, CallType, WFil
    <3> QED BY <1>0, <2>1, <2>5, <3>1, StepNames DEF LockInv, calls
  <2> QED BY <1>7, <2>2, <2>3, <2>4, <2>5 DEF Close
<1>8. CASE UpdateEntry
  <2>1. /\ VEntry'.exists /\ fs'.mounted = fs.mounted
    BY <1>8, UpdateView
  <2>2. step = "entry" /\ lock' = lock /\ step' = "sync"
    BY <1>8 DEF UpdateEntry, GoTo
  <2> QED BY <1>0, <2>1, <2>2, StepNames DEF LockInv
<1>9. CASE Sync
  <2>1. /\ VEntry' = VEntry /\ step = "sync" /\ ~fs.wflag
    BY <1>9, QuietView DEF Quiet, Sync
  <2>2. fs'.mounted = fs.mounted /\ ~fs'.wflag
    BY <1>0, <1>9 DEF Sync, WFatFs
  <2>3. CASE DiskError
    BY <2>1, <2>2, <2>3, LockFails
  <2>4. CASE Unlock
    <3>1. step' = "idle" /\ lock' = FALSE
      BY <2>4 DEF Unlock, Return, GoTo
    <3> QED BY <2>1, <2>2, <3>1, LockEnds
  <2> QED BY <1>9, <2>3, <2>4 DEF Sync
<1>10. CASE PowerLoss
  BY <1>10, StepNames DEF PowerLoss, Return, GoTo, NotMounted, LockInv
<1> QED BY <1>1, <1>2, <1>3, <1>4, <1>5, <1>6, <1>7, <1>8, <1>9, <1>10
        DEF Next, Handler, Takes

-----------------------------------------------------------------------------
(* The file on the disk, step by step.                                     *)

\* What is longer by the beginning of t.
LEMMA Longer ==
  ASSUME NEW S, NEW s \in Seq(S), NEW t \in Seq(S), NEW n \in 0 .. Len(t), NEW u,
         u = [k \in 1 .. Len(s) + n |-> IF k <= Len(s) THEN s[k] ELSE t[k - Len(s)]]
  PROVE  u = s \o SubSeq(t, 1, n)
<1>1. SubSeq(t, 1, n) \in Seq(S) /\ Len(SubSeq(t, 1, n)) = n
      /\ \A k \in 1 .. n : SubSeq(t, 1, n)[k] = t[k]
  OBVIOUS
<1> DEFINE v == SubSeq(t, 1, n)
<1> HIDE DEF v
<1>2. v \in Seq(S) /\ Len(v) = n /\ \A k \in 1 .. n : v[k] = t[k]
  BY <1>1 DEF v
<1>3. u = s \o v
  <2> DEFINE w == s \o v
  <2>1. /\ Len(s) \in Nat /\ w \in Seq(S) /\ Len(w) = Len(s) + n
        /\ \A k \in 1 .. Len(s) + n : w[k] = IF k <= Len(s) THEN s[k] ELSE v[k - Len(s)]
    <3>1. /\ w \in Seq(S) /\ Len(w) = Len(s) + Len(v)
          /\ \A k \in 1 .. Len(s) + Len(v) : w[k] = IF k <= Len(s) THEN s[k] ELSE v[k - Len(s)]
      BY <1>2, ConcatProperties
    <3>2. Len(s) \in Nat
      BY LenProperties
    <3> HIDE DEF w
    <3> QED BY <1>2, <3>1, <3>2
  <2>2. w = [k \in 1 .. Len(w) |-> w[k]]
    <3> HIDE DEF w
    <3> QED BY <2>1
  <2> HIDE DEF w
  <2>3. ASSUME NEW k \in 1 .. Len(s) + n PROVE u[k] = w[k]
    <3>1. ~(k <= Len(s)) => k - Len(s) \in 1 .. n
      BY <2>1
    <3> QED BY <1>2, <2>1, <3>1
  <2>4. u = [k \in 1 .. Len(s) + n |-> u[k]]
    OBVIOUS
  <2> QED BY <2>1, <2>2, <2>3, <2>4 DEF w
<1> QED BY <1>3 DEF v

\* A part of a sequence, from the byte after b.
LEMMA Within ==
  ASSUME NEW S, NEW s \in Seq(S), NEW b \in Nat, NEW n \in Nat, b + n <= Len(s)
  PROVE  SubSeq(s, b + 1, b + n) = [i \in 1 .. n |-> s[b + i]]
  OBVIOUS

\* The chain of the file on the disk.
DiskPath == Path(ClusterSet, FD, Entry.sclust)

\* The file, byte by byte, along the chain on the disk.
LEMMA FileBytes ==
  ASSUME IInv
  PROVE  /\ Entry.size \in Nat
         /\ File = [k \in 1 .. Entry.size |-> At(DiskPath, data, k)]
         /\ File \in Seq(Bytes) /\ Len(File) = Entry.size
         /\ \A k \in 1 .. Entry.size : File[k] = At(DiskPath, data, k)
<1>1. DiskType /\ GoodDisk /\ data \in [ClusterSet -> Block]
  BY DEF IInv, CallType
<1>2. Entry.size \in Nat
  BY <1>1, ViewType DEF ViewTyped
<1>3. File = [k \in 1 .. Entry.size |-> At(DiskPath, data, k)]
  BY <1>1, FileAlong DEF FileIsAlong, FileOf, Entry, FD, DiskPath
<1>4. ASSUME NEW k \in 1 .. Entry.size PROVE At(DiskPath, data, k) \in Bytes
  <2>1. k \in Nat /\ 0 < k /\ k <= Entry.size /\ Entry.size > 0
    BY <1>2
  <2>2. Sec(k) \in Nat /\ Sec(k) <= Sec(Entry.size) /\ Sec(Entry.size) \in Nat
        /\ Off(k) \in 1 .. SectorSize
    BY <1>2, <2>1, BytePlace, PlaceOrder
  <2>3. DiskPath[Sec(k)] \in ClusterSet
    BY <1>1, <2>1, <2>2 DEF GoodDisk, WellFormed, Covers, DiskPath
  <2>4. data[DiskPath[Sec(k)]] \in [1 .. SectorSize -> Bytes]
    BY <1>1, <2>3 DEF Block
  <2> QED BY <2>2, <2>4 DEF At
<1>5. File \in Seq(Bytes) /\ Len(File) = Entry.size
  <2>1. File \in [1 .. Entry.size -> Bytes]
    BY <1>3, <1>4
  <2> QED BY <1>2, <2>1
<1> QED BY <1>2, <1>3, <1>5

\* The file after a step is that of the disk and the data after it.
LEMMA FileNext ==
  ASSUME IInv, [Next]_vars
  PROVE  File' = FileOf(disk', data')
<1>1. DiskType' /\ GoodDisk'
  BY SoundStep DEF Sound
<1> QED BY <1>1, FileAlongNext DEF FileIsAlong

\* Neither the disk nor what the file has of the data has changed.
LEMMA FileStays ==
  ASSUME IInv, [Next]_vars, disk' = disk,
         data' = data \/ (fp.dirty /\ step \in EntryOld /\ data' = BufferWritten)
  PROVE  File' = File
<1>1. File' = FileOf(disk, data')
  BY FileNext
<1>2. File = FileOf(disk, data)
  BY FileAlong DEF FileIsAlong, IInv
<1>3. CASE data' = data
  BY <1>1, <1>2, <1>3
<1>4. CASE fp.dirty /\ step \in EntryOld /\ data' = BufferWritten
  <2>1. data' = LData
    BY <1>4 DEF LData
  <2>2. ASSUME NEW k \in 1 .. Entry.size PROVE At(DiskPath, data', k) = At(DiskPath, data, k)
    <3>1. DiskPath[Sec(k)] = P[Sec(k)]
      BY <1>4, OldPath DEF DiskPath
    <3>2. At(P, LData, k) = At(P, data, k)
      BY <1>4 DEF IInv, Placed, DataInv
    <3> QED BY <2>1, <3>1, <3>2 DEF At
  <2>3. FileOf(disk, data') = FileOf(disk, data)
    BY <2>2 DEF FileOf, DiskPath, Entry, FD
  <2> QED BY <1>1, <1>2, <2>3
<1> QED BY <1>3, <1>4

\* The window is written, and it was not the entry that was brought up to date.
LEMMA FileLinked ==
  ASSUME IInv, [Next]_vars, disk' = View, data' = data,
         VEntry.size = Entry.size, VEntry.sclust = Entry.sclust
  PROVE  File' = File
<1>1. File' = FileOf(View, data)
  BY FileNext
<1>2. File = [k \in 1 .. Entry.size |-> At(DiskPath, data, k)] /\ Entry.size \in Nat
  BY FileBytes
<1>3. FileOf(View, data)
      = [k \in 1 .. Entry.size |-> At(Path(ClusterSet, FV, Entry.sclust), data, k)]
  BY DEF FileOf, VEntry, FV
<1>4. ASSUME NEW k \in 1 .. Entry.size
      PROVE  At(Path(ClusterSet, FV, Entry.sclust), data, k) = At(DiskPath, data, k)
  <2>1. k \in Nat /\ 0 < k /\ k <= Entry.size /\ Entry.size > 0
    BY <1>2
  <2>2. Sec(k) \in 0 .. Sec(Entry.size)
    BY <1>2, <2>1, BytePlace, PlaceOrder
  <2>3. Grown(FD, FV) /\ Covers(FD, Entry.sclust, Entry.size)
    BY DEF IInv, ViewGrown, GoodDisk, WellFormed
  <2>4. \A n \in 0 .. Sec(Entry.size) :
          Path(ClusterSet, FV, Entry.sclust)[n] = Path(ClusterSet, FD, Entry.sclust)[n]
    BY <1>2, <2>1, <2>3, GrownPath
  <2> QED BY <2>2, <2>4 DEF At, DiskPath
<1> QED BY <1>1, <1>2, <1>3, <1>4

\* The entry is written: the line is there as far as f_write came.
LEMMA FileGrows ==
  ASSUME IInv, [Next]_vars, step = "sync", fs.wflag, disk' = View, data' = data
  PROVE  /\ LineLength - left \in 0 .. LineLength
         /\ File' = File \o SubSeq(Line, 1, LineLength - left)
<1> DEFINE n == LineLength - left
<1>0. step \in DataSteps /\ step \notin EntryOld
  BY StepNames
<1>1. /\ VEntry = [exists |-> TRUE, sclust |-> fp.sclust, size |-> fp.fptr]
      /\ Base = Entry.size /\ ~fp.dirty /\ left \in 0 .. LineLength /\ fp.fptr \in Nat
      /\ \A k \in Base + 1 .. fp.fptr : At(P, LData, k) = <<rec, k - Base>>
  BY <1>0 DEF IInv, Placed, EntryInv, ChainInv, DataInv, CallType, WFil
<1>2. n \in 0 .. LineLength /\ fp.fptr = Entry.size + n
  BY <1>1, FileBytes, VolumeAssumption DEF Base
<1> HIDE DEF n
<1>3. File' = FileOf(View, data)
  BY FileNext
<1>4. FileOf(View, data) = [k \in 1 .. Entry.size + n |-> At(P, data, k)]
  <2>1. View[DirSector].size = Entry.size + n /\ View[DirSector].sclust = fp.sclust
    BY <1>1, <1>2 DEF VEntry
  <2> QED BY <2>1 DEF FileOf, P, FV
<1>5. /\ Entry.size \in Nat /\ File \in Seq(Bytes) /\ Len(File) = Entry.size
      /\ \A k \in 1 .. Entry.size : File[k] = At(DiskPath, data, k)
  BY FileBytes
<1>6. ASSUME NEW k \in 1 .. Entry.size + n
      PROVE  At(P, data, k) = IF k <= Len(File) THEN File[k] ELSE Line[k - Len(File)]
  <2>1. CASE k <= Entry.size
    <3>1. k \in 1 .. Entry.size
      BY <1>5, <2>1
    <3>2. DiskPath[Sec(k)] = P[Sec(k)]
      BY <3>1, OldPath DEF DiskPath
    <3> QED BY <1>5, <2>1, <3>1, <3>2 DEF At
  <2>2. CASE ~(k <= Entry.size)
    <3>0. k \in Int /\ k <= Entry.size + n /\ Entry.size < k
      BY <1>2, <1>5, <2>2
    <3>1. k \in Base + 1 .. fp.fptr /\ k - Entry.size \in 1 .. LineLength
      <4>1. k \in Entry.size + 1 .. Entry.size + n /\ k - Entry.size \in 1 .. n
        BY <1>2, <1>5, <3>0
      <4> QED BY <1>1, <1>2, <4>1, VolumeAssumption
    <3>2. At(P, data, k) = <<rec, k - Entry.size>>
      BY <1>1, <3>1 DEF LData
    <3> QED BY <1>5, <2>2, <3>1, <3>2 DEF Line
  <2> QED BY <2>1, <2>2
<1>7. Line \in Seq(Bytes) /\ Len(Line) = LineLength
  <2>1. rec \in 1 .. MaxRecords
    BY <1>0, StepNames DEF IInv, CallType
  <2>2. Line \in [1 .. LineLength -> Bytes]
    BY <2>1 DEF Line, Bytes
  <2> QED BY <2>2, VolumeAssumption
<1>8. File' = [k \in 1 .. Len(File) + n |-> IF k <= Len(File) THEN File[k] ELSE Line[k - Len(File)]]
  BY <1>3, <1>4, <1>5, <1>6
<1>9. File' = File \o SubSeq(Line, 1, n)
  BY <1>2, <1>5, <1>7, <1>8, Longer
<1> QED BY <1>2, <1>9 DEF n

\* What a step makes of the file.
Grows ==
  /\ step = "sync" /\ fs.wflag /\ rec' = rec
  /\ step' = "idle" \/ (step' = "sync" /\ ~fs'.wflag)
  /\ LineLength - left \in 0 .. LineLength
  /\ File' = File \o SubSeq(Line, 1, LineLength - left)

\* A step leaves the file on the disk as it is, or writes the entry that
\* makes the line of the record its end.
LEMMA FileStep ==
  ASSUME IInv, [Next]_vars
  PROVE  File' = File \/ Grows
<1>1. CASE FlushWindow
  <2>1. disk' \in {disk, View} /\ data' = data /\ fs.wflag
    BY <1>1, FlushView DEF IInv, FlushWindow
  <2>2. CASE disk' = disk
    BY <2>1, <2>2, FileStays
  <2>3. CASE disk' = View /\ step # "sync"
    <3>1. VEntry.size = Entry.size /\ VEntry.sclust = Entry.sclust
      <4>1. CASE step \in EntryOld
        BY <4>1 DEF IInv, Placed, EntryInv
      <4>2. CASE step \in OpenedSteps
        BY <2>1, <4>2 DEF IInv, LockInv
      <4>3. CASE step = "find"
        <5>1. fs.winsect # DirSector
          BY <1>1, <2>3, <4>3 DEF FlushWindow, InWindow, Needed
        <5>2. VEntry = Entry
          BY <5>1, ClusterFacts DEF VEntry, View, Written, Entry, IInv, DiskType
        <5> QED BY <5>2
      <4> QED BY <1>1, <2>3, <4>1, <4>2, <4>3, WindowSteps, StepNames
    <3> QED BY <2>1, <2>3, <3>1, FileLinked
  <2>4. CASE disk' = View /\ step = "sync"
    <3>1. /\ LineLength - left \in 0 .. LineLength
          /\ File' = File \o SubSeq(Line, 1, LineLength - left)
      BY <2>1, <2>4, FileGrows
    <3>2. rec' = rec /\ (step' = "idle" \/ (step' = "sync" /\ ~fs'.wflag))
      <4>1. CASE DiskError
        BY <2>4, <4>1, Failure, StepNames DEF Returns, TriesToCreate, GivesUp
      <4>2. CASE fs' = [fs EXCEPT !.wflag = FALSE] /\ UNCHANGED <<calls, rec>>
        BY <2>4, <4>2 DEF calls, IInv, DiskType, WFatFs
      <4> QED BY <1>1, <4>1, <4>2 DEF FlushWindow
    <3> QED BY <2>1, <2>4, <3>1, <3>2 DEF Grows
  <2> QED BY <2>1, <2>2, <2>3, <2>4
<1>2. CASE Place \/ Close
  <2>1. disk' = disk /\ step \in EntryOld
    BY <1>2, StepNames DEF Place, Close
  <2>2. data' = data \/ (fp.dirty /\ data' = BufferWritten)
    BY <1>2 DEF Place, Close
  <2> QED BY <2>1, <2>2, FileStays
<1>3. CASE Probe \/ Link \/ Register \/ UpdateEntry
  <2>1. disk' = disk /\ data' = data
    BY <1>3 DEF Probe, Link, Register, UpdateEntry
  <2> QED BY <2>1, FileStays
<1>4. CASE PowerLoss \/ UNCHANGED vars \/ NewRecord
  <2>1. disk' = disk /\ data' = data
    BY <1>4 DEF PowerLoss, vars, NewRecord
  <2> QED BY <2>1, FileStays
<1>5. CASE LoadWindow \/ LoadFails \/ OpenRefused \/ OpenAppend \/ Seek \/ Fill
  <2>1. disk' = disk /\ data' = data
    BY <1>5 DEF LoadWindow, LoadFails, OpenRefused, OpenAppend, Seek, Fill
  <2> QED BY <2>1, FileStays
<1>6. CASE FindVolume \/ WriteOn \/ Chain \/ Advance \/ Sync
  <2>1. disk' = disk /\ data' = data
    BY <1>6, Zenon DEF FindVolume, WriteOn, Chain, Advance, Sync
  <2> QED BY <2>1, FileStays
<1> QED BY <1>1, <1>2, <1>3, <1>4, <1>5, <1>6 DEF Next, Handler

-----------------------------------------------------------------------------
(* The record being logged is not in the file before its entry is.         *)

\* Only a new record begins a call, and only f_sync ends its last step.
LEMMA Between ==
  ASSUME IInv, [Next]_vars, ~NewRecord
  PROVE  /\ rec' = rec
         /\ step' \notin {"idle", "sync"} => step \notin {"idle", "sync"}
         /\ step' = "sync" /\ fs'.wflag => step = "entry" \/ (step = "sync" /\ fs.wflag)
<1>0. step \in Steps
  BY DEF IInv, CallType
<1>1. CASE UNCHANGED vars \/ PowerLoss
  BY <1>1 DEF vars, calls, PowerLoss, Return, GoTo
<1>2. CASE FlushWindow \/ LoadWindow \/ LoadFails
  <2>1. step # "idle"
    BY <1>2, WindowSteps
  <2>2. CASE DiskError
    BY <1>0, <2>1, <2>2, Failure, StepNames DEF TriesToCreate, Returns, GivesUp
  <2>3. CASE FlushWindow /\ ~DiskError
    BY <2>1, <2>3 DEF FlushWindow, calls, IInv, DiskType, WFatFs
  <2>4. CASE LoadWindow
    <3>1. step # "sync" /\ step' = step /\ rec' = rec
      BY <2>4 DEF LoadWindow, InWindow, Needed, calls
    <3> QED BY <2>1, <3>1
  <2> QED BY <1>2, <2>2, <2>3, <2>4 DEF LoadFails
<1>3. CASE Sync
  <2>1. CASE DiskError
    BY <1>0, <1>3, <2>1, Failure, StepNames DEF Sync, Returns, TriesToCreate, GivesUp
  <2>2. CASE Unlock /\ UNCHANGED <<rec, trouble>>
    BY <2>2 DEF Unlock, Return, GoTo
  <2> QED BY <1>3, <2>1, <2>2 DEF Sync
<1>4. CASE UpdateEntry
  BY <1>4 DEF UpdateEntry, GoTo
<1>5. CASE DiskError /\ step \notin {"idle", "sync"}
  BY <1>0, <1>5, Failure, StepNames DEF TriesToCreate, Returns, GivesUp
<1>6. CASE FindVolume
  <2>1. step = "mount" /\ rec' = rec
    BY <1>6, <1>5, <1>0, Failure, Zenon DEF FindVolume
  <2>2. CASE DiskError
    BY <1>5, <2>1, <2>2
  <2>3. CASE GoTo("find")
    BY <2>1, <2>3 DEF GoTo
  <2> QED BY <1>6, <2>2, <2>3, Zenon DEF FindVolume
<1>7. CASE OpenRefused \/ OpenAppend \/ Register
  <2>1. step = "find" /\ rec' = rec
    BY <1>7 DEF OpenRefused, OpenAppend, Register
  <2>2. step' # "sync"
    BY <1>7, OpenFailure DEF OpenRefused, OpenAppend, Register, SeekFrom, GoTo, TriesToCreate, Returns
  <2> QED BY <2>1, <2>2
<1>8. CASE Seek
  <2>1. step = "seek" /\ rec' = rec
    BY <1>8 DEF Seek
  <2>2. step' # "sync"
    BY <1>8, OpenFailure DEF Seek, SeekFrom, GoTo, TriesToCreate, Returns
  <2> QED BY <2>1, <2>2
<1>9. CASE Fill
  <2>1. step = "fill"
    BY <1>9 DEF Fill
  <2>2. CASE DiskError
    BY <1>5, <2>1, <2>2
  <2>3. CASE GoTo("write") /\ rec' = rec
    BY <2>1, <2>3 DEF GoTo
  <2> QED BY <1>9, <2>2, <2>3 DEF Fill
<1>10. CASE WriteOn \/ Chain \/ Advance \/ Probe \/ Link
  <2>1. step \in WriteSteps /\ rec' = rec
    BY <1>10, StepNames DEF WriteOn, Chain, Advance, Probe, Link
  <2>2. step' # "sync"
    BY <1>10 DEF WriteOn, Chain, Advance, Probe, Link, GoTo, EndWrite, VolumeFull, Copy, WriteFails,
                 Allocated
  <2> QED BY <2>1, <2>2, StepNames
<1>11. CASE Place
  <2>1. step = "place"
    BY <1>11 DEF Place
  <2>2. CASE DiskError
    BY <1>5, <2>1, <2>2
  <2>3. CASE ~DiskError
    BY <1>11, <2>1, <2>3 DEF Place, Copy, GoTo, calls
  <2> QED BY <2>2, <2>3
<1>12. CASE Close
  <2>1. step = "close"
    BY <1>12 DEF Close
  <2>2. CASE DiskError
    BY <1>5, <2>1, <2>2
  <2>3. CASE ~DiskError
    BY <1>12, <2>1, <2>3 DEF Close, Unlock, Return, GoTo, calls
  <2> QED BY <2>2, <2>3
<1> QED BY <1>1, <1>2, <1>3, <1>4, <1>6, <1>7, <1>8, <1>9, <1>10, <1>11, <1>12 DEF Next, Handler

\* A record is in the file once f_sync has written its entry, not before.
LEMMA RecStep ==
  ASSUME IInv, [Next]_vars
  PROVE  RecInv'
<1>0. RecInv /\ rec \in Nat /\ rec \in 0 .. MaxRecords
  BY DEF IInv, CallType
<1>1. CASE NewRecord
  <2>1. rec' = rec + 1 /\ File' = File
    BY <1>1, FileStep, StepNames DEF NewRecord, Grows
  <2>2. ASSUME NEW k \in DOMAIN File
        PROVE  File[k][1] \in Nat /\ File[k][1] <= rec + 1 /\ File[k][1] # rec + 1
    <3>1. File[k][1] \in Nat /\ File[k][1] <= rec
      BY <1>0 DEF RecInv
    <3> QED BY <1>0, <3>1
  <2> QED BY <2>1, <2>2 DEF RecInv
<1>2. CASE ~NewRecord /\ File' = File
  <2>1. /\ rec' = rec
        /\ step' \notin {"idle", "sync"} => step \notin {"idle", "sync"}
        /\ step' = "sync" /\ fs'.wflag => step = "entry" \/ (step = "sync" /\ fs.wflag)
    BY <1>2, Between
  <2> QED BY <1>0, <1>2, <2>1 DEF RecInv
<1>3. CASE Grows
  <2>1. /\ rec' = rec /\ ~(step' \notin {"idle", "sync"} \/ (step' = "sync" /\ fs'.wflag))
        /\ LineLength - left \in 0 .. LineLength
        /\ File' = File \o SubSeq(Line, 1, LineLength - left)
    BY <1>3 DEF Grows
  <2> DEFINE n == LineLength - left
             t == SubSeq(Line, 1, n)
  <2>2. t \in Seq(Bytes) /\ Len(t) = n /\ n \in Nat /\ \A i \in 1 .. n : t[i] = <<rec, i>>
    <3>1. rec \in 1 .. MaxRecords
      BY <1>3, <1>0 DEF Grows, IInv, CallType
    <3>2. Line \in Seq(Bytes) /\ Len(Line) = LineLength /\ \A i \in 1 .. LineLength : Line[i] = <<rec, i>>
      <4>1. Line \in [1 .. LineLength -> Bytes]
        BY <3>1 DEF Line, Bytes
      <4> QED BY <4>1, VolumeAssumption DEF Line
    <3>3. n \in Nat /\ n <= LineLength
      BY <2>1, VolumeAssumption
    <3> HIDE DEF n
    <3> QED BY <3>2, <3>3, VolumeAssumption
  <2>3. File \in Seq(Bytes)
    BY FileBytes
  <2> HIDE DEF n, t
  <2>4. ASSUME NEW k \in DOMAIN File' PROVE File'[k][1] \in Nat /\ File'[k][1] <= rec
    <3>1. File' = File \o t
      BY <2>1 DEF t, n
    <3>2. DOMAIN File' = 1 .. Len(File) + n /\ Len(File) \in Nat
      <4>1. File \o t \in Seq(Bytes) /\ Len(File \o t) = Len(File) + Len(t)
        BY <2>2, <2>3, ConcatProperties
      <4> QED BY <2>2, <2>3, <3>1, <4>1, LenProperties
    <3>3. File'[k] = IF k <= Len(File) THEN File[k] ELSE t[k - Len(File)]
      BY <2>2, <2>3, <3>1, <3>2, ConcatProperties
    <3>4. CASE k <= Len(File)
      <4>1. k \in DOMAIN File
        BY <2>3, <3>2, <3>4
      <4> QED BY <1>0, <3>3, <3>4, <4>1 DEF RecInv
    <3>5. CASE ~(k <= Len(File))
      <4>1. k - Len(File) \in 1 .. n
        BY <2>2, <3>2, <3>5
      <4>2. File'[k] = <<rec, k - Len(File)>>
        BY <2>2, <3>3, <3>5, <4>1
      <4> QED BY <1>0, <4>2
    <3> QED BY <3>4, <3>5
  <2> QED BY <2>1, <2>4 DEF RecInv
<1> QED BY <1>1, <1>2, <1>3, FileStep

-----------------------------------------------------------------------------
(* The line is whole when the handler has returned.                        *)

\* Without an error, and without the lock, only f_sync lets the handler return.
LEMMA ReturnsWell ==
  ASSUME IInv, [Next]_vars, step' = "idle", ~trouble', ~lock'
  PROVE  UNCHANGED vars \/ (Sync /\ ~trouble /\ disk' = disk /\ data' = data /\ rec' = rec)
<1>0. step \in Steps /\ FullInv /\ LockInv
  BY DEF IInv, CallType
<1>1. ASSUME DiskError, step # "idle" PROVE FALSE
  BY <1>0, <1>1, Failure
<1>2. ~PowerLoss /\ ~NewRecord
  BY DEF PowerLoss, NewRecord
<1>3. CASE FlushWindow \/ LoadWindow \/ LoadFails
  <2>1. step # "idle"
    BY <1>3, WindowSteps
  <2>2. ~DiskError
    BY <1>1, <2>1
  <2>3. step' = step
    BY <1>3, <2>2 DEF FlushWindow, LoadWindow, LoadFails, calls
  <2> QED BY <2>1, <2>3
<1>4. CASE FindVolume
  <2>1. step # "idle"
    BY <1>4, Zenon DEF FindVolume
  <2>2. DiskError \/ GoTo("find")
    BY <1>4, Zenon DEF FindVolume
  <2> QED BY <1>1, <2>1, <2>2 DEF GoTo
<1>5. CASE OpenRefused
  <2>1. step = "find" /\ lock' = lock /\ trouble' = trouble /\ OpenFails /\ (lock \/ mode = "create")
    BY <1>5 DEF OpenRefused
  <2> QED BY <1>0, <2>1 DEF FullInv
<1>6. CASE OpenAppend \/ Register
  BY <1>6 DEF OpenAppend, Register, SeekFrom, GoTo
<1>7. CASE Seek
  <2>1. step = "seek" /\ lock' = lock
    BY <1>7 DEF Seek
  <2> QED BY <1>0, <2>1, StepNames DEF LockInv
<1>8. CASE Fill
  BY <1>1, <1>8 DEF Fill, GoTo
<1>9. CASE WriteOn \/ Chain \/ Advance \/ Probe \/ Link
  BY <1>9 DEF WriteOn, Chain, Advance, Probe, Link, GoTo, EndWrite, VolumeFull, Copy, WriteFails,
              Allocated
<1>10. CASE Place
  BY <1>1, <1>10 DEF Place, Copy, GoTo, calls
<1>11. CASE Close
  <2>1. step = "close"
    BY <1>11 DEF Close
  <2>2. ~DiskError
    BY <1>1, <2>1
  <2>3. CASE ~fp.modified /\ UNCHANGED <<data, rec, trouble>>
    BY <1>0, <2>1, <2>3 DEF FullInv
  <2>4. CASE GoTo("entry") \/ UNCHANGED calls
    BY <2>1, <2>4 DEF GoTo, calls
  <2> QED BY <1>11, <2>2, <2>3, <2>4 DEF Close
<1>12. CASE UpdateEntry
  BY <1>12 DEF UpdateEntry, GoTo
<1>13. CASE Sync
  <2>1. step = "sync"
    BY <1>13 DEF Sync
  <2>2. ~DiskError
    BY <1>1, <2>1
  <2> QED BY <1>13, <2>2 DEF Sync
<1> QED BY <1>2, <1>3, <1>4, <1>5, <1>6, <1>7, <1>8, <1>9, <1>10, <1>11, <1>12, <1>13
        DEF Next, Handler

\* f_sync has brought everything to the disk.
LEMMA Synced ==
  ASSUME IInv, step = "sync", ~fs.wflag, ~trouble
  PROVE  Whole \/ VolumeIsFull
<1>0. step \in DataSteps /\ step \in CloseSteps
  BY StepNames
<1>1. View = disk /\ FV = FD /\ VEntry = Entry
  BY DEF IInv, WindowInv, FV, FD, VEntry, Entry
<1>2. /\ VEntry = [exists |-> TRUE, sclust |-> fp.sclust, size |-> fp.fptr]
      /\ ~fp.dirty /\ left \in 0 .. LineLength /\ fp.fptr \in Nat /\ Base >= 0
      /\ \A k \in Base + 1 .. fp.fptr : At(P, LData, k) = <<rec, k - Base>>
  BY <1>0 DEF IInv, Placed, EntryInv, ChainInv, DataInv, CallType, WFil
<1>3. CASE left > 0
  <2>1. \A c \in ClusterSet : FV[c] # Free
    BY <1>0, <1>3 DEF IInv, FullInv
  <2> QED BY <1>1, <2>1 DEF VolumeIsFull, FatOf, FD, Fat
<1>4. CASE left = 0
  <2>1. Base = fp.fptr - LineLength /\ Base \in Nat /\ Base + LineLength = fp.fptr
        /\ Entry.size = fp.fptr /\ Entry.sclust = fp.sclust
    BY <1>1, <1>2, <1>4, VolumeAssumption DEF Base
  <2>2. DiskPath = P /\ LData = data
    BY <1>1, <1>2, <2>1 DEF DiskPath, P, LData
  <2>3. /\ File \in Seq(Bytes) /\ Len(File) = Entry.size
        /\ \A k \in 1 .. Entry.size : File[k] = At(DiskPath, data, k)
    BY FileBytes
  <2>4. ASSUME NEW i \in 1 .. LineLength PROVE File[Base + i] = <<rec, i>>
    <3>1. Base + i \in Base + 1 .. fp.fptr /\ Base + i \in 1 .. Entry.size /\ (Base + i) - Base = i
      BY <2>1, VolumeAssumption
    <3> QED BY <1>2, <2>2, <2>3, <3>1
  <2> DEFINE b == Base
  <2> HIDE DEF b
  <2>5. SubSeq(File, b + 1, b + LineLength) = [i \in 1 .. LineLength |-> File[b + i]]
    <3>1. b \in Nat /\ LineLength \in Nat /\ b + LineLength <= Len(File)
      BY <1>2, <2>1, <2>3, VolumeAssumption DEF b
    <3> QED BY <2>3, <3>1, Within
  <2>6. [i \in 1 .. LineLength |-> File[b + i]] = Line
    BY <2>4 DEF Line, b
  <2>7. Entry.size - LineLength + 1 = b + 1 /\ Entry.size = b + LineLength
        /\ Entry.size >= LineLength
    BY <1>2, <2>1, VolumeAssumption DEF b
  <2> QED BY <2>5, <2>6, <2>7 DEF Whole
<1> QED BY <1>2, <1>3, <1>4, VolumeAssumption

\* The line is whole when the handler has returned.
LEMMA KeptStep ==
  ASSUME IInv, [Next]_vars
  PROVE  KeptUnlessLocked'
<1> SUFFICES ASSUME step' = "idle", rec' > 0, ~trouble', ~lock'
             PROVE  Whole' \/ VolumeIsFull'
  BY DEF KeptUnlessLocked
<1>1. UNCHANGED vars \/ (Sync /\ ~trouble /\ disk' = disk /\ data' = data /\ rec' = rec)
  BY ReturnsWell
<1>2. disk' = disk /\ data' = data /\ rec' = rec
  BY <1>1 DEF vars
<1>3. File' = File
  BY <1>2, FileStays
<1>4. Whole \/ VolumeIsFull
  <2>1. CASE UNCHANGED vars
    BY <2>1 DEF vars, calls, IInv, KeptUnlessLocked
  <2>2. CASE Sync /\ ~trouble
    BY <2>2, Synced DEF Sync
  <2> QED BY <1>1, <2>1, <2>2
<1> QED BY <1>2, <1>3, <1>4 DEF Whole, VolumeIsFull, Entry, FatOf, Line

-----------------------------------------------------------------------------
(* The theorems.                                                           *)

\* Every step keeps the inductive invariant.
LEMMA Inductive ==
  ASSUME IInv, [Next]_vars
  PROVE  IInv'
<1>1. Sound'
  BY SoundStep
<1>2. CallType' /\ Placed' /\ FullInv'
  BY CallStep
<1>3. LockInv' /\ RecInv' /\ KeptUnlessLocked'
  BY LockStep, RecStep, KeptStep
<1> QED BY <1>1, <1>2, <1>3 DEF IInv, Sound

\* A formatted volume without the log file satisfies it.
LEMMA Initially ==
  ASSUME Init
  PROVE  IInv /\ File = <<>>
<1>0. /\ disk = [s \in Sectors |->
                  IF s = DirSector THEN NoEntry
                  ELSE [c \in {c \in ClusterSet : FatSector(c) = s} |-> Free]]
      /\ data = [c \in ClusterSet |-> Blank]
      /\ fs = NotMounted /\ lock = FALSE /\ fp = NoFile
      /\ step = "idle" /\ mode = "append" /\ left = 0 /\ scan = NoScan
      /\ rec = 0 /\ trouble = FALSE
  BY DEF Init
<1>1. fs \in WFatFs /\ fs.winsect = NoSector /\ fs.winsect \notin Sectors /\ fs.wflag = FALSE
  BY <1>0, ImageFacts, ClusterFacts DEF NotMounted, WFatFs
<1>2. DiskType
  <2>1. ASSUME NEW s \in Sectors PROVE disk[s] \in Image(s) /\ disk[s] \in Images
    <3>1. disk[s] \in Image(s)
      <4>1. CASE s = DirSector
        BY <1>0, <4>1, ImageFacts, ClusterFacts
      <4>2. CASE s # DirSector
        <5>1. disk[s] = [c \in {c \in ClusterSet : FatSector(c) = s} |-> Free]
          BY <1>0, <4>2
        <5> QED BY <4>2, <5>1 DEF Image
      <4> QED BY <4>1, <4>2
    <3> QED BY <3>1, ImageFacts
  <2>2. disk \in [Sectors -> Images]
    BY <1>0, <2>1
  <2> QED BY <1>1, <2>1, <2>2 DEF DiskType
<1>3. View = disk
  BY <1>1 DEF View
<1>4. Entry = NoEntry /\ VEntry = NoEntry
  BY <1>0, <1>3, ClusterFacts DEF Entry, VEntry
<1>5. FV = FD /\ \A c \in ClusterSet : FD[c] = Free
  <2>1. FV = FD
    BY <1>3 DEF FV, FD
  <2>2. ASSUME NEW c \in ClusterSet PROVE FD[c] = Free
    <3>1. disk[FatSector(c)] = [d \in {d \in ClusterSet : FatSector(d) = FatSector(c)} |-> Free]
      BY <1>0, SectorFacts
    <3> QED BY <3>1 DEF FD, Fat
  <2> QED BY <2>1, <2>2
<1>6. GoodDisk /\ GoodView /\ ViewGrown
  <2>1. Entry.sclust = 0 /\ Entry.size = 0 /\ VEntry.sclust = 0 /\ VEntry.size = 0
    BY <1>4 DEF NoEntry
  <2>2. Tidy(FD) /\ Grown(FD, FD)
    BY <1>5, ClusterFacts DEF Tidy, Injective, Grown, Free
  <2>3. WellFormed(FD, Entry) /\ WellFormed(FV, VEntry)
    BY <1>5, <2>1, <2>2 DEF WellFormed, Front, Covers
  <2> QED BY <1>5, <2>2, <2>3 DEF GoodDisk, GoodView, ViewGrown
<1>7. WindowInv
  BY <1>1, <1>3 DEF WindowInv
<1>8. CallType
  <2>1. data \in [ClusterSet -> Block]
    <3>1. Blank \in Block
      BY NoFileType DEF NoFile, WFil
    <3> QED BY <1>0, <3>1
  <2>2. rec \in 0 .. MaxRecords
    BY <1>0, VolumeAssumption
  <2> QED BY <1>0, <2>1, <2>2, NoFileType, StepNames DEF CallType
<1>9. LockInv
  BY <1>0, <1>1, StepNames DEF LockInv
<1>10. Placed
  <2>1. step \notin DataSteps /\ step \notin EntryOld /\ step \notin OpenedSteps /\ step \notin WriteSteps
        /\ step = "idle"
    BY <1>0, StepNames
  <2>2. OpenInv BY <1>0, <2>1 DEF OpenInv
  <2>3. ChainInv BY <2>1 DEF ChainInv
  <2>4. EntryInv BY <2>1 DEF EntryInv
  <2>5. DataInv BY <2>1 DEF DataInv
  <2>6. ClustInv BY <2>1 DEF ClustInv
  <2>7. SearchInv BY <2>1 DEF SearchInv
  <2> QED BY <2>2, <2>3, <2>4, <2>5, <2>6, <2>7 DEF Placed
<1>11. FullInv
  BY <1>0, StepNames DEF FullInv
<1>12. File = <<>>
  <2>1. Entry.size = 0
    BY <1>4 DEF NoEntry
  <2>2. File \in Seq(Bytes) /\ Len(File) = 0
    <3>1. File = [k \in 1 .. Entry.size |-> ByteAt(k)]
      BY DEF File
    <3>2. 1 .. Entry.size = {}
      BY <2>1
    <3>3. File \in [1 .. 0 -> Bytes]
      BY <2>1, <3>1, <3>2
    <3> QED BY <3>3
  <2> QED BY <2>2, EmptySeq
<1>13. RecInv
  <2>1. DOMAIN File = {}
    BY <1>12
  <2> QED BY <2>1 DEF RecInv
<1>14. KeptUnlessLocked
  BY <1>0 DEF KeptUnlessLocked
<1> QED BY <1>2, <1>6, <1>7, <1>8, <1>9, <1>10, <1>11, <1>12, <1>13, <1>14 DEF IInv

\* The inductive invariant holds at every step of every behaviour of the
\* handler, of f_open, f_write and f_close and of the power.
THEOREM Invariance == Spec => []IInv
<1>1. Init => IInv
  BY Initially
<1>2. IInv /\ [Next]_vars => IInv'
  BY Inductive
<1> QED BY <1>1, <1>2, PTL DEF Spec

\* A file is never longer than the clusters of its volume.
LEMMA Bounded ==
  ASSUME NEW F, NEW a \in {0} \cup ClusterSet, NEW size \in Nat,
         Tidy(F), Front(F, a), Covers(F, a, size)
  PROVE  size <= Clusters * SectorSize
<1>0. Clusters \in Nat /\ Clusters * SectorSize \in Nat
  BY VolumeAssumption
<1>1. CASE size > 0
  <2>1. Sec(size) \in Nat /\ Off(size) \in 1 .. SectorSize /\ size = Sec(size) * SectorSize + Off(size)
    BY <1>1, BytePlace
  <2>2. a \in ClusterSet
    BY <1>1, FirstCluster
  <2>3. \A c \in ClusterSet : F[c] # a
    BY <2>2, ClusterFacts DEF Front
  <2>4. \A n \in 0 .. Sec(size) : Path(ClusterSet, F, a)[n] \in ClusterSet
    BY <1>1 DEF Covers
  <2>5. Sec(size) + 1 <= Clusters
    BY <2>1, <2>3, <2>4, ClusterFacts, PathBounded DEF Tidy
  <2>6. (Sec(size) + 1) * SectorSize <= Clusters * SectorSize
    BY <1>0, <2>1, <2>5, Sizing
  <2>7. size <= (Sec(size) + 1) * SectorSize
    BY <2>1, Sizing
  <2> QED BY <1>0, <2>1, <2>6, <2>7, Sizing
<1> QED BY <1>0, <1>1

\* It implies the types.
LEMMA Typed ==
  ASSUME IInv
  PROVE  TypeOK
<1>0. DiskType /\ CallType
  BY DEF IInv
<1>1. Clusters * SectorSize \in Nat /\ LineLength <= Clusters * SectorSize
  <2>1. Clusters \in Nat /\ Clusters >= 1 /\ SectorSize \in Nat /\ LineLength \in Nat
        /\ LineLength < SectorSize
    BY VolumeAssumption
  <2>2. Clusters * SectorSize >= 1 * SectorSize /\ Clusters * SectorSize \in Nat
    BY <2>1
  <2> QED BY <2>1, <2>2
<1>2. /\ Entry \in [exists : BOOLEAN, sclust : {0} \cup ClusterSet, size : Nat]
      /\ VEntry \in [exists : BOOLEAN, sclust : {0} \cup ClusterSet, size : Nat]
      /\ fs.winsect \in Sectors => fs.win = View[fs.winsect]
  BY <1>0, ViewType DEF ViewTyped
<1>3. Entry.size \in Sizes /\ VEntry.size \in Sizes
  <2>1. Tidy(FD) /\ Front(FD, Entry.sclust) /\ Covers(FD, Entry.sclust, Entry.size)
        /\ Tidy(FV) /\ Front(FV, VEntry.sclust) /\ Covers(FV, VEntry.sclust, VEntry.size)
    BY DEF IInv, GoodDisk, GoodView, WellFormed
  <2>2. Entry.sclust \in {0} \cup ClusterSet /\ Entry.size \in Nat
        /\ VEntry.sclust \in {0} \cup ClusterSet /\ VEntry.size \in Nat
    BY <1>2
  <2>3. Entry.size <= Clusters * SectorSize /\ VEntry.size <= Clusters * SectorSize
    BY <2>1, <2>2, Bounded
  <2> QED BY <1>1, <2>2, <2>3 DEF Sizes
<1>4. ASSUME NEW s \in Sectors, NEW e \in Image(s), s = DirSector => e.size \in Sizes
      PROVE  e \in Contents(s)
  <2>1. CASE s = DirSector
    <3>1. e \in [exists : BOOLEAN, sclust : {0} \cup ClusterSet, size : Nat] /\ e.size \in Sizes
      BY <1>4, <2>1, ImageFacts
    <3>2. e \in [exists : BOOLEAN, sclust : {0} \cup ClusterSet, size : Sizes]
      BY <3>1
    <3> QED BY <2>1, <3>2 DEF Contents
  <2>2. CASE s # DirSector
    BY <2>2 DEF Contents, Image
  <2> QED BY <2>1, <2>2
<1>5. DOMAIN disk = Sectors /\ \A s \in Sectors : disk[s] \in Contents(s)
  BY <1>0, <1>3, <1>4 DEF DiskType, Entry
<1>6. fs.winsect \in Sectors => fs.win \in Contents(fs.winsect)
  <2>1. fs.winsect = DirSector => fs.win = VEntry
    BY <1>2, ClusterFacts DEF VEntry
  <2> QED BY <1>0, <1>3, <1>4, <2>1 DEF DiskType
<1>7. fp.fptr \in Sizes /\ fp.objsize \in Sizes /\ left \in Sizes
  <2>1. CASE step \in {"idle", "mount", "find"}
    <3>1. fp = NoFile /\ left = 0
      BY <2>1 DEF IInv, Placed, OpenInv
    <3> QED BY <1>1, <3>1 DEF NoFile, Sizes
  <2>2. CASE step \in OpenedSteps
    <3>1. fp.fptr = Entry.size /\ fp.objsize = Entry.size /\ left \in 1 .. fp.fptr
      BY <2>2 DEF IInv, Placed, OpenInv
    <3> QED BY <1>1, <1>3, <3>1 DEF Sizes
  <2>3. CASE step \in DataSteps
    <3>1. /\ Front(FV, fp.sclust) /\ Covers(FV, fp.sclust, fp.fptr) /\ Tidy(FV)
          /\ fp.objsize = fp.fptr /\ left \in 0 .. LineLength
      BY <2>3 DEF IInv, Placed, ChainInv, GoodView, WellFormed
    <3>2. fp.sclust \in {0} \cup ClusterSet /\ fp.fptr \in Nat
      BY <1>0 DEF CallType, WFil
    <3>3. fp.fptr <= Clusters * SectorSize
      BY <3>1, <3>2, Bounded
    <3> QED BY <1>1, <3>1, <3>2, <3>3, VolumeAssumption DEF Sizes
  <2> QED BY <1>0, <2>1, <2>2, <2>3, StepNames DEF CallType
<1>8. fp \in FilRange
  BY <1>0, <1>7 DEF CallType, WFil, FilRange
<1> QED BY <1>0, <1>5, <1>6, <1>7, <1>8 DEF TypeOK, DiskType, CallType, WFatFs

\* Every variable has its type at every step, and no file is longer than
\* its volume.
THEOREM TypeCorrect == Spec => []TypeOK
<1>1. IInv => TypeOK
  BY Typed
<1> QED BY <1>1, Invariance, PTL

\* Where no request failed and no earlier call left the lock, the handler
\* returns with the whole line at the end of the file, or with every
\* cluster taken (f_write, create_chain, f_sync).
THEOREM KeptCorrect == Spec => []KeptUnlessLocked
<1>1. IInv => KeptUnlessLocked
  BY DEF IInv
<1> QED BY <1>1, Invariance, PTL

\* Every step is one of the abstract log, or leaves it as it is.
LEMMA StepRefines ==
  ASSUME IInv, [Next]_vars
  PROVE  [Log!Next]_<<rec, File>>
<1>1. CASE NewRecord
  <2>1. rec' = rec + 1 /\ File' = File
    BY <1>1, FileStep DEF NewRecord, Grows
  <2> QED BY <2>1 DEF Log!Next, Log!NewRecord
<1>2. CASE ~NewRecord /\ File' = File
  BY <1>2, Between
<1>3. CASE Grows
  <2> DEFINE n == LineLength - left
  <2>1. /\ step = "sync" /\ fs.wflag /\ rec' = rec /\ n \in 0 .. LineLength
        /\ File' = File \o SubSeq(Line, 1, n)
    BY <1>3 DEF Grows
  <2> HIDE DEF n
  <2>2. File \in Seq(Bytes)
    BY FileBytes
  <2>3. CASE n = 0
    <3>1. SubSeq(Line, 1, 0) = <<>>
      BY SubSeqEmpty
    <3>2. File' = File
      BY <2>1, <2>2, <2>3, <3>1, ConcatEmptySeq
    <3> QED BY <2>1, <3>2
  <2>4. CASE n # 0
    <3>1. n \in 1 .. LineLength
      BY <2>1, <2>4, VolumeAssumption
    <3>2. rec > 0
      BY <2>1 DEF IInv, CallType
    <3>3. ~Log!Logged(rec)
      BY <2>1 DEF IInv, RecInv, Log!Logged
    <3>4. Log!Line(rec) = Line
      BY DEF Log!Line, Line
    <3>5. Log!Grow
      BY <2>1, <3>1, <3>2, <3>3, <3>4 DEF Log!Grow
    <3> QED BY <3>5 DEF Log!Next
  <2> QED BY <2>3, <2>4
<1> QED BY <1>1, <1>2, <1>3, FileStep

\* Whatever fails, and whenever the power is lost, the file on the disk is
\* an append log: f_sync writes the entry after the FAT and the data, and
\* nothing f_write changes before that is part of the file.
THEOREM Refinement == Spec => AppendLogSpec
<1>1. Init => Log!Init
  BY Initially DEF Init, Log!Init
<1>2. IInv /\ [Next]_vars => [Log!Next]_<<rec, File>>
  BY StepRefines
<1> QED BY <1>1, <1>2, Invariance, PTL DEF Spec, AppendLogSpec, Log!Spec

=============================================================================
