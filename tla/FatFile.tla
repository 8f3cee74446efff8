------------------------------ MODULE FatFile ------------------------------
(***************************************************************************)
(* Reading a file: my_fopen, my_fseek and my_fread of fat.c.  A file is a  *)
(* chain of clusters.  my_fopen reads the chain in the FAT once and keeps  *)
(* its gaps, from which getNClusterCache finds any later cluster.          *)
(*                                                                         *)
(* A byte of the data area is its address; what a read leaves in the       *)
(* buffer of the caller is the sequence of the addresses it came from.     *)
(* Sectors are counted from userDataSector.                                *)
(***************************************************************************)
EXTENDS Integers, Sequences, FiniteSets

CONSTANTS
  Chains,             (* the chains of clusters a file may have              *)
  SECTOR,             (* bytes per sector: 512                               *)
  sectorsPerCluster,
  FATBLOCK,           (* entries of the FAT in clusterBuf: 512 or 256        *)
  MaxRead             (* the largest buffer of a caller                      *)

bytesPerCluster == SECTOR * sectorsPerCluster

(* Clusters are numbered from 2; a chain visits none of them twice. *)
ASSUME DiskAssumption ==
  /\ {SECTOR, sectorsPerCluster, FATBLOCK, MaxRead} \subseteq Nat \ {0}
  /\ FATBLOCK <= bytesPerCluster
  /\ \A c \in Chains :
       /\ c \in Seq(Nat \ {0, 1}) /\ c # <<>>
       /\ \A i, j \in DOMAIN c : c[i] = c[j] => i = j

VARIABLES
  chain, fileSize,    (* the file: its entry of the directory and its FAT    *)
  gap,                (* fp->cache.p_cluster_gap                             *)
  file,               (* the rest of fp, or Closed                           *)
  from, buf           (* observers: where the last read began, what it read  *)

fileVars == <<chain, fileSize, gap, file, from, buf>>

Closed == [seekBytes |-> -1]
IsOpen == file # Closed

clusterOrg == chain[1]
DataSector(cluster) == (cluster - 2) * sectorsPerCluster

Least(a, b) == IF a <= b THEN a ELSE b

(* n bytes of the data area, from byte `first` of a sector on. *)
Bytes(sector, first, n) == [i \in 1 .. n |-> sector * SECTOR + first + i - 1]

-----------------------------------------------------------------------------
(* my_fopen *)

Breaks(i) == chain[i + 1] # chain[i] + 1

(* Mutant: as many rounds as the file has blocks of the FAT. *)
ScansFewer ==
  fileSize \div (bytesPerCluster * FATBLOCK) + 1

(* The FAT is scanned in rounds; each ends at a gap or at the end of a     *)
(* block of it.                                                            *)
Scans == fileSize \div (bytesPerCluster \div FATBLOCK) + 1

RoundsBefore(i) ==
  Cardinality({k \in 1 .. i - 1 : Breaks(k) \/ (chain[k] + 1) % FATBLOCK = 0})

Found == {i \in 1 .. Len(chain) - 1 : Breaks(i) /\ RoundsBefore(i) < Scans}

Ascending(S) ==
  CHOOSE s \in [1 .. Cardinality(S) -> S] : \A j, k \in DOMAIN s : j < k => s[j] < s[k]

GapsFound ==
  LET at == Ascending(Found)
  IN  [j \in 1 .. Cardinality(Found) |->
         [pre |-> chain[at[j]], post |-> chain[at[j] + 1]]]

my_fopen ==
  /\ ~IsOpen
  /\ gap' = GapsFound
  /\ file' = [cluster |-> clusterOrg, clusterCnt |-> 0, seekSector |-> 0,
              seekBytes |-> 0, dataSector |-> DataSector(clusterOrg)]
  /\ from' = 0 /\ buf' = <<>>
  /\ UNCHANGED <<chain, fileSize>>

my_fclose ==
  /\ IsOpen
  /\ file' = Closed /\ gap' = <<>> /\ from' = 0 /\ buf' = <<>>
  /\ UNCHANGED <<chain, fileSize>>

-----------------------------------------------------------------------------
(* getNClusterCache: the cluster `count` clusters behind `cluster` *)

(* The gap that follows `cluster`, the last one behind it. *)
FirstGap(cluster) ==
  LET start(i) == IF i = 1 THEN clusterOrg ELSE gap[i - 1].post
  IN  CHOOSE i \in 1 .. Len(gap) :
        /\ i = Len(gap) \/ (start(i) <= cluster /\ cluster <= gap[i].pre)
        /\ \A j \in 1 .. i - 1 : ~(start(j) <= cluster /\ cluster <= gap[j].pre)

(* From gap to gap, as long as there are clusters left to go.  (The         *)
(* subtraction is unsigned: behind the last gap `avail` is larger than any *)
(* count.)                                                                 *)
Walk(cluster, count) ==
  LET first == FirstGap(cluster)
      start(i) == IF i = first THEN cluster ELSE gap[i - 1].post
      avail(i) == gap[i].pre - start(i) + 1
      left[i \in first .. Len(gap) + 1] ==
        IF i = first THEN count ELSE left[i - 1] - avail(i - 1)
      Ends(i) == i > Len(gap) \/ avail(i) < 0 \/ left[i] < avail(i)
      stop == CHOOSE i \in first .. Len(gap) + 1 :
                Ends(i) /\ \A j \in first .. i - 1 : ~Ends(j)
  IN  start(stop) + left[stop]

getNClusterCache(cluster, count) ==
  IF gap = <<>> \/ count = 0 THEN cluster + count ELSE Walk(cluster, count)

-----------------------------------------------------------------------------
(* my_fseek *)

(* The position `bytes`, counted from the cluster f is at. *)
Settle(f, bytes) ==
  LET seekCluster == bytes \div bytesPerCluster
      g == [f EXCEPT !.seekBytes = bytes,
                     !.seekSector = (bytes \div SECTOR) % sectorsPerCluster]
      cluster == getNClusterCache(f.cluster, seekCluster - f.clusterCnt)
  IN  IF seekCluster >= f.clusterCnt
      THEN [g EXCEPT !.cluster = cluster, !.clusterCnt = seekCluster,
                     !.dataSector = DataSector(cluster)]
      ELSE g

Rewound(f) == [f EXCEPT !.cluster = clusterOrg, !.clusterCnt = 0]

SEEK_SET(f, offset) ==
  IF offset = 0
  THEN [Rewound(f) EXCEPT !.seekBytes = 0, !.seekSector = 0,
                          !.dataSector = DataSector(clusterOrg)]
  ELSE Settle(Rewound(f), offset)

SEEK_CUR(f, offset) ==
  Settle(IF offset < 0 THEN Rewound(f) ELSE f, f.seekBytes + offset)

(* One byte further back than the end of the file. *)
SEEK_END(f, offset) == Settle(Rewound(f), fileSize + offset - 1)

(* The callers seek to places in the file or to its end. *)
my_fseek(bytes) ==
  /\ IsOpen
  /\ \/ file' = SEEK_SET(file, bytes)
     \/ file' = SEEK_CUR(file, bytes - file.seekBytes)
     \/ file' = SEEK_END(file, bytes - (fileSize - 1))
  /\ from' = bytes /\ buf' = <<>>
  /\ UNCHANGED <<chain, fileSize, gap>>

-----------------------------------------------------------------------------
(* my_fread.  Each operator gives the file after it and the bytes it read.  *)

(* At most a cluster of sectors, in one or two parts. *)
readFileSectors(f, numSectors) ==
  LET avail == sectorsPerCluster - (f.seekSector % sectorsPerCluster)
      here == Least(numSectors, avail)
      next == DataSector(getNClusterCache(f.cluster, 1))
  IN  <<SEEK_CUR(f, numSectors * SECTOR),
        Bytes(DataSector(f.cluster) + f.seekSector, 0, here * SECTOR)
          \o Bytes(next, 0, (numSectors - here) * SECTOR)>>

(* Up to the end of the sector. *)
InSector(f, n) ==
  <<SEEK_CUR(f, n), Bytes(f.dataSector + f.seekSector, f.seekBytes % SECTOR, n)>>

LeftInSector(f) == SECTOR - (f.seekBytes % SECTOR)

(* A sector at most, from two of them.  The sector behind the last of a    *)
(* cluster is not taken for one of the next cluster.                       *)
TwoSectors(f, n) ==
  LET second == IF f.seekSector + 1 > sectorsPerCluster
                THEN DataSector(getNClusterCache(f.cluster, 1))
                ELSE f.dataSector + f.seekSector + 1
  IN  <<SEEK_CUR(f, n),
        InSector(f, LeftInSector(f))[2] \o Bytes(second, 0, n - LeftInSector(f))>>

(* One read after the other. *)
Then(read, next) == <<next[1], read[2] \o next[2]>>

(* Whole clusters, whole sectors, and what is left of n bytes. *)
Whole(head, n) ==
  LET cnt == (n - Len(head[2])) \div bytesPerCluster
      rest == (n - Len(head[2])) % bytesPerCluster
      clusters[k \in 0 .. cnt] ==
        IF k = 0 THEN head
        ELSE Then(clusters[k - 1], readFileSectors(clusters[k - 1][1], sectorsPerCluster))
      sectors == Then(clusters[cnt], readFileSectors(clusters[cnt][1], rest \div SECTOR))
  IN  IF rest % SECTOR = 0 THEN sectors
      ELSE Then(sectors, InSector(sectors[1], rest % SECTOR))

(* Mutant: the sector the read begins in is taken for a whole one. *)
ManySectorsUnaligned(f, n) == Whole(<<f, <<>>>>, n)

(* The rest of this sector first. *)
ManySectors(f, n) ==
  Whole(IF LeftInSector(f) = SECTOR THEN <<f, <<>>>>
        ELSE InSector(f, LeftInSector(f)), n)

ReadParts(f, n) ==
  CASE n <= LeftInSector(f) -> InSector(f, n)
    [] n > LeftInSector(f) /\ n <= SECTOR -> TwoSectors(f, n)
    [] OTHER -> ManySectors(f, n)

(* No more than the rest of the file is read. *)
Clamped(n) == Least(n, fileSize - file.seekBytes)

my_fread(n) ==
  /\ IsOpen
  /\ LET r == ReadParts(file, Clamped(n))
     IN  file' = r[1] /\ buf' = r[2]
  /\ from' = file.seekBytes
  /\ UNCHANGED <<chain, fileSize, gap>>

-----------------------------------------------------------------------------
FileInit ==
  /\ chain \in Chains
  /\ fileSize \in (Len(chain) - 1) * bytesPerCluster + 1 .. Len(chain) * bytesPerCluster
  /\ gap = <<>> /\ file = Closed /\ from = 0 /\ buf = <<>>

FileNext ==
  \/ my_fopen \/ my_fclose
  \/ \E bytes \in 0 .. fileSize : my_fseek(bytes)
  \/ \E n \in 1 .. MaxRead : my_fread(n)

FileSpec == FileInit /\ [][FileNext]_fileVars

-----------------------------------------------------------------------------
(* Properties *)

(* Where byte b of the file is: what the FAT says. *)
Place(b) ==
  DataSector(chain[b \div bytesPerCluster + 1]) * SECTOR + (b % bytesPerCluster)

Correct == \A i \in 1 .. Len(buf) : buf[i] = Place(from + i - 1)

(* Whatever seeks and reads came before, the cluster, sector and offset    *)
(* that fp holds are those of its position in the file: the gaps my_fopen  *)
(* found lead to the same cluster as the chain in the FAT.                 *)
PositionIsTrue ==
  IsOpen /\ file.seekBytes < fileSize =>
    /\ file.clusterCnt = file.seekBytes \div bytesPerCluster
    /\ file.cluster = chain[file.clusterCnt + 1]
    /\ (file.dataSector + file.seekSector) * SECTOR + (file.seekBytes % SECTOR)
         = Place(file.seekBytes)

(* A read gives the bytes of the file, in their order, across sectors,     *)
(* clusters and gaps -- except a read of no more than a sector that begins *)
(* in the last sector of a cluster and ends behind a gap.                  *)
ReadsFile ==
  \/ Correct
  \/ LET c == from \div bytesPerCluster + 1
     IN  /\ Len(buf) <= SECTOR
         /\ (from + Len(buf) - 1) \div bytesPerCluster = c
         /\ Breaks(c)

(* A read that comes to the end of a cluster goes on in the next cluster    *)
(* of the file (the comments at fat.c:857, 868 and 895).                   *)
ReadsOnInNextCluster == Correct
=============================================================================
