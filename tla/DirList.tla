------------------------------ MODULE DirList -------------------------------
(***************************************************************************)
(* The list of a directory: makeFileList scans the directory's entries and *)
(* notes the places of those to be shown, sortListEntryPoint arranges      *)
(* them, and getListEntryPoint finds an item's entry on the card again,    *)
(* with the help of a cache of the last cluster it has walked to.          *)
(*                                                                         *)
(* The list is made and sorted in a handler, or at the start.  The main    *)
(* program looks for entries too, and there a handler may come in between. *)
(* Items are numbered from 0, as in the code; item k is list[k + 1].       *)
(*                                                                         *)
(* A directory is a record: its entries in the order of its clusters, the  *)
(* clusters, and whether it is the root.  An entry is a file, a directory, *)
(* a part of a long name that belongs to a later entry, or another one:    *)
(* deleted, hidden, a volume's name.  Names are numbers in their order.    *)
(***************************************************************************)
EXTENDS Integers, Sequences

CONSTANTS
  Cards,               (* sets of directories that a card may have           *)
  ENTRIES, SECTORS,    (* entries of a sector, sectors of a cluster          *)
  PARTS                (* parts of a long name that are read                 *)

PER == ENTRIES * SECTORS
Kinds == {"dir", "file", "lfn", "other"}

(* All directories but the root begin with "." and "..". *)
IsDirectory(d) ==
  /\ d.chain \in Seq(Nat) /\ d.chain # <<>> /\ d.root \in BOOLEAN
  /\ d.entries \in Seq([kind : Kinds, name : Nat, ext : Nat, seq : Nat, last : BOOLEAN])
  /\ \A k, l \in DOMAIN d.chain : d.chain[k] = d.chain[l] => k = l
  /\ Len(d.entries) < Len(d.chain) * PER
  /\ d.root => Len(d.chain) = 1
  /\ ~d.root => Len(d.entries) >= 2 /\ d.entries[2].kind = "dir"

ASSUME CardAssumption ==
  /\ {ENTRIES, SECTORS, PARTS} \subseteq Nat \ {0}
  /\ \A card \in Cards : \A d \in card : IsDirectory(d)

VARIABLES
  card,                (* the card that is in                                *)
  dir,                 (* the directory on the screen                        *)
  list,                (* pfileList: numbers of entries                      *)
  sort,                (* filer_conf.sort                                    *)
  cache,               (* fat.cache                                          *)
  phase,               (* how far the list is; "idle": it is made            *)
  i, idx_dir, directries, archives,      (* of sortListEntryPoint            *)
  exts,                (* its list of items with their extensions            *)
  area,                (* of sortListEntryPointSpecifiedArea                 *)
  reader,              (* getListEntryPoint of the main program              *)
  (* Observers: *)
  mixed,               (* a list was made while the main program walked      *)
  found                (* what the last look found, alone: undisturbed       *)

counters == <<i, idx_dir, directries, archives>>
sorting == <<phase, counters, exts, area>>
vars == <<card, dir, list, sort, cache, sorting, reader, mixed, found>>

SETTINGS == -1         (* 0xffff, the item of the settings                   *)

Blank == [kind |-> "other", name |-> 0, ext |-> 0, seq |-> 0, last |-> FALSE]
Entry(e) == dir.entries[e + 1]

(* What is at a place of a cluster.  Other clusters have no names in them.  *)
EntryAt(cluster, off) ==
  IF \E k \in DOMAIN dir.chain : /\ dir.chain[k] = cluster
                                 /\ (k - 1) * PER + off < Len(dir.entries)
  THEN Entry(((CHOOSE k \in DOMAIN dir.chain : dir.chain[k] = cluster) - 1) * PER + off)
  ELSE Blank

NoCache == [set |-> FALSE, n |-> 0, cluster |-> 0]
NoArea == [lo |-> 0, hi |-> 0, j |-> 0, next |-> "idle"]
NoReader == [pc |-> "no", e |-> 0, n |-> 0, way |-> <<>>, cluster |-> 0, alone |-> TRUE]
NoFound == [e |-> 0, cluster |-> 0, alone |-> FALSE]

Shown(d) == IF d.root THEN <<SETTINGS>> ELSE <<>>

Init ==
  /\ card \in Cards /\ dir \in {d \in card : d.root}
  /\ list = Shown(dir) /\ sort \in BOOLEAN /\ cache = NoCache
  /\ phase = "scan" /\ i = 0 /\ idx_dir = 0 /\ directries = 0 /\ archives = 0
  /\ exts = <<>> /\ area = NoArea
  /\ reader = NoReader /\ mixed = FALSE /\ found = NoFound

-----------------------------------------------------------------------------
(* Finding an entry *)

Walked(n) == [set |-> TRUE, n |-> n, cluster |-> dir.chain[n + 1]]

(* getListEntryPoint.  The first cluster is not walked to, and leaves the    *)
(* cache as it is.                                                         *)
Look(c, e) ==
  LET n == e \div PER
      hit == c.set /\ c.n = n
  IN [cluster |-> IF hit THEN c.cluster ELSE dir.chain[n + 1],
      cache |-> IF n = 0 \/ hit THEN c ELSE Walked(n)]

Read(c, e) == EntryAt(Look(c, e).cluster, e % PER)

(* The parts of a long name are before its entry, the first one just before *)
(* it.  In sectors before the entry's own they are read as if the          *)
(* directory's clusters followed the first one.                            *)
Part(c, e, p) ==
  IF (e - p) \div ENTRIES = e \div ENTRIES
  THEN EntryAt(Look(c, e).cluster, (e - p) % PER)
  ELSE EntryAt(dir.chain[1] + (e - p) \div PER, (e - p) % PER)

IsPart(c, e, p) == Part(c, e, p).kind = "lfn" /\ Part(c, e, p).seq = p

setLFNname(c, e) ==
  \E m \in 1 .. PARTS :
    /\ \A p \in 1 .. m : IsPart(c, e, p)
    /\ \A p \in 1 .. m - 1 : ~Part(c, e, p).last
    /\ Part(c, e, m).last \/ m = PARTS

setFileName(c, e) == IF setLFNname(c, e) THEN Part(c, e, 1).name ELSE Read(c, e).name

-----------------------------------------------------------------------------
(* makeFileList *)

(* Mutant: the cache of the directory before is kept. *)
OpenKeepsCache(d) ==
  /\ phase = "idle" /\ dir' = d /\ list' = Shown(d) /\ sort' \in BOOLEAN
  /\ phase' = "scan" /\ i' = 0
  /\ mixed' = (reader.pc = "walk") /\ reader' = [reader EXCEPT !.alone = FALSE]
  /\ found' = NoFound
  /\ UNCHANGED <<card, cache, idx_dir, directries, archives, exts, area>>

(* Another directory is entered, or the list is made again after the        *)
(* settings, which may have changed the order.                             *)
Open(d) ==
  /\ phase = "idle" /\ dir' = d /\ list' = Shown(d) /\ sort' \in BOOLEAN
  /\ phase' = "scan" /\ i' = 0
  /\ cache' = [cache EXCEPT !.set = FALSE, !.n = 0]
  /\ mixed' = (reader.pc = "walk") /\ reader' = [reader EXCEPT !.alone = FALSE]
  /\ found' = NoFound
  /\ UNCHANGED <<card, idx_dir, directries, archives, exts, area>>

(* The first entry of a directory is itself. *)
Visible(d, e) == d.entries[e + 1].kind \in {"dir", "file"} /\ (e > 0 \/ d.root)

Scan ==
  /\ phase = "scan"
  /\ IF i < Len(dir.entries)
     THEN /\ list' = IF Visible(dir, i) THEN Append(list, i) ELSE list
          /\ i' = i + 1
          /\ UNCHANGED <<phase, directries, archives>>
     ELSE /\ phase' = IF Len(list) <= 2 THEN "idle" ELSE "count"
          /\ i' = IF dir.root THEN 1 ELSE 0
          /\ directries' = 0 /\ archives' = 0
          /\ UNCHANGED list
  /\ UNCHANGED <<card, dir, sort, cache, idx_dir, exts, area, reader, mixed, found>>

-----------------------------------------------------------------------------
(* sortListEntryPointSpecifiedArea *)

SortArea(idx, count, next) ==
  IF sort /\ count > 1
  THEN /\ area' = [lo |-> idx, hi |-> idx + count - 1, j |-> idx, next |-> next]
       /\ phase' = "area"
  ELSE phase' = next /\ UNCHANGED area

Swap(j, k) == [list EXCEPT ![j + 1] = list[k + 1], ![k + 1] = list[j + 1]]

(* Mutant: the last pair of a pass is left out. *)
BubbleShort ==
  LET j == area.j
      c == Look(cache, list[j + 1]).cache
  IN /\ phase = "area"
     /\ list' = IF setFileName(cache, list[j + 1]) > setFileName(c, list[j + 2])
                THEN Swap(j, j + 1) ELSE list
     /\ IF j + 2 < area.hi
        THEN area' = [area EXCEPT !.j = @ + 1] /\ UNCHANGED phase
        ELSE IF area.hi - 1 > area.lo
        THEN area' = [area EXCEPT !.hi = @ - 1, !.j = area.lo] /\ UNCHANGED phase
        ELSE area' = NoArea /\ phase' = area.next
     /\ cache' = Look(c, list[j + 2]).cache
     /\ UNCHANGED <<card, dir, sort, counters, exts, reader, mixed, found>>

Bubble ==
  LET j == area.j
      c == Look(cache, list[j + 1]).cache
  IN /\ phase = "area"
     /\ list' = IF setFileName(cache, list[j + 1]) > setFileName(c, list[j + 2])
                THEN Swap(j, j + 1) ELSE list
     /\ IF j + 1 < area.hi
        THEN area' = [area EXCEPT !.j = @ + 1] /\ UNCHANGED phase
        ELSE IF area.hi - 1 > area.lo
        THEN area' = [area EXCEPT !.hi = @ - 1, !.j = area.lo] /\ UNCHANGED phase
        ELSE area' = NoArea /\ phase' = area.next
     /\ cache' = Look(c, list[j + 2]).cache
     /\ UNCHANGED <<card, dir, sort, counters, exts, reader, mixed, found>>

-----------------------------------------------------------------------------
(* sortListEntryPoint *)

Count ==
  /\ phase = "count"
  /\ IF i < Len(list)
     THEN /\ IF Read(cache, list[i + 1]).kind = "dir"
             THEN directries' = directries + 1 /\ UNCHANGED archives
             ELSE archives' = archives + 1 /\ UNCHANGED directries
          /\ cache' = Look(cache, list[i + 1]).cache
          /\ i' = i + 1
          /\ UNCHANGED <<phase, idx_dir>>
     ELSE /\ phase' = "collect"
          /\ i' = Len(Shown(dir)) /\ idx_dir' = Len(Shown(dir))
          /\ directries' = directries + Len(Shown(dir))
          /\ UNCHANGED <<archives, cache>>
  /\ UNCHANGED <<card, dir, list, sort, exts, area, reader, mixed, found>>

(* Mutant: a directory takes the place, and what was there is lost. *)
CollectOver ==
  /\ phase = "collect"
  /\ IF i < Len(list)
     THEN LET dirHere == Read(cache, list[i + 1]).kind = "dir"
          IN /\ list' = IF dirHere THEN [list EXCEPT ![idx_dir + 1] = list[i + 1]] ELSE list
             /\ idx_dir' = IF dirHere THEN idx_dir + 1 ELSE idx_dir
             /\ cache' = Look(cache, list[i + 1]).cache
             /\ i' = IF dirHere /\ idx_dir' >= directries THEN Len(list) ELSE i + 1
             /\ UNCHANGED <<phase, area>>
     ELSE /\ SortArea(1, directries - 1, "exts")
          /\ i' = directries
          /\ UNCHANGED <<list, idx_dir, cache>>
  /\ UNCHANGED <<card, dir, sort, directries, archives, exts, reader, mixed, found>>

(* Directories are exchanged to the top.  Then those below the first item,  *)
(* the settings or "..", are sorted.                                       *)
Collect ==
  /\ phase = "collect"
  /\ IF i < Len(list)
     THEN LET dirHere == Read(cache, list[i + 1]).kind = "dir"
          IN /\ list' = IF dirHere THEN Swap(idx_dir, i) ELSE list
             /\ idx_dir' = IF dirHere THEN idx_dir + 1 ELSE idx_dir
             /\ cache' = Look(cache, list[i + 1]).cache
             /\ i' = IF dirHere /\ idx_dir' >= directries THEN Len(list) ELSE i + 1
             /\ UNCHANGED <<phase, area>>
     ELSE /\ SortArea(1, directries - 1, "exts")
          /\ i' = directries
          /\ UNCHANGED <<list, idx_dir, cache>>
  /\ UNCHANGED <<card, dir, sort, directries, archives, exts, reader, mixed, found>>

(* The files are listed with their extensions ... *)
MakeExts ==
  /\ phase = "exts"
  /\ IF archives <= 1
     THEN phase' = "idle" /\ UNCHANGED <<i, exts, area, cache>>
     ELSE IF i < Len(list)
     THEN /\ exts' = Append(exts, [id |-> list[i + 1],
                                   name |-> Read(cache, list[i + 1]).ext])
          /\ cache' = Look(cache, list[i + 1]).cache
          /\ i' = i + 1
          /\ UNCHANGED <<phase, area>>
     ELSE /\ phase' = "extension"
          /\ area' = [lo |-> 0, hi |-> Len(exts) - 1, j |-> 0, next |-> "extension"]
          /\ UNCHANGED <<i, exts, cache>>
  /\ UNCHANGED <<card, dir, list, sort, idx_dir, directries, archives, reader, mixed, found>>

(* ... this list is sorted by extension, and put in their place. *)
SortExts ==
  LET j == area.j
      swapped == [exts EXCEPT ![j + 1] = exts[j + 2], ![j + 2] = exts[j + 1]]
  IN /\ phase = "extension"
     /\ IF j < area.hi
        THEN /\ exts' = IF exts[j + 1].name > exts[j + 2].name THEN swapped ELSE exts
             /\ area' = [area EXCEPT !.j = @ + 1]
             /\ UNCHANGED <<list, phase, i>>
        ELSE IF area.hi > 0
        THEN area' = [area EXCEPT !.hi = @ - 1, !.j = 0] /\ UNCHANGED <<list, phase, i, exts>>
        ELSE /\ list' = SubSeq(list, 1, directries) \o [k \in DOMAIN exts |-> exts[k].id]
             /\ phase' = "groups" /\ i' = directries /\ area' = NoArea
             /\ UNCHANGED exts
     /\ UNCHANGED <<card, dir, sort, cache, idx_dir, directries, archives, reader, mixed, found>>

(* Files of one extension are sorted by name. *)
Groups ==
  LET first == i - directries + 1
      Same(k) == \A l \in first .. k : exts[l].name = exts[first].name
      size == CHOOSE n \in 1 .. Len(exts) - first + 1 :
                /\ Same(first + n - 1)
                /\ n < Len(exts) - first + 1 => ~Same(first + n)
  IN /\ phase = "groups"
     /\ IF i < Len(list)
        THEN SortArea(i, size, "groups") /\ i' = i + size /\ UNCHANGED exts
        ELSE phase' = "idle" /\ exts' = <<>> /\ UNCHANGED <<i, area>>
     /\ UNCHANGED <<card, dir, list, sort, cache, idx_dir, directries, archives,
                    reader, mixed, found>>

-----------------------------------------------------------------------------
(* Looks at the finished list *)

Items == {k \in 0 .. Len(list) - 1 : list[k + 1] # SETTINGS}

(* A handler draws the list or enters an item. *)
HandlerLooks(k) ==
  LET e == list[k + 1]
  IN /\ phase = "idle"
     /\ cache' = Look(cache, e).cache
     /\ found' = [e |-> e, cluster |-> Look(cache, e).cluster,
                  alone |-> ~mixed /\ reader.pc # "walk"]
     /\ reader' = [reader EXCEPT !.alone = @ /\ reader.pc # "hit"]
     /\ UNCHANGED <<card, dir, list, sort, sorting, mixed>>

(* The main program opens a file.  It decides for the cache or for the way  *)
(* from the first cluster ...                                              *)
MainLooks(k) ==
  LET e == list[k + 1]
      n == e \div PER
  IN /\ phase = "idle" /\ reader.pc = "no"
     /\ reader' = [pc |-> IF cache.set /\ cache.n = n THEN "hit"
                          ELSE IF n = 0 THEN "read" ELSE "walk",
                   e |-> e, n |-> n, way |-> SubSeq(dir.chain, 2, n + 1),
                   cluster |-> dir.chain[1], alone |-> ~mixed]
     /\ UNCHANGED <<card, dir, list, sort, cache, sorting, mixed, found>>

MainHits ==
  /\ phase = "idle" /\ reader.pc = "hit"
  /\ reader' = [reader EXCEPT !.pc = "read", !.cluster = cache.cluster]
  /\ UNCHANGED <<card, dir, list, sort, cache, sorting, mixed, found>>

(* ... notes on the way, cluster by cluster, where it is ...                *)
MainWalks ==
  /\ phase = "idle" /\ reader.pc = "walk"
  /\ cache' = [set |-> TRUE, n |-> reader.n, cluster |-> Head(reader.way)]
  /\ reader' = [reader EXCEPT !.pc = IF Len(reader.way) > 1 THEN "walk" ELSE "read",
                 !.cluster = Head(reader.way), !.way = Tail(@)]
  /\ UNCHANGED <<card, dir, list, sort, sorting, mixed, found>>

(* ... and reads the sector. *)
MainReads ==
  /\ phase = "idle" /\ reader.pc = "read"
  /\ found' = [e |-> reader.e, cluster |-> reader.cluster, alone |-> reader.alone]
  /\ reader' = NoReader
  /\ UNCHANGED <<card, dir, list, sort, cache, sorting, mixed>>

-----------------------------------------------------------------------------
Making == Scan \/ Count \/ Collect \/ MakeExts \/ SortExts \/ Groups \/ Bubble

Next ==
  \/ Making
  \/ \E d \in card : Open(d)
  \/ \E k \in Items : HandlerLooks(k) \/ MainLooks(k)
  \/ MainHits \/ MainWalks \/ MainReads

Spec == Init /\ [][Next]_vars

-----------------------------------------------------------------------------
(* Properties *)

(* From the end of the scan on, through all exchanges, the list has every   *)
(* entry that is to be shown, and each once (makeFileList,                 *)
(* sortListEntryPoint).                                                    *)
ListedOnce ==
  phase # "scan" =>
    /\ {list[k] : k \in DOMAIN list} =
         {e \in 0 .. Len(dir.entries) - 1 : Visible(dir, e)}
           \union (IF dir.root THEN {SETTINGS} ELSE {})
    /\ \A k, l \in DOMAIN list : list[k] = list[l] => k = l

(* What an entry is called: what its long name says, of which PARTS parts   *)
(* are looked at.                                                          *)
LongName(e) ==
  \E m \in 1 .. PARTS :
    /\ m <= e
    /\ \A p \in 1 .. m : Entry(e - p).kind = "lfn" /\ Entry(e - p).seq = p
    /\ Entry(e - m).last \/ m = PARTS

OwnName(e) == IF LongName(e) THEN Entry(e - 1).name ELSE Entry(e).name

Followed == \A k \in DOMAIN dir.chain : dir.chain[k] = dir.chain[1] + k - 1

ByName(e, f) == sort /\ Followed => OwnName(e) <= OwnName(f)

(* The settings or ".." come first, then the directories, then the files by *)
(* extension, each of them by name.  Where a long name goes over the end   *)
(* of a cluster that is not followed by the directory's next one, another  *)
(* is taken for it (sortListEntryPoint, setLFNname).                       *)
Before(e, f) ==
  IF Entry(e).kind = "dir" /\ Entry(f).kind = "dir"
  THEN ByName(e, f)
  ELSE /\ Entry(e).kind = "dir" \/ Entry(f).kind = "file"
       /\ Entry(e).kind = "file" =>
            \/ Entry(e).ext < Entry(f).ext
            \/ Entry(e).ext = Entry(f).ext /\ ByName(e, f)

Arranged ==
  phase = "idle" =>
    /\ list[1] = IF dir.root THEN SETTINGS ELSE 1
    /\ \A k, l \in 2 .. Len(list) : k < l => Before(list[k], list[l])

(* An item's entry is looked for in the cluster it is in, whatever was      *)
(* looked for before.  Not when a handler looks, or makes another list,    *)
(* while the main program is on its way to an entry; and not with what     *)
(* that walk has noted about the old list (getListEntryPoint).             *)
EntryFound == found.alone => found.cluster = dir.chain[found.e \div PER + 1]
=============================================================================
