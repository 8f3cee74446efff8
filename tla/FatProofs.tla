----------------------------- MODULE FatProofs -----------------------------
(***************************************************************************)
(* Proofs about the two parts of fat.c: the lists (DirList), for every     *)
(* card and all sizes of sectors and clusters, and the files (FatFile),    *)
(* for every chain of clusters and every size of sectors, clusters and     *)
(* blocks of the FAT.                                                      *)
(*                                                                         *)
(* DirList.  A list holds a set if its places are that set, each once.     *)
(* The scan keeps it so by adding entries in order; the sort only          *)
(* exchanges places of the list, or of the list of extensions, and the     *)
(* invariant says between which bounds it does so in each phase.  That the *)
(* finished list is in order is proved on top of it: the names are read    *)
(* rightly, the directories are counted and brought to the top, and each   *)
(* pass of a bubble sort carries the largest item that is left to its end. *)
(*                                                                         *)
(* FatFile.  my_fopen finds every gap of the chain: it makes at least as   *)
(* many rounds as there are clusters (FoundAll).  Between two gaps the     *)
(* clusters of the file follow each other on the card, and since a chain   *)
(* visits none twice, no cluster of one such run is in another             *)
(* (InSegment): so the walk from gap to gap comes to the cluster of the    *)
(* chain (ClusterIs).  Hence every seek leaves the file at its position    *)
(* (SettleIs), and each part of a read, begun at one, gives the next bytes *)
(* of the file and ends at one (WholeDid, TwoSectorsRead).  The invariant  *)
(* FInv says just that.                                                    *)
(***************************************************************************)
EXTENDS DirList, FatFile, SequenceTheorems, FiniteSetTheorems, WellFoundedInduction,
        TLAPS

(* A set of natural numbers that is not empty has a least element. *)
LEMMA LeastNat ==
  ASSUME NEW T \in SUBSET Nat, T # {}
  PROVE  \E n \in T : \A m \in T : n <= m
<1>1. IsWellFoundedOn(OpToRel(<, Nat), Nat)
  BY NatLessThanWellFounded
<1>2. PICK n \in T : \A m \in T : ~(<<m, n>> \in OpToRel(<, Nat))
  BY <1>1, WFMin
<1>3. \A m \in T : ~(m < n)
  BY <1>2 DEF OpToRel
<1> QED BY <1>3

-----------------------------------------------------------------------------
(* DirList *)

Holds(l, S) ==
  /\ l \in Seq(Int)
  /\ \A k \in 1 .. Len(l) : l[k] \in S
  /\ \A e \in S : \E k \in 1 .. Len(l) : l[k] = e
  /\ \A k, m \in 1 .. Len(l) : l[k] = l[m] => k = m

Exchanged(l, j, k) == [l EXCEPT ![j] = l[k], ![k] = l[j]]

LEMMA ExchangedSeq ==
  ASSUME NEW T, NEW l \in Seq(T), NEW j \in 1 .. Len(l), NEW k \in 1 .. Len(l)
  PROVE  Exchanged(l, j, k) \in Seq(T) /\ Len(Exchanged(l, j, k)) = Len(l)
<1>1. l \in [1 .. Len(l) -> T] /\ Len(l) \in Nat
  BY LenProperties
<1>2. Exchanged(l, j, k) \in [1 .. Len(l) -> T]
  BY <1>1 DEF Exchanged
<1>3. Exchanged(l, j, k) \in Seq(T)
  BY <1>1, <1>2, IsASeq
<1>4. Len(Exchanged(l, j, k)) = Len(l)
  BY <1>1, <1>2, <1>3, LenProperties
<1> QED BY <1>3, <1>4

LEMMA ExchangedAt ==
  ASSUME NEW T, NEW l \in Seq(T), NEW j \in 1 .. Len(l), NEW k \in 1 .. Len(l),
         NEW m \in 1 .. Len(l)
  PROVE  Exchanged(l, j, k)[m] =
           IF m = k THEN l[j] ELSE IF m = j THEN l[k] ELSE l[m]
<1>1. l \in [1 .. Len(l) -> T]
  BY LenProperties
<1> QED BY <1>1 DEF Exchanged

LEMMA ExchangedHolds ==
  ASSUME NEW S, NEW l, Holds(l, S), NEW j \in 1 .. Len(l), NEW k \in 1 .. Len(l)
  PROVE  Holds(Exchanged(l, j, k), S) /\ Len(Exchanged(l, j, k)) = Len(l)
<1> DEFINE x == Exchanged(l, j, k)
<1>1. l \in Seq(Int)
  BY DEF Holds
<1>2. /\ x \in Seq(Int) /\ Len(x) = Len(l)
      /\ \A m \in 1 .. Len(l) : x[m] = IF m = k THEN l[j] ELSE IF m = j THEN l[k] ELSE l[m]
  BY <1>1, ExchangedSeq, ExchangedAt
<1> HIDE DEF x
<1>3. \A m \in 1 .. Len(l) : x[m] \in S
  BY <1>2 DEF Holds
<1>4. ASSUME NEW e \in S
      PROVE  \E m \in 1 .. Len(l) : x[m] = e
  <2>1. PICK n \in 1 .. Len(l) : l[n] = e
    BY DEF Holds
  <2>2. x[k] = l[j] /\ (j # k => x[j] = l[k]) /\ (n # j /\ n # k => x[n] = l[n])
    BY <1>2
  <2> QED BY <2>1, <2>2
<1>5. \A m, n \in 1 .. Len(l) : x[m] = x[n] => m = n
  <2>1. \A m, n \in 1 .. Len(l) : l[m] = l[n] => m = n
    BY DEF Holds
  <2> SUFFICES ASSUME NEW m \in 1 .. Len(l), NEW n \in 1 .. Len(l), x[m] = x[n]
               PROVE  m = n
    OBVIOUS
  <2> DEFINE p == IF m = k THEN j ELSE IF m = j THEN k ELSE m
             q == IF n = k THEN j ELSE IF n = j THEN k ELSE n
  <2>2. p \in 1 .. Len(l) /\ q \in 1 .. Len(l) /\ x[m] = l[p] /\ x[n] = l[q]
    BY <1>2
  <2>3. p = q
    BY <2>1, <2>2
  <2> QED BY <2>3
<1>6. Holds(x, S)
  BY <1>2, <1>3, <1>4, <1>5 DEF Holds
<1> QED BY <1>2, <1>6 DEF x

LEMMA AppendHolds ==
  ASSUME NEW S, NEW l, Holds(l, S), NEW e \in Int, e \notin S
  PROVE  /\ Holds(Append(l, e), S \union {e}) /\ Len(Append(l, e)) = Len(l) + 1
         /\ \A k \in 1 .. Len(l) : Append(l, e)[k] = l[k]
<1>1. l \in Seq(Int) /\ Len(l) \in Nat
  BY LenProperties DEF Holds
<1>2. /\ Append(l, e) \in Seq(Int) /\ Len(Append(l, e)) = Len(l) + 1
      /\ \A k \in 1 .. Len(l) : Append(l, e)[k] = l[k]
      /\ Append(l, e)[Len(l) + 1] = e
  BY <1>1, AppendProperties
<1> DEFINE x == Append(l, e)
<1> HIDE DEF x
<1>3. \A k \in 1 .. Len(x) : k \in 1 .. Len(l) \/ k = Len(l) + 1
  BY <1>1, <1>2 DEF x
<1>4. \A k \in 1 .. Len(x) : x[k] \in S \union {e}
  BY <1>2, <1>3 DEF Holds, x
<1>5. \A k, m \in 1 .. Len(x) : x[k] = x[m] => k = m
  BY <1>2, <1>3 DEF Holds, x
<1>6. \A f \in S \union {e} : \E k \in 1 .. Len(x) : x[k] = f
  <2>1. \A k \in 1 .. Len(l) : k \in 1 .. Len(x)
    BY <1>1, <1>2 DEF x
  <2>2. Len(l) + 1 \in 1 .. Len(x)
    BY <1>1, <1>2 DEF x
  <2> QED BY <1>2, <2>1, <2>2 DEF Holds, x
<1> QED BY <1>2, <1>4, <1>5, <1>6 DEF Holds, x

(* The end of a list may be exchanged for another order of it. *)
LEMMA TailHolds ==
  ASSUME NEW S, NEW l, Holds(l, S), NEW d \in 0 .. Len(l),
         NEW t, Holds(t, {l[k] : k \in d + 1 .. Len(l)}), Len(t) = Len(l) - d
  PROVE  /\ Holds(SubSeq(l, 1, d) \o t, S) /\ Len(SubSeq(l, 1, d) \o t) = Len(l)
         /\ \A k \in 1 .. d : (SubSeq(l, 1, d) \o t)[k] = l[k]
         /\ \A k \in 1 .. Len(t) : (SubSeq(l, 1, d) \o t)[d + k] = t[k]
<1> DEFINE x == SubSeq(l, 1, d) \o t
<1>1. l \in Seq(Int) /\ Len(l) \in Nat /\ t \in Seq(Int) /\ d \in Nat
  BY LenProperties DEF Holds
<1>2. /\ SubSeq(l, 1, d) \in Seq(Int) /\ Len(SubSeq(l, 1, d)) = d
      /\ \A k \in 1 .. d : SubSeq(l, 1, d)[k] = l[k]
  <2>1. SubSeq(l, 1, d) \in Seq(Int)
    BY <1>1
  <2> QED BY <1>1, <2>1
<1>3. /\ x \in Seq(Int) /\ Len(x) = Len(l)
      /\ \A k \in 1 .. Len(l) : x[k] = IF k <= d THEN l[k] ELSE t[k - d]
  <2> DEFINE s == SubSeq(l, 1, d)
  <2> HIDE DEF s
  <2>1. /\ s \o t \in Seq(Int) /\ Len(s \o t) = Len(s) + Len(t)
        /\ \A k \in 1 .. Len(s) + Len(t) :
             (s \o t)[k] = IF k <= Len(s) THEN s[k] ELSE t[k - Len(s)]
    BY <1>1, <1>2, ConcatProperties DEF s
  <2>2. Len(s) = d /\ \A k \in 1 .. d : s[k] = l[k]
    BY <1>2 DEF s
  <2>3. Len(s \o t) = Len(l)
    BY <1>1, <2>1, <2>2
  <2>4. \A k \in 1 .. Len(l) : k \in 1 .. Len(s) + Len(t) /\ (k <= d => k \in 1 .. d)
    BY <1>1, <2>2
  <2>5. \A k \in 1 .. Len(l) : (s \o t)[k] = IF k <= d THEN l[k] ELSE t[k - d]
    BY <2>1, <2>2, <2>4
  <2> QED BY <2>1, <2>3, <2>5 DEF s
<1> HIDE DEF x
<1>4. \A k \in 1 .. Len(t) : \E m \in d + 1 .. Len(l) : t[k] = l[m]
  BY DEF Holds
<1>5. \A m \in d + 1 .. Len(l) : \E k \in 1 .. Len(t) : t[k] = l[m]
  BY DEF Holds
<1>6. \A k \in 1 .. Len(l) : k <= d \/ k - d \in 1 .. Len(t)
  BY <1>1
<1>7. \A k \in 1 .. Len(l) : x[k] \in S
  <2> SUFFICES ASSUME NEW k \in 1 .. Len(l) PROVE x[k] \in S
    OBVIOUS
  <2>1. CASE k <= d
    BY <2>1, <1>3 DEF Holds
  <2>2. CASE ~(k <= d)
    <3>1. k - d \in 1 .. Len(t) /\ x[k] = t[k - d]
      BY <2>2, <1>3, <1>6
    <3>2. PICK m \in d + 1 .. Len(l) : t[k - d] = l[m]
      BY <3>1, <1>4
    <3>3. m \in 1 .. Len(l)
      BY <1>1
    <3> QED BY <3>1, <3>2, <3>3 DEF Holds
  <2> QED BY <2>1, <2>2
<1>8. \A e \in S : \E k \in 1 .. Len(l) : x[k] = e
  <2> SUFFICES ASSUME NEW e \in S PROVE \E k \in 1 .. Len(l) : x[k] = e
    OBVIOUS
  <2>1. PICK m \in 1 .. Len(l) : l[m] = e
    BY DEF Holds
  <2>2. CASE m <= d
    BY <2>1, <2>2, <1>3
  <2>3. CASE ~(m <= d)
    <3>1. m \in d + 1 .. Len(l)
      BY <1>1, <2>3
    <3>2. PICK k \in 1 .. Len(t) : t[k] = l[m]
      BY <3>1, <1>5
    <3>3. k + d \in 1 .. Len(l) /\ ~(k + d <= d) /\ (k + d) - d = k
      BY <1>1
    <3> QED BY <2>1, <3>2, <3>3, <1>3
  <2> QED BY <2>2, <2>3
<1>9. \A k, m \in 1 .. Len(l) : x[k] = x[m] => k = m
  <2>1. \A k, m \in 1 .. Len(l) : l[k] = l[m] => k = m
    BY DEF Holds
  <2>2. \A k \in 1 .. d, m \in 1 .. Len(t) : l[k] # t[m]
    <3> SUFFICES ASSUME NEW k \in 1 .. d, NEW m \in 1 .. Len(t) PROVE l[k] # t[m]
      OBVIOUS
    <3>1. PICK n \in d + 1 .. Len(l) : t[m] = l[n]
      BY <1>4
    <3>2. k \in 1 .. Len(l) /\ n \in 1 .. Len(l) /\ k # n
      BY <1>1
    <3> QED BY <2>1, <3>1, <3>2
  <2> SUFFICES ASSUME NEW k \in 1 .. Len(l), NEW m \in 1 .. Len(l), x[k] = x[m]
               PROVE  k = m
    OBVIOUS
  <2>3. (k <= d => k \in 1 .. d) /\ (m <= d => m \in 1 .. d)
    BY <1>1
  <2>4. CASE k <= d /\ m <= d
    BY <2>1, <2>4, <1>3
  <2>5. CASE (k <= d /\ ~(m <= d)) \/ (~(k <= d) /\ m <= d)
    BY <2>2, <2>3, <2>5, <1>3, <1>6
  <2>6. CASE ~(k <= d) /\ ~(m <= d)
    <3>1. t[k - d] = t[m - d] /\ k - d \in 1 .. Len(t) /\ m - d \in 1 .. Len(t)
      BY <2>6, <1>3, <1>6
    <3>2. k - d = m - d
      BY <3>1 DEF Holds
    <3> QED BY <1>1, <3>2
  <2> QED BY <2>4, <2>5, <2>6
<1>10. \A k \in 1 .. d : x[k] = l[k]
  <2>1. \A k \in 1 .. d : k \in 1 .. Len(l) /\ k <= d
    BY <1>1
  <2> QED BY <1>3, <2>1
<1>11. \A k \in 1 .. Len(t) : x[d + k] = t[k]
  <2>1. \A k \in 1 .. Len(t) : d + k \in 1 .. Len(l) /\ ~(d + k <= d) /\ (d + k) - d = k
    BY <1>1
  <2> QED BY <1>3, <2>1
<1>12. Holds(x, S)
  BY <1>3, <1>7, <1>8, <1>9 DEF Holds
<1> QED BY <1>3, <1>10, <1>11, <1>12 DEF x

-----------------------------------------------------------------------------
(* The inductive invariant of the list *)

Record == [kind : Kinds, name : Nat, ext : Nat, seq : Nat, last : BOOLEAN]
Extension == [id : Int, name : Nat]
Phases == {"scan", "count", "collect", "area", "exts", "extension", "groups", "idle"}

TypeInv ==
  /\ card \in Cards /\ dir \in card
  /\ phase \in Phases
  /\ i \in Int /\ idx_dir \in Int /\ directries \in Int /\ archives \in Int
  /\ exts \in Seq(Extension)
  /\ area \in [lo : Int, hi : Int, j : Int, next : Phases]

Marks(d) == IF d.root THEN {SETTINGS} ELSE {}
Wanted(d, n) == {e \in 0 .. n - 1 : Visible(d, e)} \union Marks(d)
Top(d) == Len(Shown(d))

(* The scan has listed the entries it has come to, later phases list all.   *)
(* The settings, if any, stay at the top.                                   *)
ListInv ==
  /\ phase = "scan" => i \in 0 .. Len(dir.entries) /\ Holds(list, Wanted(dir, i))
  /\ phase # "scan" => Holds(list, Wanted(dir, Len(dir.entries)))
  /\ dir.root => Len(list) >= 1 /\ list[1] = SETTINGS

(* The directories are counted, and so many places are theirs. *)
CountInv ==
  /\ phase = "count" => /\ Top(dir) <= i /\ i <= Len(list)
                        /\ 0 <= directries /\ directries + Top(dir) <= i
  /\ phase \in {"collect", "area", "exts", "extension", "groups"} =>
       Top(dir) <= directries /\ directries <= Len(list)
  /\ phase = "collect" => Top(dir) <= idx_dir /\ idx_dir <= i /\ i <= Len(list)

(* An area that is sorted is within the list. *)
AreaInv ==
  phase = "area" =>
    /\ Top(dir) <= area.lo /\ area.lo <= area.j /\ area.j < area.hi
    /\ area.hi <= Len(list) - 1
    /\ area.next \in {"exts", "groups"}

Ids == [k \in 1 .. Len(exts) |-> exts[k].id]

(* Once made, the list of extensions has the items behind the directories.  *)
ExtsInv ==
  /\ phase \in {"scan", "count", "collect", "idle"} => exts = <<>>
  /\ phase = "area" /\ area.next = "exts" => exts = <<>> /\ i = directries
  /\ phase = "exts" =>
       /\ i = directries + Len(exts) /\ i <= Len(list)
       /\ archives <= 1 => exts = <<>>
       /\ \A k \in 1 .. Len(exts) : exts[k].id = list[directries + k]
  /\ phase = "extension" =>
       /\ Len(exts) = Len(list) - directries
       /\ Holds(Ids, {list[k] : k \in directries + 1 .. Len(list)})
       /\ area.j >= 0 /\ area.hi <= Len(exts) - 1
  /\ phase = "groups" \/ (phase = "area" /\ area.next = "groups") =>
       Len(exts) = Len(list) - directries /\ directries <= i /\ i <= Len(list)

LInv == TypeInv /\ ListInv /\ CountInv /\ AreaInv /\ ExtsInv

LEMMA Directory ==
  ASSUME TypeInv
  PROVE  /\ IsDirectory(dir)
         /\ Len(dir.entries) \in Nat /\ Len(dir.chain) \in Nat /\ Len(dir.chain) >= 1
         /\ dir.entries \in Seq(Record)
<1>1. IsDirectory(dir)
  BY CardAssumption DEF TypeInv
<1>2. dir.entries \in Seq(Record) /\ dir.chain \in Seq(Nat) /\ dir.chain # <<>>
  BY <1>1 DEF IsDirectory, Record
<1>3. Len(dir.chain) \in Nat /\ Len(dir.entries) \in Nat
  BY <1>2, LenProperties
<1>4. Len(dir.chain) # 0
  BY <1>2, EmptySeq
<1> QED BY <1>1, <1>2, <1>3, <1>4

LEMMA TopIs ==
  ASSUME NEW d
  PROVE  Top(d) = IF d.root THEN 1 ELSE 0
<1>1. CASE d.root
  BY <1>1 DEF Top, Shown
<1>2. CASE ~d.root
  BY <1>2 DEF Top, Shown
<1> QED BY <1>1, <1>2

LEMMA ShownHolds ==
  ASSUME NEW d
  PROVE  /\ Holds(Shown(d), Wanted(d, 0))
         /\ d.root => Len(Shown(d)) >= 1 /\ Shown(d)[1] = SETTINGS
<1>1. {e \in 0 .. 0 - 1 : Visible(d, e)} = {}
  OBVIOUS
<1>2. CASE d.root
  <2>1. Shown(d) = <<SETTINGS>> /\ Wanted(d, 0) = {SETTINGS}
    BY <1>1, <1>2 DEF Shown, Wanted, Marks
  <2> QED BY <2>1, <1>2 DEF Holds, SETTINGS
<1>3. CASE ~d.root
  <2>1. Shown(d) = <<>> /\ Wanted(d, 0) = {}
    BY <1>1, <1>3 DEF Shown, Wanted, Marks
  <2> QED BY <2>1, <1>3 DEF Holds
<1> QED BY <1>2, <1>3

LEMMA PerPos == PER \in Nat /\ PER >= 1
<1>1. ENTRIES \in Nat /\ SECTORS \in Nat /\ ENTRIES >= 1 /\ SECTORS >= 1
  BY CardAssumption
<1>2. ENTRIES * SECTORS \in Nat /\ ENTRIES * SECTORS >= 1
  BY <1>1
<1> QED BY <1>2 DEF PER

(* Whatever cluster is read, there is an entry. *)
LEMMA EntryIs ==
  ASSUME TypeInv, NEW cluster, NEW e \in Int
  PROVE  EntryAt(cluster, e % PER) \in Record
<1> DEFINE off == e % PER
           At(k) == dir.chain[k] = cluster /\ (k - 1) * PER + off < Len(dir.entries)
           k0 == CHOOSE k \in DOMAIN dir.chain : dir.chain[k] = cluster
<1>1. off \in Nat
  BY PerPos
<1> HIDE DEF off
<1>2. CASE \E k \in DOMAIN dir.chain : At(k)
  <2>1. PICK k \in DOMAIN dir.chain : At(k)
    BY <1>2
  <2>2. k0 \in DOMAIN dir.chain /\ dir.chain[k0] = cluster
    BY <2>1
  <2>3. k0 = k
    BY <2>1, <2>2, Directory DEF IsDirectory
  <2>4. k \in Nat /\ k >= 1
    BY Directory, LenProperties DEF IsDirectory
  <2>5. (k - 1) * PER \in Nat
    BY <2>4, PerPos
  <2>6. (k - 1) * PER + off + 1 \in 1 .. Len(dir.entries)
    BY <2>1, <2>5, <1>1, Directory
  <2>7. Entry((k0 - 1) * PER + off) \in Record
    <3>1. dir.entries[(k - 1) * PER + off + 1] \in Record
      BY <2>6, Directory, ElementOfSeq
    <3> QED BY <2>3, <3>1 DEF Entry
  <2> HIDE DEF k0
  <2>8. EntryAt(cluster, off) = Entry((k0 - 1) * PER + off)
    BY <1>2 DEF EntryAt, k0
  <2> QED BY <2>7, <2>8 DEF off
<1>3. CASE ~\E k \in DOMAIN dir.chain : At(k)
  <2>1. EntryAt(cluster, off) = Blank
    BY <1>3 DEF EntryAt
  <2>2. Blank \in Record
    BY DEF Blank, Record, Kinds
  <2> QED BY <2>1, <2>2 DEF off
<1> QED BY <1>2, <1>3

LEMMA WantedInt == \A d, n : Wanted(d, n) \subseteq Int
BY DEF Wanted, Marks, SETTINGS

LEMMA InitList == Init => LInv
<1> SUFFICES ASSUME Init PROVE LInv
  OBVIOUS
<1>1. TypeInv
  <2>1. <<>> \in Seq(Extension)
    BY EmptySeq
  <2> QED BY <2>1 DEF Init, TypeInv, Phases, NoArea
<1>2. ListInv
  BY <1>1, ShownHolds, Directory DEF Init, ListInv
<1> QED BY <1>1, <1>2 DEF Init, LInv, CountInv, AreaInv, ExtsInv

-----------------------------------------------------------------------------
(* The scan *)

LEMMA HoldsLen == ASSUME NEW l, NEW S, Holds(l, S) PROVE Len(l) \in Nat
BY LenProperties DEF Holds

LEMMA ListLen == ASSUME ListInv PROVE Len(list) \in Nat
BY HoldsLen DEF ListInv

LEMMA OpenList ==
  ASSUME LInv, NEW d \in card, Open(d)
  PROVE  LInv'
<1> USE DEF LInv
<1>1. TypeInv'
  BY DEF Open, TypeInv, Phases
<1>2. ListInv'
  <2>1. Len(dir'.entries) \in Nat
    BY <1>1, CardAssumption, LenProperties DEF TypeInv, IsDirectory
  <2> QED BY <2>1, ShownHolds DEF Open, ListInv
<1>3. CountInv' /\ AreaInv'
  BY DEF Open, CountInv, AreaInv
<1>4. ExtsInv'
  BY DEF Open, ExtsInv
<1> QED BY <1>1, <1>2, <1>3, <1>4

LEMMA ScanList ==
  ASSUME LInv, Scan
  PROVE  LInv'
<1> USE DEF LInv
<1>1. /\ i \in 0 .. Len(dir.entries) /\ Holds(list, Wanted(dir, i)) /\ phase = "scan"
      /\ exts = <<>> /\ dir' = dir /\ card' = card
      /\ exts' = exts /\ area' = area /\ idx_dir' = idx_dir
  BY DEF ListInv, Scan, ExtsInv
<1>2. Len(dir.entries) \in Nat /\ Len(list) \in Nat
  BY Directory, ListLen
<1>3. Top(dir) \in {0, 1}
  BY TopIs
<1>4. TypeInv'
  BY <1>1, <1>2 DEF Scan, TypeInv, Phases
<1>5. ASSUME i < Len(dir.entries)
      PROVE  ListInv' /\ CountInv' /\ AreaInv' /\ ExtsInv'
  <2>1. phase' = "scan" /\ i' = i + 1 /\ i' \in 0 .. Len(dir.entries)
    BY <1>1, <1>2, <1>5 DEF Scan
  <2>2. CASE Visible(dir, i)
    <3>1. i \in Int /\ i \notin Wanted(dir, i)
      BY <1>1 DEF Wanted, Marks, SETTINGS
    <3>2. Wanted(dir, i + 1) = Wanted(dir, i) \union {i}
      BY <1>1, <2>2 DEF Wanted
    <3>3. list' = Append(list, i)
      BY <1>5, <2>2 DEF Scan
    <3>4. Holds(list', Wanted(dir, i')) /\ Len(list') = Len(list) + 1
          /\ \A k \in 1 .. Len(list) : list'[k] = list[k]
      BY <1>1, <2>1, <3>1, <3>2, <3>3, AppendHolds
    <3>5. dir.root => Len(list') >= 1 /\ list'[1] = SETTINGS
      BY <1>2, <3>4 DEF ListInv
    <3> QED BY <1>1, <2>1, <3>4, <3>5 DEF ListInv, CountInv, AreaInv, ExtsInv
  <2>3. CASE ~Visible(dir, i)
    <3>1. Wanted(dir, i + 1) = Wanted(dir, i)
      BY <1>1, <2>3 DEF Wanted
    <3>2. list' = list
      BY <1>5, <2>3 DEF Scan
    <3>3. ListInv'
      BY <1>1, <2>1, <3>1, <3>2 DEF ListInv
    <3> QED BY <1>1, <2>1, <3>3 DEF CountInv, AreaInv, ExtsInv
  <2> QED BY <2>2, <2>3
<1>6. ASSUME ~(i < Len(dir.entries))
      PROVE  ListInv' /\ CountInv' /\ AreaInv' /\ ExtsInv'
  <2>1. i = Len(dir.entries)
    BY <1>1, <1>2, <1>6
  <2>2. /\ list' = list /\ directries' = 0 /\ phase' \in {"idle", "count"}
        /\ i' = IF dir.root THEN 1 ELSE 0
    BY <1>6 DEF Scan
  <2>3. i' = Top(dir)
    BY <2>2, TopIs
  <2>4. ListInv'
    BY <1>1, <2>1, <2>2 DEF ListInv
  <2>5. Top(dir) <= Len(list)
    BY <1>2, TopIs DEF ListInv
  <2>6. CountInv'
    BY <1>1, <1>2, <1>3, <2>2, <2>3, <2>5 DEF CountInv
  <2>7. AreaInv' /\ ExtsInv'
    BY <1>1, <2>2 DEF AreaInv, ExtsInv
  <2> QED BY <2>4, <2>6, <2>7
<1> QED BY <1>4, <1>5, <1>6

-----------------------------------------------------------------------------
(* The sort *)

(* Past the scan a step that leaves the list as it is, or exchanges two of  *)
(* its places and not the top one, keeps ListInv.                          *)
LEMMA KeptList ==
  ASSUME LInv, phase # "scan", phase' # "scan", dir' = dir, list' = list
  PROVE  ListInv'
BY DEF LInv, ListInv

LEMMA SwapList ==
  ASSUME LInv, phase # "scan", phase' # "scan", dir' = dir,
         NEW j \in Int, NEW k \in Int, Top(dir) <= j, Top(dir) <= k,
         j < Len(list), k < Len(list), list' = Swap(j, k)
  PROVE  ListInv' /\ Len(list') = Len(list)
<1>1. Len(list) \in Nat /\ Top(dir) = IF dir.root THEN 1 ELSE 0
  BY ListLen, TopIs DEF LInv
<1>2. j + 1 \in 1 .. Len(list) /\ k + 1 \in 1 .. Len(list)
  BY <1>1
<1>3. list' = Exchanged(list, j + 1, k + 1)
  BY DEF Swap, Exchanged
<1>4. Holds(list, Wanted(dir, Len(dir.entries)))
  BY DEF LInv, ListInv
<1>5. Holds(list', Wanted(dir, Len(dir.entries))) /\ Len(list') = Len(list)
  BY <1>2, <1>3, <1>4, ExchangedHolds
<1>6. ASSUME dir.root
      PROVE  Len(list') >= 1 /\ list'[1] = SETTINGS
  <2>1. Len(list) >= 1 /\ list[1] = SETTINGS /\ list \in Seq(Int)
    BY <1>4, <1>6 DEF LInv, ListInv, Holds
  <2>2. 1 \in 1 .. Len(list) /\ j + 1 # 1 /\ k + 1 # 1
    BY <1>1, <1>6, <2>1
  <2>3. \A m \in 1 .. Len(list) : Exchanged(list, j + 1, k + 1)[m] =
          IF m = k + 1 THEN list[j + 1] ELSE IF m = j + 1 THEN list[k + 1] ELSE list[m]
    BY <1>2, <2>1, ExchangedAt
  <2>4. list'[1] = list[1]
    BY <1>3, <2>2, <2>3
  <2> QED BY <1>5, <2>1, <2>4
<1> QED BY <1>5, <1>6 DEF ListInv

LEMMA CountList ==
  ASSUME LInv, Count
  PROVE  LInv'
<1> USE DEF LInv
<1>1. /\ phase = "count" /\ phase' \in {"count", "collect"} /\ dir' = dir /\ list' = list
      /\ card' = card /\ exts' = exts /\ area' = area /\ exts = <<>>
  BY DEF Count, ExtsInv
<1>2. Len(list) \in Nat /\ Top(dir) \in {0, 1} /\ Len(Shown(dir)) = Top(dir)
  BY ListLen, TopIs DEF Top
<1>3. /\ Top(dir) <= i /\ i <= Len(list) /\ i \in Int /\ directries \in Int /\ archives \in Int
      /\ 0 <= directries /\ directries + Top(dir) <= i /\ idx_dir \in Int
  BY <1>1 DEF CountInv, TypeInv
<1>4. \/ /\ i < Len(list) /\ i' = i + 1 /\ phase' = "count" /\ idx_dir' = idx_dir
         /\ \/ directries' = directries + 1 /\ archives' = archives
            \/ directries' = directries /\ archives' = archives + 1
      \/ /\ i' = Top(dir) /\ idx_dir' = Top(dir) /\ phase' = "collect"
         /\ ~(i < Len(list)) /\ directries' = directries + Top(dir) /\ archives' = archives
  BY <1>1, <1>2 DEF Count
<1>5. TypeInv'
  <2>1. i' \in Int /\ idx_dir' \in Int /\ directries' \in Int /\ archives' \in Int
    BY <1>2, <1>3, <1>4
  <2> QED BY <1>1, <2>1 DEF TypeInv, Phases
<1>6. ListInv'
  BY <1>1, KeptList
<1>7. CountInv'
  BY <1>1, <1>2, <1>3, <1>4 DEF CountInv
<1>8. AreaInv' /\ ExtsInv'
  BY <1>1 DEF AreaInv, ExtsInv
<1> QED BY <1>5, <1>6, <1>7, <1>8

(* A call of sortListEntryPointSpecifiedArea. *)
LEMMA SortAreaList ==
  ASSUME LInv, NEW idx \in Int, NEW count \in Int, NEW next \in {"exts", "groups"},
         SortArea(idx, count, next), list' = list, dir' = dir,
         Top(dir) <= idx, idx + count <= Len(list)
  PROVE  /\ phase' \in {"area", next} /\ AreaInv'
         /\ area' \in [lo : Int, hi : Int, j : Int, next : Phases]
         /\ phase' = "area" => area'.next = next
<1>1. CASE sort /\ count > 1
  <2>1. /\ phase' = "area"
        /\ area' = [lo |-> idx, hi |-> idx + count - 1, j |-> idx, next |-> next]
    BY <1>1 DEF SortArea
  <2>2. Top(dir) \in {0, 1} /\ Len(list) \in Nat
    BY TopIs, ListLen DEF LInv
  <2>3. idx < idx + count - 1 /\ idx + count - 1 <= Len(list) - 1
    BY <1>1, <2>2
  <2> QED BY <2>1, <2>3 DEF AreaInv, Phases
<1>2. CASE ~(sort /\ count > 1)
  <2>1. phase' = next /\ area' = area
    BY <1>2 DEF SortArea
  <2> QED BY <2>1 DEF AreaInv, LInv, TypeInv
<1> QED BY <1>1, <1>2

LEMMA CollectList ==
  ASSUME LInv, Collect
  PROVE  LInv'
<1> USE DEF LInv
<1>1. /\ phase = "collect" /\ dir' = dir /\ card' = card /\ exts' = exts /\ exts = <<>>
      /\ directries' = directries /\ archives' = archives
  BY DEF Collect, ExtsInv
<1>2. Len(list) \in Nat /\ Top(dir) \in {0, 1} /\ Len(exts) = 0
  BY <1>1, ListLen, TopIs
<1>3. /\ Top(dir) <= directries /\ directries <= Len(list) /\ directries \in Int
      /\ Top(dir) <= idx_dir /\ idx_dir <= i /\ i <= Len(list)
      /\ i \in Int /\ idx_dir \in Int /\ archives \in Int
  BY <1>1 DEF CountInv, TypeInv
<1>4. CASE i < Len(list)
  <2>1. /\ phase' = "collect" /\ area' = area
        /\ \/ list' = Swap(idx_dir, i) /\ idx_dir' = idx_dir + 1
           \/ list' = list /\ idx_dir' = idx_dir
        /\ i' \in {Len(list), i + 1}
    BY <1>1, <1>4 DEF Collect
  <2>2. ListInv' /\ Len(list') = Len(list)
    BY <1>1, <1>2, <1>3, <1>4, <2>1, KeptList, SwapList
  <2>3. i' \in Int /\ idx_dir' \in Int
    BY <1>2, <1>3, <2>1
  <2>4. TypeInv'
    BY <1>1, <1>3, <2>1, <2>3 DEF TypeInv
  <2>5. CountInv'
    BY <1>1, <1>2, <1>3, <1>4, <2>1, <2>2 DEF CountInv
  <2>6. AreaInv' /\ ExtsInv'
    BY <1>1, <2>1 DEF AreaInv, ExtsInv
  <2> QED BY <2>2, <2>4, <2>5, <2>6
<1>5. CASE ~(i < Len(list))
  <2>1. /\ SortArea(1, directries - 1, "exts") /\ i' = directries /\ list' = list
        /\ idx_dir' = idx_dir
    BY <1>5 DEF Collect
  <2>2. 1 + (directries - 1) <= Len(list) /\ Top(dir) <= 1 /\ directries - 1 \in Int
    BY <1>2, <1>3
  <2>3. /\ phase' \in {"area", "exts"} /\ AreaInv'
        /\ area' \in [lo : Int, hi : Int, j : Int, next : Phases]
        /\ phase' = "area" => area'.next = "exts"
    BY <1>1, <2>1, <2>2, SortAreaList
  <2>4. TypeInv'
    BY <1>1, <1>3, <2>1, <2>3 DEF TypeInv, Phases
  <2>5. ListInv'
    BY <1>1, <2>1, <2>3, KeptList
  <2>6. CountInv'
    BY <1>1, <1>3, <2>1, <2>3 DEF CountInv
  <2>7. ExtsInv'
    BY <1>1, <1>2, <1>3, <2>1, <2>3 DEF ExtsInv
  <2> QED BY <2>3, <2>4, <2>5, <2>6, <2>7
<1> QED BY <1>4, <1>5

LEMMA BubbleList ==
  ASSUME LInv, Bubble
  PROVE  LInv'
<1> USE DEF LInv
<1>1. /\ phase = "area" /\ dir' = dir /\ card' = card /\ exts' = exts
      /\ i' = i /\ idx_dir' = idx_dir /\ directries' = directries /\ archives' = archives
  BY DEF Bubble, counters
<1>2. Len(list) \in Nat /\ Top(dir) \in {0, 1}
  BY ListLen, TopIs
<1>3. /\ Top(dir) <= area.lo /\ area.lo <= area.j /\ area.j < area.hi
      /\ area.hi <= Len(list) - 1 /\ area.next \in {"exts", "groups"}
      /\ area \in [lo : Int, hi : Int, j : Int, next : Phases]
  BY <1>1 DEF AreaInv, TypeInv
<1>4. list' = list \/ list' = Swap(area.j, area.j + 1)
  BY DEF Bubble
<1>5. \/ /\ area.j + 1 < area.hi /\ area' = [area EXCEPT !.j = area.j + 1] /\ phase' = phase
      \/ /\ area.hi - 1 > area.lo /\ phase' = phase
         /\ area' = [area EXCEPT !.hi = area.hi - 1, !.j = area.lo]
      \/ area' = NoArea /\ phase' = area.next
  BY DEF Bubble
<1>6. phase' \in {"area", "exts", "groups"} /\ (phase' = "area" => area'.next = area.next)
      /\ (phase' # "area" => phase' = area.next)
  BY <1>1, <1>3, <1>5
<1>7. area.j \in Int /\ Top(dir) <= area.j /\ area.j + 1 < Len(list)
      /\ Top(dir) <= area.j + 1 /\ area.j < Len(list)
  BY <1>2, <1>3
<1>8. ListInv' /\ Len(list') = Len(list)
  BY <1>1, <1>4, <1>6, <1>7, KeptList, SwapList
<1>9. area' \in [lo : Int, hi : Int, j : Int, next : Phases]
  <2>1. NoArea \in [lo : Int, hi : Int, j : Int, next : Phases]
    BY DEF NoArea, Phases
  <2>2. area.j + 1 \in Int /\ area.hi - 1 \in Int /\ area.lo \in Int
    BY <1>3
  <2>3. [area EXCEPT !.j = area.j + 1] \in [lo : Int, hi : Int, j : Int, next : Phases]
    BY <1>3, <2>2
  <2>4. [area EXCEPT !.hi = area.hi - 1, !.j = area.lo]
          \in [lo : Int, hi : Int, j : Int, next : Phases]
    BY <1>3, <2>2
  <2> QED BY <1>5, <2>1, <2>3, <2>4
<1>10. TypeInv'
  BY <1>1, <1>6, <1>9 DEF TypeInv, Phases
<1>11. CountInv'
  BY <1>1, <1>6, <1>8 DEF CountInv
<1>12. AreaInv'
  <2>1. CASE area' = [area EXCEPT !.j = area.j + 1] /\ area.j + 1 < area.hi
    BY <1>1, <1>2, <1>3, <1>8, <2>1 DEF AreaInv
  <2>2. CASE area' = [area EXCEPT !.hi = area.hi - 1, !.j = area.lo] /\ area.hi - 1 > area.lo
    BY <1>1, <1>2, <1>3, <1>8, <2>2 DEF AreaInv
  <2>3. CASE phase' = area.next
    BY <1>3, <2>3 DEF AreaInv
  <2> QED BY <1>5, <2>1, <2>2, <2>3
<1>13. ExtsInv'
  <2>1. CASE area.next = "exts"
    <3>1. exts = <<>> /\ i = directries /\ directries <= Len(list) /\ directries \in Int
      BY <1>1, <2>1 DEF ExtsInv, CountInv, TypeInv
    <3>2. Len(exts) = 0 /\ phase' \in {"area", "exts"}
      BY <1>6, <2>1, <3>1
    <3> QED BY <1>1, <1>2, <1>6, <1>8, <2>1, <3>1, <3>2 DEF ExtsInv
  <2>2. CASE area.next = "groups"
    BY <1>1, <1>6, <1>8, <2>2 DEF ExtsInv
  <2> QED BY <1>3, <2>1, <2>2
<1> QED BY <1>8, <1>10, <1>11, <1>12, <1>13

LEMMA MakeExtsList ==
  ASSUME LInv, MakeExts
  PROVE  LInv'
<1> USE DEF LInv
<1>1. /\ phase = "exts" /\ dir' = dir /\ card' = card /\ list' = list
      /\ idx_dir' = idx_dir /\ directries' = directries /\ archives' = archives
  BY DEF MakeExts
<1>2. /\ Len(list) \in Nat /\ Top(dir) \in {0, 1} /\ Len(exts) \in Nat
      /\ exts \in Seq(Extension)
  BY ListLen, TopIs, LenProperties DEF TypeInv
<1>3. /\ i = directries + Len(exts) /\ i <= Len(list)
      /\ archives <= 1 => exts = <<>>
      /\ \A k \in 1 .. Len(exts) : exts[k].id = list[directries + k]
      /\ Top(dir) <= directries /\ directries <= Len(list) /\ directries \in Int
  BY <1>1 DEF ExtsInv, CountInv, TypeInv
<1>4. Holds(list, Wanted(dir, Len(dir.entries))) /\ list \in Seq(Int)
  BY <1>1 DEF ListInv, Holds
<1>5. CASE archives <= 1
  <2>1. /\ phase' = "idle" /\ i' = i /\ exts' = exts /\ area' = area /\ exts = <<>>
    BY <1>3, <1>5 DEF MakeExts
  <2>2. TypeInv'
    BY <1>1, <2>1 DEF TypeInv, Phases
  <2>3. ListInv'
    BY <1>1, <2>1, KeptList
  <2> QED BY <2>1, <2>2, <2>3 DEF CountInv, AreaInv, ExtsInv
<1>6. CASE ~(archives <= 1) /\ i < Len(list)
  <2> DEFINE x == [id |-> list[i + 1], name |-> Read(cache, list[i + 1]).ext]
  <2>1. /\ exts' = Append(exts, x) /\ i' = i + 1 /\ phase' = phase /\ area' = area
    BY <1>6 DEF MakeExts
  <2>2. i + 1 \in 1 .. Len(list) /\ list[i + 1] \in Int
    BY <1>2, <1>3, <1>4, <1>6, ElementOfSeq
  <2>3. Read(cache, list[i + 1]) \in Record
    BY <2>2, EntryIs DEF Read
  <2>4. x \in Extension
    BY <2>2, <2>3 DEF Record, Extension
  <2>5. x.id = list[i + 1]
    OBVIOUS
  <2> HIDE DEF x
  <2>6. /\ exts' \in Seq(Extension) /\ Len(exts') = Len(exts) + 1
        /\ \A k \in 1 .. Len(exts) : exts'[k] = exts[k]
        /\ exts'[Len(exts) + 1] = x
    BY <1>2, <2>1, <2>4, AppendProperties
  <2>7. TypeInv'
    BY <1>1, <1>2, <1>3, <2>1, <2>6 DEF TypeInv
  <2>8. ListInv'
    BY <1>1, <2>1, KeptList
  <2>9. CountInv' /\ AreaInv'
    BY <1>1, <2>1 DEF CountInv, AreaInv
  <2>10. i' = directries + Len(exts') /\ i' <= Len(list)
    BY <1>2, <1>3, <1>6, <2>1, <2>6
  <2>11. ASSUME NEW k \in 1 .. Len(exts')
         PROVE  exts'[k].id = list[directries + k]
    <3>1. CASE k \in 1 .. Len(exts)
      BY <1>3, <2>6, <3>1
    <3>2. CASE ~(k \in 1 .. Len(exts))
      <4>1. k = Len(exts) + 1
        BY <1>2, <2>6, <3>2
      <4>2. directries + k = i + 1
        BY <1>2, <1>3, <4>1
      <4> QED BY <2>5, <2>6, <4>1, <4>2
    <3> QED BY <3>1, <3>2
  <2>12. ExtsInv'
    BY <1>1, <1>6, <2>1, <2>10, <2>11 DEF ExtsInv
  <2> QED BY <2>7, <2>8, <2>9, <2>12
<1>7. CASE ~(archives <= 1) /\ ~(i < Len(list))
  <2>1. /\ phase' = "extension" /\ i' = i /\ exts' = exts
        /\ area' = [lo |-> 0, hi |-> Len(exts) - 1, j |-> 0, next |-> "extension"]
    BY <1>7 DEF MakeExts
  <2>2. area' \in [lo : Int, hi : Int, j : Int, next : Phases]
        /\ area'.j = 0 /\ area'.hi = Len(exts) - 1
    BY <1>2, <2>1 DEF Phases
  <2>3. TypeInv'
    BY <1>1, <2>1, <2>2 DEF TypeInv, Phases
  <2>4. ListInv'
    BY <1>1, <2>1, KeptList
  <2>5. CountInv' /\ AreaInv'
    BY <1>1, <1>3, <2>1 DEF CountInv, AreaInv
  <2>6. Len(exts) = Len(list) - directries
    <3>1. i = Len(list) /\ i \in Int
      BY <1>2, <1>3, <1>7
    <3> QED BY <1>2, <1>3, <3>1
  <2>7. \A k \in 1 .. Len(exts) : directries + k \in directries + 1 .. Len(list)
                                 /\ directries + k \in 1 .. Len(list)
    BY <1>2, <1>3, <2>6
  <2>8. \A k \in 1 .. Len(exts) : list[directries + k] \in Int
    BY <1>4, <2>7, ElementOfSeq
  <2>9. /\ Ids \in Seq(Int) /\ Len(Ids) = Len(exts)
        /\ \A k \in 1 .. Len(exts) : Ids[k] = list[directries + k]
    <3>1. Ids = [k \in 1 .. Len(exts) |-> list[directries + k]]
      BY <1>3 DEF Ids
    <3>2. Ids \in [1 .. Len(exts) -> Int]
      BY <2>8, <3>1
    <3>3. Ids \in Seq(Int)
      BY <1>2, <3>2, IsASeq
    <3> QED BY <1>2, <3>1, <3>2, <3>3, LenProperties
  <2>10. Holds(Ids, {list[k] : k \in directries + 1 .. Len(list)})
    <3>1. \A k \in 1 .. Len(Ids) : Ids[k] \in {list[m] : m \in directries + 1 .. Len(list)}
      BY <2>7, <2>9
    <3>2. ASSUME NEW e \in {list[m] : m \in directries + 1 .. Len(list)}
          PROVE  \E k \in 1 .. Len(Ids) : Ids[k] = e
      <4>1. PICK m \in directries + 1 .. Len(list) : e = list[m]
        OBVIOUS
      <4>2. m - directries \in 1 .. Len(exts) /\ directries + (m - directries) = m
        BY <1>2, <1>3, <2>6
      <4> QED BY <2>9, <4>1, <4>2
    <3>3. ASSUME NEW k \in 1 .. Len(Ids), NEW m \in 1 .. Len(Ids), Ids[k] = Ids[m]
          PROVE  k = m
      <4>1. list[directries + k] = list[directries + m]
        BY <2>9, <3>3
      <4>2. directries + k = directries + m
        BY <1>4, <2>7, <2>9, <4>1 DEF Holds
      <4> QED BY <1>2, <1>3, <2>9, <4>2
    <3> QED BY <2>9, <3>1, <3>2, <3>3 DEF Holds
  <2>11. Ids' = Ids
    BY <2>1 DEF Ids
  <2>12. ExtsInv'
    BY <1>1, <2>1, <2>2, <2>6, <2>10, <2>11 DEF ExtsInv
  <2> QED BY <2>3, <2>4, <2>5, <2>12
<1> QED BY <1>5, <1>6, <1>7

LEMMA SortExtsList ==
  ASSUME LInv, SortExts
  PROVE  LInv'
<1> USE DEF LInv
<1>1. /\ phase = "extension" /\ dir' = dir /\ card' = card
      /\ idx_dir' = idx_dir /\ directries' = directries /\ archives' = archives
  BY DEF SortExts
<1>2. /\ Len(list) \in Nat /\ Top(dir) \in {0, 1} /\ Len(exts) \in Nat
      /\ exts \in Seq(Extension) /\ area \in [lo : Int, hi : Int, j : Int, next : Phases]
      /\ i \in Int /\ directries \in Int
  BY ListLen, TopIs, LenProperties DEF TypeInv
<1>3. /\ Top(dir) <= directries /\ directries <= Len(list)
      /\ Len(exts) = Len(list) - directries
      /\ Holds(Ids, {list[k] : k \in directries + 1 .. Len(list)})
      /\ area.j >= 0 /\ area.hi <= Len(exts) - 1
  BY <1>1 DEF ExtsInv, CountInv
<1>4. Ids \in Seq(Int) /\ Len(Ids) = Len(exts)
      /\ \A k \in 1 .. Len(exts) : Ids[k] = exts[k].id
  <2>1. Ids \in Seq(Int)
    BY <1>3 DEF Holds
  <2>2. DOMAIN Ids = 1 .. Len(exts)
    BY DEF Ids
  <2>3. Len(Ids) = Len(exts)
    BY <1>2, <2>1, <2>2, LenProperties
  <2> QED BY <2>1, <2>3 DEF Ids
<1>5. Holds(list, Wanted(dir, Len(dir.entries))) /\ list \in Seq(Int)
  BY <1>1 DEF ListInv, Holds
<1>6. CASE area.j < area.hi
  <2> DEFINE a == area.j + 1
             b == area.j + 2
  <2>1. /\ exts' = exts \/ exts' = Exchanged(exts, a, b)
        /\ area' = [area EXCEPT !.j = area.j + 1]
        /\ list' = list /\ phase' = phase /\ i' = i
    BY <1>6 DEF SortExts, Exchanged
  <2>2. a \in 1 .. Len(exts) /\ b \in 1 .. Len(exts)
    BY <1>2, <1>3, <1>6
  <2> HIDE DEF a, b
  <2>3. /\ Exchanged(exts, a, b) \in Seq(Extension)
        /\ Len(Exchanged(exts, a, b)) = Len(exts)
        /\ \A m \in 1 .. Len(exts) : Exchanged(exts, a, b)[m] =
              IF m = b THEN exts[a] ELSE IF m = a THEN exts[b] ELSE exts[m]
    <3>1. exts \in Seq(Extension)
      BY <1>2
    <3> QED BY <2>2, <3>1, ExchangedSeq, ExchangedAt
  <2>4. exts' \in Seq(Extension) /\ Len(exts') = Len(exts)
    BY <1>2, <2>1, <2>3
  <2>5. Holds(Ids', {list[k] : k \in directries + 1 .. Len(list)})
    <3>1. CASE exts' = exts
      <4>1. Ids' = Ids
        BY <3>1 DEF Ids
      <4> QED BY <1>3, <4>1
    <3>2. CASE exts' = Exchanged(exts, a, b)
      <4>1. \A k \in 1 .. Len(exts) : Ids'[k] =
              IF k = b THEN Ids[a] ELSE IF k = a THEN Ids[b] ELSE Ids[k]
        BY <1>4, <2>2, <2>3, <2>4, <3>2 DEF Ids
      <4>2. \A k \in 1 .. Len(exts) : Exchanged(Ids, a, b)[k] =
              IF k = b THEN Ids[a] ELSE IF k = a THEN Ids[b] ELSE Ids[k]
        <5>1. a \in 1 .. Len(Ids) /\ b \in 1 .. Len(Ids)
          BY <1>4, <2>2
        <5>2. \A k \in 1 .. Len(Ids) : Exchanged(Ids, a, b)[k] =
                IF k = b THEN Ids[a] ELSE IF k = a THEN Ids[b] ELSE Ids[k]
          <6>1. Ids \in Seq(Int)
            BY <1>4
          <6> QED BY <5>1, <6>1, ExchangedAt
        <5> QED BY <1>4, <5>2
      <4>3. Ids' = [k \in 1 .. Len(exts) |-> Exchanged(Ids, a, b)[k]]
        BY <2>4, <4>1, <4>2 DEF Ids
      <4>4. Exchanged(Ids, a, b) \in Seq(Int) /\ Len(Exchanged(Ids, a, b)) = Len(exts)
        BY <1>4, <2>2, ExchangedSeq
      <4>5. Exchanged(Ids, a, b) = [k \in 1 .. Len(exts) |-> Exchanged(Ids, a, b)[k]]
        BY <4>4, LenProperties
      <4>6. Holds(Exchanged(Ids, a, b), {list[k] : k \in directries + 1 .. Len(list)})
        BY <1>3, <1>4, <2>2, ExchangedHolds
      <4> QED BY <4>3, <4>5, <4>6
    <3> QED BY <2>1, <3>1, <3>2
  <2>6. area' \in [lo : Int, hi : Int, j : Int, next : Phases]
        /\ area'.j >= 0 /\ area'.hi = area.hi
    BY <1>2, <1>3, <2>1
  <2>7. TypeInv'
    BY <1>1, <2>1, <2>4, <2>6 DEF TypeInv
  <2>8. ListInv'
    BY <1>1, <2>1, KeptList
  <2>9. CountInv' /\ AreaInv'
    BY <1>1, <2>1 DEF CountInv, AreaInv
  <2>10. ExtsInv'
    BY <1>1, <1>3, <2>1, <2>4, <2>5, <2>6 DEF ExtsInv
  <2> QED BY <2>7, <2>8, <2>9, <2>10
<1>7. CASE ~(area.j < area.hi) /\ area.hi > 0
  <2>1. /\ area' = [area EXCEPT !.hi = area.hi - 1, !.j = 0]
        /\ list' = list /\ phase' = phase /\ i' = i /\ exts' = exts
    BY <1>7 DEF SortExts
  <2>2. area.hi - 1 \in Int
    BY <1>2
  <2>3. area' \in [lo : Int, hi : Int, j : Int, next : Phases]
        /\ area'.j = 0 /\ area'.hi = area.hi - 1
    <3>1. 0 \in Int
      OBVIOUS
    <3>2. [area EXCEPT !.hi = area.hi - 1, !.j = 0]
            \in [lo : Int, hi : Int, j : Int, next : Phases]
      BY <1>2, <2>2, <3>1
    <3>3. area'.j = 0
      BY <1>2, <2>1
    <3>4. area'.hi = area.hi - 1
      BY <1>2, <2>1
    <3> QED BY <2>1, <3>2, <3>3, <3>4
  <2>4. area'.j >= 0 /\ area'.hi <= Len(exts) - 1
    BY <1>2, <1>3, <2>3
  <2>5. TypeInv'
    BY <1>1, <2>1, <2>3 DEF TypeInv
  <2>6. ListInv'
    BY <1>1, <2>1, KeptList
  <2>7. CountInv' /\ AreaInv'
    BY <1>1, <2>1 DEF CountInv, AreaInv
  <2>8. Ids' = Ids
    BY <2>1 DEF Ids
  <2>9. ExtsInv'
    BY <1>1, <1>3, <2>1, <2>4, <2>8 DEF ExtsInv
  <2> QED BY <2>5, <2>6, <2>7, <2>9
<1>8. CASE ~(area.j < area.hi) /\ ~(area.hi > 0)
  <2>1. /\ list' = SubSeq(list, 1, directries) \o [k \in DOMAIN exts |-> exts[k].id]
        /\ phase' = "groups" /\ i' = directries /\ area' = NoArea /\ exts' = exts
    BY <1>8 DEF SortExts
  <2>2. list' = SubSeq(list, 1, directries) \o Ids
    BY <1>2, <2>1, LenProperties DEF Ids
  <2>3. directries \in 0 .. Len(list) /\ Len(Ids) = Len(list) - directries
    BY <1>2, <1>3, <1>4
  <2>4. /\ Holds(list', Wanted(dir, Len(dir.entries))) /\ Len(list') = Len(list)
        /\ \A k \in 1 .. directries : list'[k] = list[k]
    <3> DEFINE x == SubSeq(list, 1, directries) \o Ids
    <3>a. /\ Holds(Ids, {list[k] : k \in directries + 1 .. Len(list)})
          /\ Holds(list, Wanted(dir, Len(dir.entries)))
      BY <1>3, <1>5
    <3>1. /\ Holds(x, Wanted(dir, Len(dir.entries))) /\ Len(x) = Len(list)
          /\ \A k \in 1 .. directries : x[k] = list[k]
      BY <2>3, <3>a, TailHolds
    <3>2. list' = x
      BY <2>2
    <3> HIDE DEF x
    <3> QED BY <3>1, <3>2
  <2>5. TypeInv'
    <3>1. NoArea \in [lo : Int, hi : Int, j : Int, next : Phases]
      BY DEF NoArea, Phases
    <3> QED BY <1>1, <1>2, <2>1, <3>1 DEF TypeInv, Phases
  <2>6. ListInv'
    <3>1. ASSUME dir.root PROVE Len(list') >= 1 /\ list'[1] = SETTINGS
      <4>1. 1 \in 1 .. directries
        BY <1>2, <1>3, <3>1, TopIs
      <4> QED BY <2>4, <3>1, <4>1 DEF ListInv
    <3> QED BY <1>1, <2>1, <2>4, <3>1 DEF ListInv
  <2>7. CountInv' /\ AreaInv'
    BY <1>1, <1>3, <2>1, <2>4 DEF CountInv, AreaInv
  <2>8. ExtsInv'
    <3>1. Len(exts') = Len(list') - directries' /\ directries' <= i' /\ i' <= Len(list')
      BY <1>1, <1>2, <1>3, <2>1, <2>4
    <3> QED BY <2>1, <3>1 DEF ExtsInv
  <2> QED BY <2>5, <2>6, <2>7, <2>8
<1> QED BY <1>6, <1>7, <1>8

(* From each place on there are items of one extension, up to some place.   *)
LEMMA GroupEnds ==
  ASSUME NEW last \in Nat, NEW first \in 1 .. last, NEW A, first \in A
  PROVE  \E n \in 1 .. last - first + 1 :
           /\ first + n - 1 \in A
           /\ n < last - first + 1 => first + n \notin A
<1> DEFINE T == {n \in 1 .. last - first + 1 : n < last - first + 1 => first + n \notin A}
<1>1. last - first + 1 \in T /\ T \subseteq Nat
  OBVIOUS
<1>2. PICK n \in T : \A m \in T : n <= m
  <2> HIDE DEF T
  <2> QED BY <1>1, LeastNat
<1>3. n \in 1 .. last - first + 1 /\ (n < last - first + 1 => first + n \notin A)
  BY <1>2
<1>4. CASE n = 1
  BY <1>3, <1>4
<1>5. CASE n # 1
  <2>1. n - 1 \in 1 .. last - first + 1 /\ ~(n <= n - 1)
    BY <1>3, <1>5
  <2>2. n - 1 \notin T
    BY <1>2, <2>1
  <2>3. first + (n - 1) \in A
    BY <2>1, <2>2
  <2>4. first + (n - 1) = first + n - 1
    BY <1>3
  <2> QED BY <1>3, <2>3, <2>4
<1> QED BY <1>4, <1>5

(* The group of files that is looked at has one extension, which those      *)
(* behind it have not.                                                     *)
LEMMA GroupIs ==
  ASSUME LInv, Groups, i < Len(list)
  PROVE  LET first == i - directries + 1 IN
         \E size \in Int :
           /\ 1 <= size /\ i + size <= Len(list)
           /\ SortArea(i, size, "groups") /\ i' = i + size /\ exts' = exts
           /\ \A k \in first .. first + size - 1 : exts[k].name = exts[first].name
           /\ i + size < Len(list) =>
                \E k \in first .. first + size : exts[k].name # exts[first].name
<1> USE DEF LInv
<1> DEFINE first == i - directries + 1
           Same(k) == \A l \in first .. k : exts[l].name = exts[first].name
           size == CHOOSE n \in 1 .. Len(exts) - first + 1 :
                     /\ Same(first + n - 1)
                     /\ n < Len(exts) - first + 1 => ~Same(first + n)
<1>1. /\ phase = "groups" /\ Len(list) \in Nat /\ Len(exts) \in Nat
      /\ i \in Int /\ directries \in Int /\ directries <= i /\ i <= Len(list)
      /\ Len(exts) = Len(list) - directries
  BY ListLen, LenProperties DEF Groups, TypeInv, ExtsInv
<1>2. SortArea(i, size, "groups") /\ i' = i + size /\ exts' = exts
  BY DEF Groups
<1>3. first \in 1 .. Len(exts) /\ first - 1 = i - directries
  BY <1>1
<1>4. Same(first)
  BY <1>3
<1> HIDE DEF first
<1>5. \E n \in 1 .. Len(exts) - first + 1 :
        /\ Same(first + n - 1)
        /\ n < Len(exts) - first + 1 => ~Same(first + n)
  <2> DEFINE A == {k \in Nat : Same(k)}
  <2>1. first \in A
    BY <1>3, <1>4
  <2>2. PICK n \in 1 .. Len(exts) - first + 1 :
          first + n - 1 \in A /\ (n < Len(exts) - first + 1 => first + n \notin A)
    <3> HIDE DEF A
    <3> QED BY <1>1, <1>3, <2>1, GroupEnds
  <2> HIDE DEF Same
  <2>3. first + n \in Nat
    BY <1>3
  <2> QED BY <2>2, <2>3
<1> HIDE DEF Same
<1>6. /\ size \in 1 .. Len(exts) - first + 1 /\ Same(first + size - 1)
      /\ size < Len(exts) - first + 1 => ~Same(first + size)
  BY <1>5
<1> HIDE DEF size
<1>7. /\ size \in Int /\ 1 <= size /\ i + size <= Len(list)
      /\ i + size < Len(list) => ~Same(first + size)
  BY <1>1, <1>3, <1>6
<1>8. /\ \A k \in first .. first + size - 1 : exts[k].name = exts[first].name
      /\ i + size < Len(list) =>
           \E k \in first .. first + size : exts[k].name # exts[first].name
  BY <1>6, <1>7 DEF Same
<1> QED BY <1>2, <1>7, <1>8 DEF first

LEMMA GroupsList ==
  ASSUME LInv, Groups
  PROVE  LInv'
<1> USE DEF LInv
<1>1. /\ phase = "groups" /\ dir' = dir /\ card' = card /\ list' = list
      /\ idx_dir' = idx_dir /\ directries' = directries /\ archives' = archives
  BY DEF Groups
<1>2. /\ Len(list) \in Nat /\ Top(dir) \in {0, 1} /\ Len(exts) \in Nat
      /\ i \in Int /\ directries \in Int
  BY ListLen, TopIs, LenProperties DEF TypeInv
<1>3. /\ Top(dir) <= directries /\ directries <= i /\ i <= Len(list)
      /\ Len(exts) = Len(list) - directries
  BY <1>1 DEF ExtsInv, CountInv
<1>4. CASE i < Len(list)
  <2>1. PICK size \in Int :
           /\ 1 <= size /\ i + size <= Len(list)
           /\ SortArea(i, size, "groups") /\ i' = i + size /\ exts' = exts
    BY <1>4, GroupIs
  <2>2. /\ phase' \in {"area", "groups"} /\ AreaInv'
        /\ area' \in [lo : Int, hi : Int, j : Int, next : Phases]
        /\ phase' = "area" => area'.next = "groups"
    <3>1. Top(dir) <= i
      BY <1>2, <1>3
    <3> QED BY <1>1, <1>2, <2>1, <3>1, SortAreaList
  <2>3. TypeInv'
    <3>1. i + size \in Int
      BY <1>2, <2>1
    <3> QED BY <1>1, <2>1, <2>2, <3>1 DEF TypeInv, Phases
  <2>4. ListInv'
    BY <1>1, <2>2, KeptList
  <2>5. CountInv'
    BY <1>1, <1>2, <1>3, <2>2 DEF CountInv
  <2>6. ExtsInv'
    <3>1. directries <= i + size /\ i + size <= Len(list)
      BY <1>2, <1>3, <2>1
    <3> QED BY <1>1, <1>3, <2>1, <2>2, <3>1 DEF ExtsInv
  <2> QED BY <2>2, <2>3, <2>4, <2>5, <2>6
<1>5. CASE ~(i < Len(list))
  <2>1. phase' = "idle" /\ exts' = <<>> /\ i' = i /\ area' = area
    BY <1>5 DEF Groups
  <2>2. TypeInv'
    BY <1>1, <2>1, EmptySeq DEF TypeInv, Phases
  <2>3. ListInv'
    BY <1>1, <2>1, KeptList
  <2> QED BY <2>1, <2>2, <2>3 DEF CountInv, AreaInv, ExtsInv
<1> QED BY <1>4, <1>5

LEMMA SameList ==
  ASSUME LInv, UNCHANGED <<card, dir, list, sorting>>
  PROVE  LInv'
<1> USE DEF LInv, sorting, counters
<1>1. TypeInv'
  BY DEF TypeInv
<1>2. ListInv'
  BY DEF ListInv
<1>3. CountInv' /\ AreaInv'
  BY DEF CountInv, AreaInv
<1>4. Ids' = Ids
  BY DEF Ids
<1>5. ExtsInv'
  BY <1>4 DEF ExtsInv
<1> QED BY <1>1, <1>2, <1>3, <1>5

LEMMA NextList ==
  ASSUME LInv, [Next]_vars
  PROVE  LInv'
<1>1. CASE Making
  BY <1>1, ScanList, CountList, CollectList, MakeExtsList, SortExtsList, GroupsList,
     BubbleList DEF Making
<1>2. CASE \E d \in card : Open(d)
  BY <1>2, OpenList
<1>3. ASSUME NEW k \in Items, HandlerLooks(k) \/ MainLooks(k)
      PROVE  LInv'
  BY <1>3, SameList DEF HandlerLooks, MainLooks
<1>4. CASE MainHits \/ MainWalks \/ MainReads
  BY <1>4, SameList DEF MainHits, MainWalks, MainReads
<1>5. CASE UNCHANGED vars
  BY <1>5, SameList DEF vars
<1> QED BY <1>1, <1>2, <1>3, <1>4, <1>5 DEF Next

THEOREM ListInvariant == Spec => []LInv
BY InitList, NextList, PTL DEF Spec

(* No exchange, of two places or of the whole tail, loses or doubles an     *)
(* item (makeFileList, sortListEntryPoint).                                *)
THEOREM EachEntryListedOnce == Spec => []ListedOnce
<1>1. LInv => ListedOnce
  <2> SUFFICES ASSUME LInv, phase # "scan"
               PROVE  /\ {list[k] : k \in DOMAIN list} = Wanted(dir, Len(dir.entries))
                      /\ \A k, l \in DOMAIN list : list[k] = list[l] => k = l
    BY DEF ListedOnce, Wanted, Marks
  <2>1. Holds(list, Wanted(dir, Len(dir.entries)))
    BY DEF LInv, ListInv
  <2>2. DOMAIN list = 1 .. Len(list)
    BY <2>1, LenProperties DEF Holds
  <2>3. {list[k] : k \in DOMAIN list} = Wanted(dir, Len(dir.entries))
    <3>1. \A k \in 1 .. Len(list) : list[k] \in Wanted(dir, Len(dir.entries))
      BY <2>1 DEF Holds
    <3>2. \A e \in Wanted(dir, Len(dir.entries)) : \E k \in 1 .. Len(list) : list[k] = e
      BY <2>1 DEF Holds
    <3> QED BY <2>2, <3>1, <3>2
  <2> QED BY <2>1, <2>2, <2>3 DEF Holds
<1> QED BY <1>1, ListInvariant, PTL

-----------------------------------------------------------------------------
(* The cache of getListEntryPoint *)

Cache == [set : BOOLEAN, n : Int, cluster : Nat]
Reader == [pc : {"no", "hit", "read", "walk"}, e : Int, n : Int, way : Seq(Nat),
           cluster : Nat, alone : BOOLEAN]

IsTrue(c) == c.set => c.n \in 0 .. Len(dir.chain) - 1 /\ c.cluster = dir.chain[c.n + 1]

ReaderTypes ==
  /\ cache \in Cache /\ reader \in Reader /\ mixed \in BOOLEAN
  /\ found \in [e : Int, cluster : Nat, alone : BOOLEAN]

(* But for a walk that is not over, or that was not when the list was made, *)
(* the cache is about the directory on the screen ...                      *)
CacheTrue == ~mixed /\ reader.pc # "walk" => IsTrue(cache)

(* ... and the rest of a walk is the end of the way to its cluster.         *)
WayInv ==
  /\ reader.pc = "walk" => reader.way # <<>>
  /\ reader.pc = "walk" /\ ~mixed =>
       /\ reader.n \in 0 .. Len(dir.chain) - 1 /\ Len(reader.way) <= reader.n
       /\ \A k \in 1 .. Len(reader.way) :
            reader.way[k] = dir.chain[reader.n + 1 - Len(reader.way) + k]

(* A reader that is alone reads from the list there is, and what it decided *)
(* on is still so.                                                         *)
AloneInv ==
  /\ reader.pc # "no" /\ reader.alone =>
       /\ ~mixed /\ phase = "idle"
       /\ reader.n = reader.e \div PER /\ reader.n \in 0 .. Len(dir.chain) - 1
  /\ reader.pc = "hit" /\ reader.alone => cache.set /\ cache.n = reader.n
  /\ reader.pc = "read" /\ reader.alone => reader.cluster = dir.chain[reader.n + 1]
  /\ phase # "idle" /\ reader.pc = "walk" => mixed

RInv == ReaderTypes /\ CacheTrue /\ WayInv /\ AloneInv /\ EntryFound

LEMMA InChain ==
  ASSUME TypeInv, NEW e \in 0 .. Len(dir.entries) - 1
  PROVE  /\ e \div PER \in 0 .. Len(dir.chain) - 1
         /\ dir.chain[e \div PER + 1] \in Nat
<1> DEFINE q == e \div PER
           c == Len(dir.chain)
<1>1. e \in Nat /\ e < Len(dir.entries) /\ c \in Nat /\ PER \in Nat /\ PER >= 1
  BY Directory, PerPos
<1>2. Len(dir.entries) < c * PER /\ Len(dir.entries) \in Nat /\ dir.chain \in Seq(Nat)
  BY Directory DEF IsDirectory
<1>3. q \in Nat /\ PER * q <= e
  BY <1>1
<1> HIDE DEF q, c
<1>4. q < c
  <2> SUFFICES ASSUME q >= c PROVE FALSE
    BY <1>1, <1>3
  <2>1. q - c \in Nat
    BY <1>1, <1>3
  <2>2. PER * (q - c) >= 0
    BY <1>1, <2>1
  <2>3. PER * q = PER * c + PER * (q - c)
    BY <1>1, <1>3, <2>1
  <2>4. PER * c = c * PER /\ PER * c \in Nat
    BY <1>1
  <2> QED BY <1>1, <1>2, <1>3, <2>2, <2>3, <2>4
<1>5. q \in 0 .. c - 1 /\ q + 1 \in 1 .. c
  BY <1>1, <1>3, <1>4
<1>6. dir.chain[q + 1] \in Nat
  BY <1>2, <1>5, ElementOfSeq DEF c
<1> QED BY <1>5, <1>6 DEF q, c

LEMMA LookTrue ==
  ASSUME TypeInv, NEW c \in Cache, NEW e \in 0 .. Len(dir.entries) - 1
  PROVE  /\ Look(c, e).cache \in Cache /\ Look(c, e).cluster \in Nat
         /\ IsTrue(c) => /\ IsTrue(Look(c, e).cache)
                       /\ Look(c, e).cluster = dir.chain[e \div PER + 1]
<1> DEFINE n == e \div PER
           hit == c.set /\ c.n = n
<1>1. n \in 0 .. Len(dir.chain) - 1 /\ dir.chain[n + 1] \in Nat /\ n \in Int
  <2>1. n \in 0 .. Len(dir.chain) - 1 /\ dir.chain[n + 1] \in Nat
    BY InChain
  <2> QED BY <2>1, Directory
<1>2. Look(c, e) = [cluster |-> IF hit THEN c.cluster ELSE dir.chain[n + 1],
                    cache |-> IF n = 0 \/ hit THEN c ELSE Walked(n)]
  BY DEF Look
<1> HIDE DEF n
<1>3. /\ Walked(n) \in Cache /\ Walked(n).n = n
      /\ Walked(n).cluster = dir.chain[n + 1]
  BY <1>1 DEF Walked, Cache
<1>4. Look(c, e).cluster = (IF hit THEN c.cluster ELSE dir.chain[n + 1])
      /\ Look(c, e).cache = IF n = 0 \/ hit THEN c ELSE Walked(n)
  <2> HIDE DEF hit
  <2> QED BY <1>2
<1>5. Look(c, e).cache \in Cache /\ Look(c, e).cluster \in Nat
  BY <1>1, <1>3, <1>4 DEF Cache
<1>6. ASSUME IsTrue(c)
      PROVE  IsTrue(Look(c, e).cache) /\ Look(c, e).cluster = dir.chain[n + 1]
  <2>1. IsTrue(Walked(n))
    BY <1>1, <1>3 DEF IsTrue
  <2>2. IsTrue(Look(c, e).cache)
    BY <1>4, <1>6, <2>1
  <2>3. hit => c.cluster = dir.chain[n + 1]
    BY <1>6 DEF IsTrue
  <2> QED BY <1>4, <2>2, <2>3
<1> QED BY <1>5, <1>6 DEF n

(* Behind the top there are entries only. *)
LEMMA ItemIsEntry ==
  ASSUME LInv, phase # "scan", NEW k \in 1 .. Len(list), list[k] # SETTINGS \/ k > Top(dir)
  PROVE  list[k] \in 0 .. Len(dir.entries) - 1
<1>1. /\ list[k] \in Wanted(dir, Len(dir.entries))
      /\ \A m \in 1 .. Len(list) : list[m] = list[k] => m = k
      /\ dir.root => Len(list) >= 1 /\ list[1] = SETTINGS
  BY DEF LInv, ListInv, Holds
<1>2. Len(list) \in Nat
  BY ListLen DEF LInv
<1>3. list[k] # SETTINGS
  <2> SUFFICES ASSUME list[k] = SETTINGS PROVE FALSE
    OBVIOUS
  <2>1. k > Top(dir)
    OBVIOUS
  <2>2. CASE dir.root
    <3>1. 1 \in 1 .. Len(list) /\ k # 1
      BY <1>1, <1>2, <2>1, <2>2, TopIs
    <3> QED BY <1>1, <2>2, <3>1
  <2>3. CASE ~dir.root
    BY <1>1, <2>3 DEF Wanted, Marks, SETTINGS
  <2> QED BY <2>2, <2>3
<1> QED BY <1>1, <1>3 DEF Wanted, Marks

LEMMA InitReader == Init => RInv
<1> SUFFICES ASSUME Init PROVE RInv
  OBVIOUS
<1>1. ReaderTypes
  <2>1. <<>> \in Seq(Nat)
    BY EmptySeq
  <2>2. NoReader \in Reader
    BY <2>1 DEF NoReader, Reader
  <2>3. NoCache \in Cache /\ NoFound \in [e : Int, cluster : Nat, alone : BOOLEAN]
    BY DEF NoCache, Cache, NoFound
  <2>4. reader = NoReader /\ cache = NoCache /\ found = NoFound /\ mixed = FALSE
    BY DEF Init
  <2>5. mixed \in BOOLEAN
    BY <2>4, Zenon
  <2> QED BY <2>2, <2>3, <2>4, <2>5 DEF ReaderTypes
<1>2. reader.pc = "no" /\ ~cache.set /\ ~found.alone
  BY DEF Init, NoReader, NoCache, NoFound
<1>3. CacheTrue /\ WayInv
  BY <1>2 DEF CacheTrue, WayInv, IsTrue
<1>4. AloneInv /\ EntryFound
  BY <1>2 DEF AloneInv, EntryFound
<1> QED BY <1>1, <1>3, <1>4 DEF RInv

LEMMA OpenReader ==
  ASSUME LInv, RInv, NEW d \in card, Open(d)
  PROVE  RInv'
<1> USE DEF RInv
<1>1. /\ cache' = [cache EXCEPT !.set = FALSE, !.n = 0] /\ found' = NoFound
      /\ reader' = [reader EXCEPT !.alone = FALSE] /\ mixed' = (reader.pc = "walk")
      /\ cache \in Cache /\ reader \in Reader
  BY DEF Open, ReaderTypes
<1>2. /\ reader' \in Reader /\ ~reader'.alone /\ reader'.pc = reader.pc
      /\ reader'.way = reader.way
  BY <1>1 DEF Reader
<1>3. cache' \in Cache /\ ~cache'.set
  <2>1. cache' \in Cache
    <3>1. 0 \in Int /\ FALSE \in BOOLEAN
      OBVIOUS
    <3>2. [cache EXCEPT !.set = FALSE, !.n = 0] \in Cache
      BY <1>1, <3>1 DEF Cache
    <3> QED BY <1>1, <3>2
  <2>2. cache'.set = FALSE
    BY <1>1 DEF Cache
  <2> QED BY <2>1, <2>2
<1>4. mixed' \in BOOLEAN /\ found' \in [e : Int, cluster : Nat, alone : BOOLEAN]
  <2>1. mixed' \in BOOLEAN
    BY <1>1, Zenon
  <2>2. found' \in [e : Int, cluster : Nat, alone : BOOLEAN]
    BY <1>1 DEF NoFound
  <2> QED BY <2>1, <2>2
<1>5. ReaderTypes'
  BY <1>2, <1>3, <1>4 DEF ReaderTypes
<1>6. CacheTrue'
  BY <1>3 DEF CacheTrue, IsTrue
<1>7. WayInv'
  BY <1>1, <1>2 DEF WayInv
<1>8. AloneInv'
  BY <1>1, <1>2 DEF AloneInv
<1>9. EntryFound'
  BY <1>1 DEF NoFound, EntryFound
<1> QED BY <1>5, <1>6, <1>7, <1>8, <1>9

(* A step that makes the list looks for entries, and nobody else does.      *)
LEMMA MakingReader ==
  ASSUME RInv, phase # "idle", UNCHANGED <<dir, reader, mixed, found>>,
         cache' \in Cache, IsTrue(cache) => IsTrue(cache')
  PROVE  RInv'
<1> USE DEF RInv
<1>1. reader.pc = "no" \/ ~reader.alone
  BY DEF AloneInv
<1>2. ReaderTypes'
  BY DEF ReaderTypes
<1>3. CacheTrue'
  BY DEF CacheTrue, IsTrue
<1>4. WayInv'
  BY DEF WayInv
<1>5. AloneInv'
  BY <1>1 DEF AloneInv
<1>6. EntryFound'
  BY DEF EntryFound
<1> QED BY <1>2, <1>3, <1>4, <1>5, <1>6

LEMMA LookKeeps ==
  ASSUME LInv, NEW c \in Cache, phase # "scan", NEW k \in Int, Top(dir) <= k, k < Len(list)
  PROVE  /\ Look(c, list[k + 1]).cache \in Cache
         /\ IsTrue(c) => IsTrue(Look(c, list[k + 1]).cache)
<1>1. Len(list) \in Nat /\ Top(dir) \in {0, 1}
  BY ListLen, TopIs DEF LInv
<1>2. k + 1 \in 1 .. Len(list) /\ k + 1 > Top(dir)
  BY <1>1
<1>3. list[k + 1] \in 0 .. Len(dir.entries) - 1
  BY <1>2, ItemIsEntry
<1> QED BY <1>3, LookTrue DEF LInv

LEMMA MakingCache ==
  ASSUME LInv, RInv, Making
  PROVE  /\ phase # "idle" /\ UNCHANGED <<dir, reader, mixed, found>>
         /\ cache' \in Cache /\ (IsTrue(cache) => IsTrue(cache'))
<1> USE DEF LInv
<1>1. cache \in Cache
  BY DEF RInv, ReaderTypes
<1>2. CASE Scan \/ SortExts \/ Groups
  <2>1. phase # "idle" /\ cache' = cache /\ UNCHANGED <<dir, reader, mixed, found>>
    BY <1>2 DEF Scan, SortExts, Groups
  <2>2. IsTrue(cache) => IsTrue(cache')
    BY <2>1
  <2> QED BY <1>1, <2>1, <2>2
<1>3. CASE Count
  <2>1. /\ phase = "count" /\ UNCHANGED <<dir, reader, mixed, found>>
        /\ cache' = cache \/ (i < Len(list) /\ cache' = Look(cache, list[i + 1]).cache)
    BY <1>3 DEF Count
  <2>2. Top(dir) <= i /\ i \in Int
    BY <2>1 DEF CountInv, TypeInv
  <2>3. cache' \in Cache /\ (IsTrue(cache) => IsTrue(cache'))
    BY <1>1, <2>1, <2>2, LookKeeps
  <2> QED BY <2>1, <2>3
<1>4. CASE Collect
  <2>1. /\ phase = "collect" /\ UNCHANGED <<dir, reader, mixed, found>>
        /\ cache' = cache \/ (i < Len(list) /\ cache' = Look(cache, list[i + 1]).cache)
    BY <1>4 DEF Collect
  <2>2. Top(dir) <= i /\ i \in Int
    BY <2>1, TopIs DEF CountInv, TypeInv
  <2>3. cache' \in Cache /\ (IsTrue(cache) => IsTrue(cache'))
    BY <1>1, <2>1, <2>2, LookKeeps
  <2> QED BY <2>1, <2>3
<1>5. CASE MakeExts
  <2>1. /\ phase = "exts" /\ UNCHANGED <<dir, reader, mixed, found>>
        /\ cache' = cache \/ (i < Len(list) /\ cache' = Look(cache, list[i + 1]).cache)
    BY <1>5 DEF MakeExts
  <2>2. Top(dir) <= i /\ i \in Int
    <3>1. i = directries + Len(exts) /\ Len(exts) \in Nat /\ directries \in Int
          /\ Top(dir) <= directries
      BY <2>1, LenProperties DEF ExtsInv, CountInv, TypeInv
    <3> QED BY <3>1, TopIs
  <2>3. cache' \in Cache /\ (IsTrue(cache) => IsTrue(cache'))
    BY <1>1, <2>1, <2>2, LookKeeps
  <2> QED BY <2>1, <2>3
<1>6. CASE Bubble
  <2> DEFINE c == Look(cache, list[area.j + 1]).cache
  <2>1. /\ phase = "area" /\ UNCHANGED <<dir, reader, mixed, found>>
        /\ cache' = Look(c, list[area.j + 2]).cache
    BY <1>6 DEF Bubble
  <2>2. /\ area.j \in Int /\ Top(dir) <= area.j /\ area.j < Len(list)
        /\ area.j + 1 \in Int /\ Top(dir) <= area.j + 1 /\ area.j + 1 < Len(list)
        /\ (area.j + 1) + 1 = area.j + 2
    <3>1. /\ Top(dir) <= area.lo /\ area.lo <= area.j /\ area.j < area.hi
          /\ area.hi <= Len(list) - 1 /\ area.lo \in Int /\ area.j \in Int /\ area.hi \in Int
      BY <2>1 DEF AreaInv, TypeInv
    <3>2. Len(list) \in Nat /\ Top(dir) \in {0, 1}
      BY ListLen, TopIs
    <3> QED BY <3>1, <3>2
  <2>3. c \in Cache /\ (IsTrue(cache) => IsTrue(c))
    BY <1>1, <2>1, <2>2, LookKeeps
  <2> HIDE DEF c
  <2>4. Look(c, list[(area.j + 1) + 1]).cache \in Cache
        /\ (IsTrue(c) => IsTrue(Look(c, list[(area.j + 1) + 1]).cache))
    BY <2>1, <2>2, <2>3, LookKeeps
  <2>5. cache' \in Cache /\ (IsTrue(cache) => IsTrue(cache'))
    BY <2>1, <2>2, <2>3, <2>4
  <2> QED BY <2>1, <2>5
<1> QED BY <1>2, <1>3, <1>4, <1>5, <1>6 DEF Making

LEMMA MakingStep ==
  ASSUME LInv, RInv, Making
  PROVE  RInv'
BY MakingCache, MakingReader

LEMMA HandlerReader ==
  ASSUME LInv, RInv, NEW k \in Items, HandlerLooks(k)
  PROVE  RInv'
<1> USE DEF RInv
<1> DEFINE e == list[k + 1]
<1>1. /\ phase = "idle" /\ phase' = phase /\ dir' = dir /\ mixed' = mixed
      /\ cache' = Look(cache, e).cache
      /\ reader' = [reader EXCEPT !.alone = reader.alone /\ reader.pc # "hit"]
      /\ found' = [e |-> e, cluster |-> Look(cache, e).cluster,
                   alone |-> ~mixed /\ reader.pc # "walk"]
  BY DEF HandlerLooks, sorting
<1>2. cache \in Cache /\ reader \in Reader /\ mixed \in BOOLEAN /\ TypeInv
  BY DEF ReaderTypes, LInv
<1>3. e \in 0 .. Len(dir.entries) - 1 /\ e \in Int
  <2>1. k + 1 \in 1 .. Len(list) /\ e # SETTINGS
    BY ListLen DEF Items, LInv
  <2>2. e \in 0 .. Len(dir.entries) - 1
    BY <1>1, <2>1, ItemIsEntry
  <2> QED BY <2>2, Directory DEF LInv
<1> HIDE DEF e
<1>4. /\ Look(cache, e).cache \in Cache /\ Look(cache, e).cluster \in Nat
      /\ IsTrue(cache) => /\ IsTrue(Look(cache, e).cache)
                        /\ Look(cache, e).cluster = dir.chain[e \div PER + 1]
  BY <1>2, <1>3, LookTrue
<1>5. /\ reader' \in Reader /\ reader'.pc = reader.pc /\ reader'.way = reader.way
      /\ reader'.n = reader.n /\ reader'.e = reader.e /\ reader'.cluster = reader.cluster
      /\ reader'.alone => reader.alone /\ reader.pc # "hit"
  <2>1. (reader.alone /\ reader.pc # "hit") \in BOOLEAN
    BY Zenon
  <2>2. reader' \in Reader
    BY <1>1, <1>2, <2>1 DEF Reader
  <2>3. /\ reader'.pc = reader.pc /\ reader'.way = reader.way
        /\ reader'.n = reader.n /\ reader'.e = reader.e /\ reader'.cluster = reader.cluster
    BY <1>1, <1>2 DEF Reader
  <2>4. reader'.alone = (reader.alone /\ reader.pc # "hit")
    BY <1>1, <1>2 DEF Reader
  <2> QED BY <2>2, <2>3, <2>4
<1>6. ReaderTypes'
  <2>1. (~mixed /\ reader.pc # "walk") \in BOOLEAN
    BY Zenon
  <2>2. found' \in [e : Int, cluster : Nat, alone : BOOLEAN]
    BY <1>1, <1>3, <1>4, <2>1
  <2>3. cache' \in Cache /\ mixed' \in BOOLEAN
    BY <1>1, <1>2, <1>4
  <2> QED BY <1>5, <2>2, <2>3 DEF ReaderTypes
<1>7. CacheTrue'
  BY <1>1, <1>4, <1>5 DEF CacheTrue, IsTrue
<1>8. WayInv'
  BY <1>1, <1>5 DEF WayInv
<1>9. AloneInv'
  BY <1>1, <1>5 DEF AloneInv
<1>10. EntryFound'
  <2>1. found'.e = e /\ found'.cluster = Look(cache, e).cluster
        /\ found'.alone = (~mixed /\ reader.pc # "walk")
    BY <1>1
  <2>2. ~mixed /\ reader.pc # "walk" => Look(cache, e).cluster = dir.chain[e \div PER + 1]
    BY <1>4 DEF CacheTrue
  <2> QED BY <1>1, <2>1, <2>2 DEF EntryFound
<1> QED BY <1>6, <1>7, <1>8, <1>9, <1>10

LEMMA MainLooksReader ==
  ASSUME LInv, RInv, NEW k \in Items, MainLooks(k)
  PROVE  RInv'
<1> USE DEF RInv
<1> DEFINE e == list[k + 1]
           n == e \div PER
           way == SubSeq(dir.chain, 2, n + 1)
           pc == IF cache.set /\ cache.n = n THEN "hit" ELSE IF n = 0 THEN "read" ELSE "walk"
<1>1. /\ phase = "idle" /\ phase' = phase /\ dir' = dir /\ mixed' = mixed
      /\ cache' = cache /\ found' = found /\ reader.pc = "no"
      /\ reader' = [pc |-> pc, e |-> e, n |-> n, way |-> way,
                    cluster |-> dir.chain[1], alone |-> ~mixed]
  BY DEF MainLooks, sorting
<1>2. TypeInv /\ mixed \in BOOLEAN /\ Len(dir.chain) \in Nat /\ Len(dir.chain) >= 1
      /\ dir.chain \in Seq(Nat)
  BY Directory DEF ReaderTypes, LInv, IsDirectory
<1>3. e \in 0 .. Len(dir.entries) - 1 /\ e \in Int
  <2>1. k + 1 \in 1 .. Len(list) /\ e # SETTINGS
    BY ListLen DEF Items, LInv
  <2>2. e \in 0 .. Len(dir.entries) - 1
    BY <1>1, <2>1, ItemIsEntry
  <2> QED BY <2>2, Directory DEF LInv
<1> HIDE DEF e
<1>4. n \in 0 .. Len(dir.chain) - 1
  BY <1>2, <1>3, InChain
<1>5. n \in Int
  BY <1>2, <1>4
<1> HIDE DEF n
<1>6. way \in Seq(Nat) /\ Len(way) = n /\ \A m \in 1 .. n : way[m] = dir.chain[m + 1]
  <2>1. \A m \in 2 .. n + 1 : m \in 1 .. Len(dir.chain)
    BY <1>2, <1>4, <1>5
  <2>2. /\ way \in Seq(Nat)
        /\ Len(way) = IF 2 <= n + 1 THEN n + 1 - 2 + 1 ELSE 0
        /\ \A m \in 1 .. n + 1 - 2 + 1 : way[m] = dir.chain[2 + m - 1]
    BY <1>2, <1>4, <1>5, <2>1, SubSeqProperties
  <2>3. Len(way) = n /\ n + 1 - 2 + 1 = n
    BY <1>4, <1>5, <2>2
  <2>4. \A m \in 1 .. n : 2 + m - 1 = m + 1
    BY <1>5
  <2> QED BY <2>2, <2>3, <2>4
<1> HIDE DEF way
<1>7. dir.chain[1] \in Nat
  BY <1>2, ElementOfSeq
<1>8. pc \in {"hit", "read", "walk"} /\ (pc = "hit" => cache.set /\ cache.n = n)
      /\ (pc = "read" => n = 0) /\ (pc = "walk" => n # 0)
  OBVIOUS
<1> HIDE DEF pc
<1>9. /\ reader'.pc = pc /\ reader'.e = e /\ reader'.n = n /\ reader'.way = way
      /\ reader'.cluster = dir.chain[1] /\ reader'.alone = ~mixed
  BY <1>1
<1>10. ReaderTypes'
  <2>1. (~mixed) \in BOOLEAN
    BY Zenon
  <2>2. reader' \in Reader
    BY <1>1, <1>3, <1>5, <1>6, <1>7, <1>8, <2>1 DEF Reader
  <2> QED BY <1>1, <2>2 DEF ReaderTypes
<1>11. CacheTrue'
  BY <1>1 DEF CacheTrue, IsTrue
<1>12. WayInv'
  <2>1. pc = "walk" => way # <<>>
    BY <1>6, <1>8
  <2>2. \A m \in 1 .. Len(way) : n + 1 - Len(way) + m = m + 1
    BY <1>5, <1>6
  <2>3. \A m \in 1 .. Len(way) : way[m] = dir.chain[n + 1 - Len(way) + m]
    BY <1>6, <2>2
  <2>4. Len(way) <= n
    BY <1>5, <1>6
  <2> QED BY <1>1, <1>4, <1>9, <2>1, <2>3, <2>4 DEF WayInv
<1>13. AloneInv'
  <2>1. reader'.n = reader'.e \div PER
    BY <1>9 DEF n
  <2>2. pc = "read" => dir.chain[1] = dir.chain[n + 1]
    BY <1>8
  <2> QED BY <1>1, <1>4, <1>8, <1>9, <2>1, <2>2 DEF AloneInv
<1>14. EntryFound'
  BY <1>1 DEF EntryFound
<1> QED BY <1>10, <1>11, <1>12, <1>13, <1>14

LEMMA MainHitsReader ==
  ASSUME LInv, RInv, MainHits
  PROVE  RInv'
<1> USE DEF RInv
<1>1. /\ phase = "idle" /\ phase' = phase /\ dir' = dir /\ mixed' = mixed
      /\ cache' = cache /\ found' = found /\ reader.pc = "hit"
      /\ reader' = [reader EXCEPT !.pc = "read", !.cluster = cache.cluster]
  BY DEF MainHits, sorting
<1>2. reader \in Reader /\ cache \in Cache
  BY DEF ReaderTypes
<1>3. cache.cluster \in Nat
  BY <1>2 DEF Cache
<1>4. reader' \in Reader
  BY <1>1, <1>2, <1>3 DEF Reader
<1>5. /\ reader'.pc = "read" /\ reader'.e = reader.e /\ reader'.n = reader.n
      /\ reader'.cluster = cache.cluster /\ reader'.alone = reader.alone
  BY <1>1, <1>2 DEF Reader
<1>6. ReaderTypes'
  BY <1>1, <1>4 DEF ReaderTypes
<1>7. CacheTrue'
  BY <1>1, <1>5 DEF CacheTrue, IsTrue
<1>8. WayInv'
  BY <1>5 DEF WayInv
<1>9. AloneInv'
  <2>1. reader.alone => cache.cluster = dir.chain[reader.n + 1]
    BY <1>1 DEF AloneInv, CacheTrue, IsTrue
  <2> QED BY <1>1, <1>5, <2>1 DEF AloneInv
<1>10. EntryFound'
  BY <1>1 DEF EntryFound
<1> QED BY <1>6, <1>7, <1>8, <1>9, <1>10

LEMMA MainWalksReader ==
  ASSUME LInv, RInv, MainWalks
  PROVE  RInv'
<1> USE DEF RInv
<1> DEFINE way == reader.way
           n == reader.n
           pc == IF Len(way) > 1 THEN "walk" ELSE "read"
<1>1. /\ phase = "idle" /\ phase' = phase /\ dir' = dir /\ mixed' = mixed
      /\ cache' = [set |-> TRUE, n |-> n, cluster |-> Head(way)]
      /\ found' = found /\ reader.pc = "walk"
      /\ reader' = [reader EXCEPT !.pc = pc, !.cluster = Head(way), !.way = Tail(way)]
  BY DEF MainWalks, sorting
<1>2. reader \in Reader /\ way \in Seq(Nat) /\ way # <<>> /\ n \in Int
  BY <1>1 DEF ReaderTypes, Reader, WayInv
<1>3. /\ Len(way) \in Nat /\ Len(way) >= 1 /\ Head(way) \in Nat /\ Head(way) = way[1]
      /\ Tail(way) \in Seq(Nat) /\ Len(Tail(way)) = Len(way) - 1
      /\ \A k \in 1 .. Len(Tail(way)) : Tail(way)[k] = way[k + 1]
  <2>1. Len(way) \in Nat /\ Len(way) # 0
    BY <1>2, EmptySeq, LenProperties
  <2>2. Head(way) \in Nat /\ Tail(way) \in Seq(Nat) /\ Len(Tail(way)) = Len(way) - 1
        /\ Head(way) = way[1] /\ \A k \in 1 .. Len(Tail(way)) : Tail(way)[k] = way[k + 1]
    BY <1>2, HeadTailProperties
  <2> QED BY <2>1, <2>2
<1>4. ~mixed => /\ n \in 0 .. Len(dir.chain) - 1 /\ Len(way) <= n
                /\ \A k \in 1 .. Len(way) : way[k] = dir.chain[n + 1 - Len(way) + k]
  BY <1>1 DEF WayInv
<1>5. /\ reader'.pc = pc /\ reader'.e = reader.e /\ reader'.n = n /\ reader'.way = Tail(way)
      /\ reader'.cluster = Head(way) /\ reader'.alone = reader.alone
  BY <1>1, <1>2 DEF Reader
<1>6. reader' \in Reader
  BY <1>1, <1>2, <1>3 DEF Reader
<1>7. cache'.set /\ cache'.n = n /\ cache'.cluster = Head(way) /\ cache' \in Cache
  BY <1>1, <1>2, <1>3 DEF Cache
<1>8. pc # "walk" /\ ~mixed => Head(way) = dir.chain[n + 1]
  <2> DEFINE L == Len(way)
  <2>0. L \in Nat /\ L >= 1
    BY <1>3
  <2>a. pc # "walk" => L = 1
    <3> HIDE DEF L
    <3>1. ~(L > 1) => L = 1
      BY <2>0
    <3>2. pc # "walk" => ~(L > 1)
      BY DEF L
    <3> QED BY <3>1, <3>2
  <2> SUFFICES ASSUME Len(way) = 1, ~mixed PROVE way[1] = dir.chain[n + 1]
    <3>1. Head(way) = way[1]
      BY <1>3
    <3> HIDE DEF way, pc, n
    <3> QED BY <2>a, <3>1
  <2>1. 1 \in 1 .. Len(way) /\ n + 1 - Len(way) + 1 = n + 1
    BY <1>2
  <2> QED BY <1>4, <2>1
<1>9. ~mixed => \A k \in 1 .. Len(Tail(way)) :
                  Tail(way)[k] = dir.chain[n + 1 - Len(Tail(way)) + k]
  <2> SUFFICES ASSUME ~mixed, NEW k \in 1 .. Len(Tail(way))
               PROVE  Tail(way)[k] = dir.chain[n + 1 - Len(Tail(way)) + k]
    OBVIOUS
  <2>1. k + 1 \in 1 .. Len(way) /\ n + 1 - Len(way) + (k + 1) = n + 1 - Len(Tail(way)) + k
    <3> DEFINE L == Len(way)
               M == Len(Tail(way))
    <3>1. L \in Nat /\ M = L - 1 /\ k \in 1 .. M /\ n \in Int
      BY <1>2, <1>3
    <3> HIDE DEF L, M, n
    <3>2. k + 1 \in 1 .. L /\ n + 1 - L + (k + 1) = n + 1 - M + k
      BY <3>1
    <3> QED BY <3>2 DEF L, M
  <2>2. way[k + 1] = dir.chain[n + 1 - Len(way) + (k + 1)]
    BY <1>4, <2>1
  <2> QED BY <1>3, <2>1, <2>2
<1>10. pc = "walk" => Tail(way) # <<>>
  <2>1. pc = "walk" => Len(Tail(way)) # 0
    <3> DEFINE L == Len(way)
               M == Len(Tail(way))
    <3>1. L \in Nat /\ M = L - 1 /\ (pc = "walk" => L > 1)
      BY <1>3
    <3> HIDE DEF L, M, pc
    <3>2. pc = "walk" => M # 0
      BY <3>1
    <3> QED BY <3>2 DEF M
  <2> QED BY <2>1
<1>11. Len(way) <= n => Len(Tail(way)) <= n
  BY <1>2, <1>3
<1>12. pc \in {"walk", "read"}
  OBVIOUS
<1> HIDE DEF way, n, pc
<1>13. ReaderTypes'
  BY <1>1, <1>6, <1>7 DEF ReaderTypes
<1>14. CacheTrue'
  BY <1>1, <1>4, <1>5, <1>7, <1>8 DEF CacheTrue, IsTrue
<1>15. WayInv'
  BY <1>1, <1>4, <1>5, <1>9, <1>10, <1>11 DEF WayInv
<1>16. AloneInv'
  BY <1>1, <1>5, <1>8, <1>12 DEF AloneInv, n
<1>17. EntryFound'
  BY <1>1 DEF EntryFound
<1> QED BY <1>13, <1>14, <1>15, <1>16, <1>17

LEMMA MainReadsReader ==
  ASSUME LInv, RInv, MainReads
  PROVE  RInv'
<1> USE DEF RInv
<1>1. /\ phase = "idle" /\ phase' = phase /\ dir' = dir /\ mixed' = mixed
      /\ cache' = cache /\ reader.pc = "read" /\ reader' = NoReader
      /\ found' = [e |-> reader.e, cluster |-> reader.cluster, alone |-> reader.alone]
  BY DEF MainReads, sorting
<1>2. reader'.pc = "no" /\ NoReader \in Reader
  BY <1>1, EmptySeq DEF NoReader, Reader
<1>3. ReaderTypes'
  <2>1. reader.e \in Int /\ reader.cluster \in Nat /\ reader.alone \in BOOLEAN
    BY DEF ReaderTypes, Reader
  <2>2. found' \in [e : Int, cluster : Nat, alone : BOOLEAN]
    BY <1>1, <2>1
  <2> QED BY <1>1, <1>2, <2>2 DEF ReaderTypes
<1>4. CacheTrue'
  BY <1>1 DEF CacheTrue, IsTrue
<1>5. WayInv' /\ AloneInv'
  BY <1>1, <1>2 DEF WayInv, AloneInv
<1>6. EntryFound'
  <2>1. found'.e = reader.e /\ found'.cluster = reader.cluster /\ found'.alone = reader.alone
    BY <1>1
  <2>2. reader.alone => reader.cluster = dir.chain[reader.e \div PER + 1]
    BY <1>1 DEF AloneInv
  <2> QED BY <1>1, <2>1, <2>2 DEF EntryFound
<1> QED BY <1>3, <1>4, <1>5, <1>6

LEMMA NextReader ==
  ASSUME LInv, RInv, [Next]_vars
  PROVE  RInv'
<1>1. CASE Making
  BY <1>1, MakingStep
<1>2. CASE \E d \in card : Open(d)
  BY <1>2, OpenReader
<1>3. ASSUME NEW k \in Items, HandlerLooks(k) \/ MainLooks(k)
      PROVE  RInv'
  BY <1>3, HandlerReader, MainLooksReader
<1>4. CASE MainHits \/ MainWalks \/ MainReads
  BY <1>4, MainHitsReader, MainWalksReader, MainReadsReader
<1>5. CASE UNCHANGED vars
  BY <1>5 DEF vars, sorting, RInv, ReaderTypes, CacheTrue, IsTrue, WayInv, AloneInv, EntryFound
<1> QED BY <1>1, <1>2, <1>3, <1>4, <1>5 DEF Next

(* The cached walk ends in the cluster of the item's entry, for every       *)
(* sequence of looks and lists (getListEntryPoint).                        *)
THEOREM EntryIsFound == Spec => []EntryFound
<1>1. Init => LInv /\ RInv
  BY InitList, InitReader
<1>2. (LInv /\ RInv) /\ [Next]_vars => (LInv /\ RInv)'
  BY NextList, NextReader
<1>3. RInv => EntryFound
  BY DEF RInv
<1> QED BY <1>1, <1>2, <1>3, PTL DEF Spec
-----------------------------------------------------------------------------
(* Entries and names as the sort reads them *)

LEMMA DivIs ==
  ASSUME NEW x \in Int, NEW d \in Nat \ {0}, NEW q \in Int, q * d <= x, x < (q + 1) * d
  PROVE  x \div d = q /\ x % d = x - q * d
<1> DEFINE p == x \div d
           r == x % d
<1>1. p \in Int /\ r \in 0 .. d - 1 /\ x = p * d + r
  <2>1. x = d * (x \div d) + (x % d) /\ x \div d \in Int /\ x % d \in 0 .. d - 1
    OBVIOUS
  <2>2. d * p = p * d
    BY <2>1
  <2> QED BY <2>1, <2>2
<1> HIDE DEF p, r
<1>2. (q + 1) * d = q * d + d /\ q * d \in Int /\ p * d \in Int
  BY <1>1
<1>3. ~(p < q)
  <2> SUFFICES ASSUME p < q PROVE FALSE
    OBVIOUS
  <2>1. q - p - 1 \in Nat
    BY <1>1
  <2>2. (q - p - 1) * d >= 0
    BY <2>1
  <2>3. (q - p - 1) * d = q * d - p * d - d
    BY <1>1
  <2> QED BY <1>1, <1>2, <2>2, <2>3
<1>4. ~(q < p)
  <2> SUFFICES ASSUME q < p PROVE FALSE
    OBVIOUS
  <2>1. p - q - 1 \in Nat
    BY <1>1
  <2>2. (p - q - 1) * d >= 0
    BY <2>1
  <2>3. (p - q - 1) * d = p * d - q * d - d
    BY <1>1
  <2> QED BY <1>1, <1>2, <2>2, <2>3
<1>5. p = q
  BY <1>1, <1>3, <1>4
<1> QED BY <1>1, <1>2, <1>5 DEF p, r

LEMMA Parted ==
  ASSUME NEW x \in Int
  PROVE  \E n \in Int, r \in 0 .. PER - 1 :
           n = x \div PER /\ r = x % PER /\ x = n * PER + r
<1>1. PER \in Nat /\ PER >= 1
  BY PerPos
<1>2. x = PER * (x \div PER) + (x % PER) /\ x \div PER \in Int /\ x % PER \in 0 .. PER - 1
  BY <1>1
<1> DEFINE n == x \div PER
           r == x % PER
<1>3. x = PER * n + r /\ n \in Int /\ r \in 0 .. PER - 1
  BY <1>2
<1> HIDE DEF n, r
<1>4. PER * n = n * PER
  BY <1>1, <1>3
<1>5. n \in Int /\ r \in 0 .. PER - 1 /\ x = n * PER + r
  BY <1>3, <1>4
<1>6. n = x \div PER /\ r = x % PER
  BY DEF n, r
<1> QED BY <1>5, <1>6

LEMMA AtPlace ==
  ASSUME TypeInv, NEW x \in 0 .. Len(dir.entries) - 1, NEW cluster,
         cluster = dir.chain[x \div PER + 1]
  PROVE  EntryAt(cluster, x % PER) = Entry(x)
<1> DEFINE n == x \div PER
           off == x % PER
           k0 == CHOOSE k \in DOMAIN dir.chain : dir.chain[k] = cluster
<1>1. Len(dir.entries) \in Nat /\ x \in Int /\ Len(dir.chain) \in Nat
  BY Directory
<1>2. n \in 0 .. Len(dir.chain) - 1
  BY InChain
<1>3. n * PER + off = x
  <2>1. PICK m \in Int, r \in 0 .. PER - 1 :
          m = x \div PER /\ r = x % PER /\ x = m * PER + r
    BY <1>1, Parted
  <2>2. n = m /\ off = r
    BY <2>1
  <2> HIDE DEF n, off
  <2> QED BY <2>1, <2>2
<1> HIDE DEF n, off
<1>4. n + 1 \in DOMAIN dir.chain /\ dir.chain[n + 1] = cluster /\ (n + 1) - 1 = n
  <2>1. DOMAIN dir.chain = 1 .. Len(dir.chain)
    BY Directory, LenProperties DEF IsDirectory
  <2> QED BY <1>1, <1>2, <2>1 DEF n
<1>5. k0 \in DOMAIN dir.chain /\ dir.chain[k0] = cluster
  BY <1>4
<1>6. k0 = n + 1
  BY <1>4, <1>5, Directory DEF IsDirectory
<1> HIDE DEF k0
<1>7. ((n + 1) - 1) * PER + off = x /\ x < Len(dir.entries)
  BY <1>1, <1>3, <1>4
<1>8. EntryAt(cluster, off) = Entry((k0 - 1) * PER + off)
  BY <1>4, <1>7 DEF EntryAt, k0
<1> QED BY <1>4, <1>6, <1>7, <1>8 DEF off

LEMMA ReadTrue ==
  ASSUME TypeInv, NEW c \in Cache, IsTrue(c), NEW e \in 0 .. Len(dir.entries) - 1
  PROVE  Read(c, e) = Entry(e)
<1>1. Look(c, e).cluster = dir.chain[e \div PER + 1]
  BY LookTrue
<1> QED BY <1>1, AtPlace DEF Read

LEMMA PartTrue ==
  ASSUME TypeInv, Followed, NEW c \in Cache, IsTrue(c),
         NEW e \in 0 .. Len(dir.entries) - 1, NEW p \in Nat \ {0}
  PROVE  Part(c, e, p) = IF p <= e THEN Entry(e - p) ELSE Blank
<1> DEFINE x == e - p
           n == e \div PER
           q == e \div ENTRIES
<1>1. /\ e \in Int /\ x \in Int /\ x < e /\ 0 <= e /\ Len(dir.entries) \in Nat
      /\ ENTRIES \in Nat \ {0} /\ SECTORS \in Nat \ {0} /\ PER \in Nat \ {0}
      /\ Len(dir.chain) \in Nat
  BY Directory, PerPos, CardAssumption
<1>2. (p <= e) = (x >= 0) /\ (p <= e => x \in 0 .. Len(dir.entries) - 1)
  BY <1>1
<1>3. n \in 0 .. Len(dir.chain) - 1 /\ n * PER <= e /\ e < (n + 1) * PER
  <2>1. n \in 0 .. Len(dir.chain) - 1
    BY <1>1, InChain
  <2>2. PICK m \in Int, r \in 0 .. PER - 1 :
          m = e \div PER /\ r = e % PER /\ e = m * PER + r
    BY <1>1, Parted
  <2>3. n = m
    BY <2>2
  <2> HIDE DEF n
  <2>4. (m + 1) * PER = m * PER + PER /\ m * PER \in Int
    BY <1>1, <2>2
  <2> QED BY <1>1, <2>1, <2>2, <2>3, <2>4
<1>4. CASE x \div ENTRIES = q
  <2>1. q \in Int /\ q * ENTRIES <= x /\ e < (q + 1) * ENTRIES /\ x < (q + 1) * ENTRIES
    <3>1. /\ x = ENTRIES * (x \div ENTRIES) + (x % ENTRIES) /\ x % ENTRIES \in 0 .. ENTRIES - 1
          /\ e = ENTRIES * q + (e % ENTRIES) /\ e % ENTRIES \in 0 .. ENTRIES - 1
          /\ q \in Int
      BY <1>1
    <3> HIDE DEF q, x
    <3>2. ENTRIES * q = q * ENTRIES /\ (q + 1) * ENTRIES = q * ENTRIES + ENTRIES
          /\ q * ENTRIES \in Int
      BY <1>1, <3>1
    <3> QED BY <1>1, <1>4, <3>1, <3>2
  <2>2. n * PER <= q * ENTRIES
    <3>1. n * PER = (n * SECTORS) * ENTRIES /\ n * SECTORS \in Int
      <4> HIDE DEF n
      <4> QED BY <1>1, <1>3 DEF PER
    <3>2. ~(q < n * SECTORS)
      <4> SUFFICES ASSUME q < n * SECTORS PROVE FALSE
        OBVIOUS
      <4> DEFINE t == n * SECTORS
      <4>1. t \in Int /\ q + 1 <= t /\ t * ENTRIES <= e /\ q \in Int
        BY <1>1, <1>3, <2>1, <3>1
      <4> HIDE DEF t, q
      <4>2. t - (q + 1) \in Nat
        BY <4>1
      <4>3. (t - (q + 1)) * ENTRIES >= 0
        BY <1>1, <4>2
      <4>4. (t - (q + 1)) * ENTRIES = t * ENTRIES - (q + 1) * ENTRIES
            /\ t * ENTRIES \in Int /\ (q + 1) * ENTRIES \in Int
        BY <1>1, <4>1
      <4> QED BY <1>1, <2>1, <4>1, <4>3, <4>4
    <3> DEFINE t == n * SECTORS
    <3>3. q - t \in Nat /\ t \in Int /\ q \in Int
      BY <2>1, <3>1, <3>2
    <3> HIDE DEF t, q
    <3>4. (q - t) * ENTRIES >= 0 /\ (q - t) * ENTRIES = q * ENTRIES - t * ENTRIES
          /\ t * ENTRIES \in Int /\ q * ENTRIES \in Int
      BY <1>1, <3>3
    <3> QED BY <3>1, <3>4 DEF t
  <2>3. n * PER <= x /\ x < (n + 1) * PER
    <3> HIDE DEF n, q, x
    <3>1. n * PER \in Int /\ q * ENTRIES \in Int /\ n \in Int /\ (n + 1) * PER \in Int
      BY <1>1, <1>3, <2>1
    <3> QED BY <1>1, <1>3, <2>1, <2>2, <3>1
  <2>4. x \div PER = n
    <3> HIDE DEF n, x
    <3>1. n \in Int
      BY <1>1, <1>3
    <3> QED BY <1>1, <2>3, <3>1, DivIs
  <2>5. n * PER \in Nat
    <3> HIDE DEF n
    <3> QED BY <1>1, <1>3
  <2>6. p <= e
    BY <1>1, <1>2, <2>3, <2>5
  <2>7. Look(c, e).cluster = dir.chain[x \div PER + 1]
    BY <2>4, LookTrue
  <2>8. Part(c, e, p) = EntryAt(Look(c, e).cluster, x % PER)
    BY <1>4 DEF Part
  <2> QED BY <1>2, <2>6, <2>7, <2>8, AtPlace
<1>5. CASE x \div ENTRIES # q
  <2> DEFINE m == x \div PER
  <2>1. Part(c, e, p) = EntryAt(dir.chain[1] + m, x % PER)
    BY <1>5 DEF Part
  <2>2. DOMAIN dir.chain = 1 .. Len(dir.chain) /\ dir.chain[1] \in Nat
    BY Directory, LenProperties, ElementOfSeq DEF IsDirectory
  <2>3. CASE p <= e
    <3>1. m \in 0 .. Len(dir.chain) - 1
      BY <1>2, <2>3, InChain
    <3>2. m + 1 \in DOMAIN dir.chain /\ (m + 1) - 1 = m
      <4> HIDE DEF m
      <4> QED BY <1>1, <2>2, <3>1
    <3>3. dir.chain[1] + m = dir.chain[m + 1]
      <4> HIDE DEF m
      <4>1. dir.chain[m + 1] = dir.chain[1] + (m + 1) - 1
        BY <3>2 DEF Followed
      <4> QED BY <1>1, <2>2, <3>1, <4>1
    <3> QED BY <1>2, <2>1, <2>3, <3>3, AtPlace
  <2>4. CASE ~(p <= e)
    <3>1. m < 0 /\ m \in Int
      <4>1. PICK k \in Int, r \in 0 .. PER - 1 :
              k = x \div PER /\ r = x % PER /\ x = k * PER + r
        BY <1>1, Parted
      <4>2. m = k
        BY <4>1
      <4>3. x < 0
        BY <1>1, <1>2, <2>4
      <4> HIDE DEF m, x
      <4>4. k >= 0 => k * PER >= 0
        BY <1>1, <4>1
      <4> QED BY <1>1, <4>1, <4>2, <4>3, <4>4
    <3>2. \A k \in DOMAIN dir.chain : dir.chain[k] # dir.chain[1] + m
      <4> HIDE DEF m
      <4>1. \A k \in DOMAIN dir.chain : k \in Int /\ k >= 1 /\ dir.chain[k] = dir.chain[1] + k - 1
        BY <1>1, <2>2 DEF Followed
      <4> QED BY <2>2, <3>1, <4>1
    <3> QED BY <2>1, <2>4, <3>2 DEF EntryAt
  <2> QED BY <2>3, <2>4
<1> QED BY <1>4, <1>5

(* The clusters of the directory following each other, the name that is     *)
(* compared is the entry's own.                                            *)
LEMMA NameTrue ==
  ASSUME TypeInv, Followed, NEW c \in Cache, IsTrue(c), NEW e \in 0 .. Len(dir.entries) - 1
  PROVE  setFileName(c, e) = OwnName(e)
<1>1. e \in Nat /\ PARTS \in Nat /\ PARTS >= 1
  BY Directory, CardAssumption
<1>2. \A p \in Nat \ {0} : Part(c, e, p) = IF p <= e THEN Entry(e - p) ELSE Blank
  BY PartTrue
<1>3. \A p \in 1 .. PARTS : IsPart(c, e, p) <=>
        p <= e /\ Entry(e - p).kind = "lfn" /\ Entry(e - p).seq = p
  <2>1. \A p \in 1 .. PARTS : p \in Nat \ {0}
    BY <1>1
  <2> QED BY <1>2, <2>1 DEF IsPart, Blank
<1>4. ASSUME setLFNname(c, e) PROVE LongName(e)
  <2>1. PICK m \in 1 .. PARTS :
          /\ \A p \in 1 .. m : IsPart(c, e, p)
          /\ Part(c, e, m).last \/ m = PARTS
    BY <1>4 DEF setLFNname
  <2>2. \A p \in 1 .. m : p \in 1 .. PARTS
    BY <1>1
  <2>3. \A p \in 1 .. m : p <= e /\ Entry(e - p).kind = "lfn" /\ Entry(e - p).seq = p
    BY <1>3, <2>1, <2>2
  <2>4. m \in Nat \ {0} /\ m \in 1 .. m
    BY <1>1
  <2>5. m <= e /\ Part(c, e, m) = Entry(e - m)
    BY <1>2, <2>3, <2>4
  <2> QED BY <2>1, <2>3, <2>5 DEF LongName
<1>5. ASSUME LongName(e) PROVE setLFNname(c, e)
  <2> DEFINE T == {m \in 1 .. PARTS : Part(c, e, m).last \/ m = PARTS}
             Good(m) == m <= e /\ \A p \in 1 .. m : Entry(e - p).kind = "lfn" /\ Entry(e - p).seq = p
  <2>1. PICK m \in 1 .. PARTS : Good(m) /\ (Entry(e - m).last \/ m = PARTS)
    BY <1>5 DEF LongName
  <2>2. m \in T
    BY <1>1, <1>2, <2>1
  <2>3. T \subseteq Nat
    BY <1>1
  <2>4. PICK n \in T : \A k \in T : n <= k
    <3> HIDE DEF T
    <3> QED BY <2>2, <2>3, LeastNat
  <2>5. n \in 1 .. PARTS /\ n <= m /\ (Part(c, e, n).last \/ n = PARTS)
    BY <2>2, <2>4
  <2>6. \A p \in 1 .. n : p \in 1 .. m /\ p <= e /\ p \in 1 .. PARTS
    BY <1>1, <2>1, <2>5
  <2>7. \A p \in 1 .. n : IsPart(c, e, p)
    BY <1>3, <2>1, <2>6
  <2>8. \A p \in 1 .. n - 1 : ~Part(c, e, p).last
    <3> SUFFICES ASSUME NEW p \in 1 .. n - 1, Part(c, e, p).last PROVE FALSE
      OBVIOUS
    <3>1. p \in T /\ ~(n <= p)
      BY <1>1, <2>5
    <3> QED BY <2>4, <3>1
  <2> QED BY <2>5, <2>7, <2>8 DEF setLFNname
<1>6. ASSUME LongName(e) PROVE Part(c, e, 1) = Entry(e - 1)
  <2>1. 1 <= e /\ 1 \in Nat \ {0}
    BY <1>1, <1>6 DEF LongName
  <2> QED BY <1>2, <2>1
<1>7. Read(c, e) = Entry(e)
  BY ReadTrue
<1> QED BY <1>4, <1>5, <1>6, <1>7 DEF setFileName, OwnName

-----------------------------------------------------------------------------
(* The inductive invariant of the sort *)

IsDir(e) == Entry(e).kind = "dir"
AllDirs == {e \in 0 .. Len(dir.entries) - 1 : Visible(dir, e) /\ IsDir(e)}
Dirs(n) == {e \in AllDirs : \E k \in Top(dir) + 1 .. n : list[k] = e}

Sorting == phase \in {"area", "exts", "extension", "groups"}
InGroups == phase = "groups" \/ (phase = "area" /\ area.next = "groups")

(* What the sort reads is what is there ... *)
TruthInv == phase # "idle" => IsTrue(cache)

(* ... the first item is a directory that stays where it is ... *)
UpInv ==
  /\ phase = "scan" /\ ~dir.root /\ i <= 1 => list = <<>>
  /\ phase = "scan" /\ ~dir.root /\ i > 1 => Len(list) >= 1 /\ list[1] = 1
  /\ phase # "scan" => Len(list) >= 1 /\ list[1] = IF dir.root THEN SETTINGS ELSE 1
  /\ phase = "collect" /\ i >= 1 => idx_dir >= 1
  /\ Sorting => directries >= 1

(* ... the directories are counted rightly ... *)
NumberInv ==
  /\ phase = "count" => /\ directries = Cardinality(Dirs(i))
                        /\ archives = i - Top(dir) - directries
  /\ phase = "collect" \/ Sorting =>
       /\ directries = Top(dir) + Cardinality(AllDirs)
       /\ archives = Len(list) - directries

(* ... and come before the files.                                          *)
SplitInv ==
  /\ phase = "collect" =>
       /\ \A k \in Top(dir) + 1 .. idx_dir : IsDir(list[k])
       /\ \A k \in idx_dir + 1 .. i : ~IsDir(list[k])
  /\ Sorting =>
       /\ \A k \in Top(dir) + 1 .. directries : IsDir(list[k])
       /\ \A k \in directries + 1 .. Len(list) : ~IsDir(list[k])

(* An area ends where the directories or the files of one extension end.    *)
(* What is behind the part that is still sorted is in its place, and the   *)
(* largest item of a pass is carried on to its end.                        *)
End == IF area.next = "exts" THEN directries ELSE i

PassInv ==
  phase = "area" =>
    /\ area.hi < End /\ End <= Len(list)
    /\ IF area.next = "exts" THEN area.lo = 1 ELSE directries <= area.lo
    /\ \A m \in area.lo + 1 .. area.j : ByName(list[m], list[area.j + 1])
    /\ \A k \in area.hi + 2 .. End, m \in area.lo + 1 .. End :
         m < k => ByName(list[m], list[k])

DirsInv ==
  phase \in {"exts", "extension"} \/ InGroups =>
    \A k, m \in 2 .. directries : m < k => ByName(list[m], list[k])

(* The list of extensions has those of the items and is sorted likewise;   *)
(* then the files are in the order of their extensions, and those before   *)
(* the area, or before i, also of their names.                             *)
ExtensionInv ==
  /\ phase \in {"exts", "extension"} =>
       \A k \in 1 .. Len(exts) : exts[k].name = Entry(exts[k].id).ext
  /\ phase = "extension" =>
       /\ area.j <= area.hi
       /\ \A m \in 1 .. area.j : exts[m].name <= exts[area.j + 1].name
       /\ \A k \in area.hi + 2 .. Len(exts), m \in 1 .. Len(exts) :
            m < k => exts[m].name <= exts[k].name

InOrder == IF phase = "area" THEN area.lo ELSE i

FilesInv ==
  InGroups =>
    /\ \A k, m \in 1 .. Len(exts) : m < k => exts[m].name <= exts[k].name
    /\ \A k \in 1 .. Len(exts) : Entry(list[directries + k]).ext = exts[k].name
    /\ \A k \in i - directries + 1 .. Len(exts), m \in 1 .. i - directries :
         exts[m].name < exts[k].name
    /\ \A k \in InOrder - directries + 1 .. Len(exts), m \in 1 .. InOrder - directries :
         exts[m].name < exts[k].name
    /\ \A k, m \in InOrder - directries + 1 .. i - directries :
         exts[m].name = exts[k].name
    /\ \A k, m \in directries + 1 .. InOrder : m < k => Before(list[m], list[k])

SInv ==
  /\ TruthInv /\ UpInv /\ NumberInv /\ SplitInv
  /\ PassInv /\ DirsInv /\ ExtensionInv /\ FilesInv /\ Arranged

LEMMA ListIs ==
  ASSUME LInv, phase # "scan"
  PROVE  /\ list \in Seq(Int) /\ Len(list) \in Nat /\ Top(dir) \in {0, 1}
         /\ \A k \in Top(dir) + 1 .. Len(list) :
              list[k] \in 0 .. Len(dir.entries) - 1 /\ Visible(dir, list[k])
         /\ \A k, m \in 1 .. Len(list) : list[k] = list[m] => k = m
         /\ \A e \in AllDirs : \E k \in Top(dir) + 1 .. Len(list) : list[k] = e
<1>1. Holds(list, Wanted(dir, Len(dir.entries)))
  BY DEF LInv, ListInv
<1>2. list \in Seq(Int) /\ Len(list) \in Nat /\ Top(dir) \in {0, 1}
  BY <1>1, ListLen, TopIs DEF Holds, LInv
<1>3. ASSUME NEW k \in Top(dir) + 1 .. Len(list)
      PROVE  list[k] \in 0 .. Len(dir.entries) - 1 /\ Visible(dir, list[k])
  <2>1. k \in 1 .. Len(list) /\ k > Top(dir)
    BY <1>2
  <2>2. list[k] \in 0 .. Len(dir.entries) - 1
    BY <2>1, ItemIsEntry
  <2>3. list[k] \in Wanted(dir, Len(dir.entries)) /\ list[k] # SETTINGS
    BY <1>1, <2>1, <2>2 DEF Holds, SETTINGS
  <2> QED BY <2>2, <2>3 DEF Wanted, Marks
<1>4. ASSUME NEW e \in AllDirs
      PROVE  \E k \in Top(dir) + 1 .. Len(list) : list[k] = e
  <2>1. e \in Wanted(dir, Len(dir.entries)) /\ e # SETTINGS
    BY DEF AllDirs, Wanted, SETTINGS
  <2>2. PICK k \in 1 .. Len(list) : list[k] = e
    BY <1>1, <2>1 DEF Holds
  <2>3. dir.root => k # 1
    BY <2>1, <2>2 DEF LInv, ListInv
  <2>4. k \in Top(dir) + 1 .. Len(list)
    BY <1>2, <2>3, TopIs
  <2> QED BY <2>2, <2>4
<1> QED BY <1>1, <1>2, <1>3, <1>4 DEF Holds

LEMMA SwapIs ==
  ASSUME LInv, phase # "scan", NEW j \in Int, NEW k \in Int,
         0 <= j, j < Len(list), 0 <= k, k < Len(list)
  PROVE  /\ Len(Swap(j, k)) = Len(list)
         /\ \A m \in 1 .. Len(list) : Swap(j, k)[m] =
              IF m = k + 1 THEN list[j + 1] ELSE IF m = j + 1 THEN list[k + 1] ELSE list[m]
<1>1. list \in Seq(Int) /\ Len(list) \in Nat
  BY ListIs
<1>2. j + 1 \in 1 .. Len(list) /\ k + 1 \in 1 .. Len(list)
  BY <1>1
<1>3. Swap(j, k) = Exchanged(list, j + 1, k + 1)
  BY DEF Swap, Exchanged
<1>4. Len(Exchanged(list, j + 1, k + 1)) = Len(list)
  BY <1>1, <1>2, ExchangedSeq
<1>5. \A m \in 1 .. Len(list) : Exchanged(list, j + 1, k + 1)[m] =
        IF m = k + 1 THEN list[j + 1] ELSE IF m = j + 1 THEN list[k + 1] ELSE list[m]
  BY <1>1, <1>2, ExchangedAt
<1> QED BY <1>3, <1>4, <1>5

LEMMA FileIs ==
  ASSUME NEW e, Visible(dir, e)
  PROVE  IsDir(e) \/ Entry(e).kind = "file"
BY DEF Visible, IsDir, Entry

LEMMA DirsFinite ==
  ASSUME TypeInv
  PROVE  /\ IsFiniteSet(AllDirs) /\ Cardinality(AllDirs) \in Nat
         /\ \A n : IsFiniteSet(Dirs(n)) /\ Cardinality(Dirs(n)) \in Nat
<1>1. IsFiniteSet(0 .. Len(dir.entries) - 1)
  <2>1. 0 \in Int /\ Len(dir.entries) - 1 \in Int
    BY Directory
  <2> QED BY <2>1, FS_Interval
<1>2. IsFiniteSet(AllDirs)
  <2>1. AllDirs \in SUBSET (0 .. Len(dir.entries) - 1)
    BY DEF AllDirs
  <2> QED BY <1>1, <2>1, FS_Subset
<1>3. ASSUME NEW n PROVE IsFiniteSet(Dirs(n))
  <2>1. Dirs(n) \in SUBSET AllDirs
    BY DEF Dirs
  <2> QED BY <1>2, <2>1, FS_Subset
<1> QED BY <1>2, <1>3, FS_CardinalityType

(* A part of the list has as many items as places.                         *)
LEMMA ItemsSize ==
  ASSUME LInv, phase # "scan", NEW n \in Int, Top(dir) <= n, n <= Len(list),
         NEW P, P = {list[k] : k \in Top(dir) + 1 .. n}
  PROVE  IsFiniteSet(P) /\ Cardinality(P) = n - Top(dir)
<1> DEFINE t == Top(dir)
           I == t + 1 .. n
           f == [k \in I |-> list[k]]
<1>1. t \in Int /\ \A k, m \in 1 .. Len(list) : list[k] = list[m] => k = m
  BY ListIs
<1>2. \A k \in I : k \in 1 .. Len(list)
  BY ListIs
<1>3. t <= n /\ P = {list[k] : k \in I}
  OBVIOUS
<1> HIDE DEF t
<1>4. IsFiniteSet(I) /\ Cardinality(I) = n - t
  <2>1. t + 1 \in Int
    BY <1>1
  <2>2. IsFiniteSet(I) /\ Cardinality(I) = IF t + 1 > n THEN 0 ELSE n - (t + 1) + 1
    BY <2>1, FS_Interval
  <2> QED BY <1>1, <1>3, <2>2
<1> HIDE DEF I
<1>5. f \in Bijection(I, P)
  <2>1. f \in [I -> P]
    BY <1>3
  <2>2. \A k, m \in I : f[k] = f[m] => k = m
    BY <1>1, <1>2
  <2>3. \A x \in P : \E k \in I : f[k] = x
    BY <1>3
  <2> HIDE DEF f
  <2> QED BY <2>1, <2>2, <2>3 DEF Bijection, Injection, IsInjective, Surjection
<1>6. ExistsBijection(I, P)
  BY <1>5 DEF ExistsBijection
<1>7. IsFiniteSet(P) /\ Cardinality(P) = Cardinality(I)
  BY <1>4, <1>6, FS_Bijection
<1> QED BY <1>4, <1>7 DEF t

(* One more directory filling the places, the rest are files ...            *)
LEMMA RestAreFiles ==
  ASSUME LInv, phase # "scan", NEW n \in Int, Top(dir) <= n, n <= Len(list),
         \A k \in Top(dir) + 1 .. n : IsDir(list[k]),
         NEW q \in n + 1 .. Len(list), IsDir(list[q]),
         n + 1 >= Top(dir) + Cardinality(AllDirs)
  PROVE  \A k \in n + 1 .. Len(list) : k # q => ~IsDir(list[k])
<1> SUFFICES ASSUME NEW k0 \in n + 1 .. Len(list), k0 # q, IsDir(list[k0]) PROVE FALSE
  OBVIOUS
<1> DEFINE t == Top(dir)
           P == {list[k] : k \in t + 1 .. n}
<1>1. /\ Len(list) \in Nat /\ t \in Int
      /\ \A k \in t + 1 .. Len(list) : list[k] \in 0 .. Len(dir.entries) - 1 /\ Visible(dir, list[k])
      /\ \A k, m \in 1 .. Len(list) : list[k] = list[m] => k = m
      /\ t \in {0, 1}
  BY ListIs
<1> HIDE DEF t
<1>2. /\ \A k \in t + 1 .. n : k \in t + 1 .. Len(list) /\ k \in 1 .. Len(list) /\ k # k0 /\ k # q
      /\ k0 \in t + 1 .. Len(list) /\ k0 \in 1 .. Len(list) /\ t <= n
      /\ q \in t + 1 .. Len(list) /\ q \in 1 .. Len(list)
  BY <1>1 DEF t
<1>3. IsFiniteSet(P) /\ Cardinality(P) = n - t
  <2>1. P = {list[k] : k \in Top(dir) + 1 .. n}
    BY DEF t
  <2> HIDE DEF P
  <2>2. IsFiniteSet(P) /\ Cardinality(P) = n - Top(dir)
    BY <2>1, ItemsSize
  <2> QED BY <2>2 DEF t
<1>4. /\ P \subseteq AllDirs /\ list[k0] \in AllDirs /\ list[q] \in AllDirs
      /\ list[k0] \notin P /\ list[q] \notin P /\ list[q] # list[k0]
  BY <1>1, <1>2 DEF AllDirs, t
<1> HIDE DEF P
<1>5. IsFiniteSet(P \union {list[k0]}) /\ Cardinality(P \union {list[k0]}) = n - t + 1
  BY <1>3, <1>4, FS_AddElement
<1> DEFINE R == P \union {list[k0]}
<1>6. list[q] \notin R /\ R \union {list[q]} \in SUBSET AllDirs
  BY <1>4
<1> HIDE DEF R
<1>7. Cardinality(R \union {list[q]}) = n - t + 1 + 1
  BY <1>5, <1>6, FS_AddElement DEF R
<1>8. IsFiniteSet(AllDirs) /\ Cardinality(AllDirs) \in Nat
  BY DirsFinite DEF LInv
<1>9. n - t + 1 + 1 <= Cardinality(AllDirs)
  BY <1>6, <1>7, <1>8, FS_Subset
<1> QED BY <1>1, <1>8, <1>9 DEF t

(* ... and the rest being files, the places are full. *)
LEMMA PlacesAreFull ==
  ASSUME LInv, phase # "scan", NEW n \in Int, Top(dir) <= n, n <= Len(list),
         \A k \in Top(dir) + 1 .. n : IsDir(list[k]),
         \A k \in n + 1 .. Len(list) : ~IsDir(list[k])
  PROVE  n = Top(dir) + Cardinality(AllDirs)
<1> DEFINE t == Top(dir)
           P == {list[k] : k \in t + 1 .. n}
<1>1. /\ Len(list) \in Nat /\ t \in Int
      /\ \A k \in t + 1 .. Len(list) : list[k] \in 0 .. Len(dir.entries) - 1 /\ Visible(dir, list[k])
      /\ \A k, m \in 1 .. Len(list) : list[k] = list[m] => k = m
      /\ t \in {0, 1}
      /\ \A e \in AllDirs : \E k \in t + 1 .. Len(list) : list[k] = e
  BY ListIs
<1>2. \A k \in t + 1 .. n : IsDir(list[k])
  OBVIOUS
<1>a. t <= n
  OBVIOUS
<1> HIDE DEF t
<1>3. \A k \in t + 1 .. n : k \in t + 1 .. Len(list) /\ k \in 1 .. Len(list)
  BY <1>1
<1>4. IsFiniteSet(P) /\ Cardinality(P) = n - t
  <2>1. P = {list[k] : k \in Top(dir) + 1 .. n}
    BY DEF t
  <2> HIDE DEF P
  <2>2. IsFiniteSet(P) /\ Cardinality(P) = n - Top(dir)
    BY <2>1, ItemsSize
  <2> QED BY <2>2 DEF t
<1>5. P = AllDirs
  <2>1. \A e \in P : e \in AllDirs
    BY <1>1, <1>2, <1>3 DEF AllDirs
  <2>2. ASSUME NEW e \in AllDirs PROVE e \in P
    <3>1. PICK k \in t + 1 .. Len(list) : list[k] = e
      BY <1>1
    <3>2. IsDir(list[k])
      BY <3>1 DEF AllDirs
    <3>3. k \in t + 1 .. n
      BY <1>1, <3>2
    <3> QED BY <3>1, <3>3
  <2> QED BY <2>1, <2>2
<1>6. Cardinality(AllDirs) \in Nat
  BY DirsFinite DEF LInv
<1> HIDE DEF P
<1> QED BY <1>1, <1>4, <1>5, <1>6 DEF t

-----------------------------------------------------------------------------
(* The first item, the numbers and the places of the directories *)

SplitUp == UpInv /\ NumberInv /\ SplitInv

LEMMA DotDot ==
  ASSUME TypeInv, ~dir.root
  PROVE  /\ Len(dir.entries) >= 2 /\ 1 \in 0 .. Len(dir.entries) - 1
         /\ Visible(dir, 1) /\ IsDir(1) /\ ~Visible(dir, 0)
<1>1. Len(dir.entries) >= 2 /\ dir.entries[2].kind = "dir" /\ Len(dir.entries) \in Nat
  BY Directory DEF IsDirectory
<1>2. 1 + 1 = 2
  OBVIOUS
<1> QED BY <1>1, <1>2 DEF Visible, IsDir, Entry

LEMMA InitSplit == Init => SplitUp
<1> SUFFICES ASSUME Init PROVE SplitUp
  OBVIOUS
<1>1. phase = "scan" /\ i = 0 /\ list = Shown(dir)
  BY DEF Init
<1>2. ~dir.root => list = <<>>
  BY <1>1 DEF Shown
<1> QED BY <1>1, <1>2 DEF SplitUp, UpInv, NumberInv, SplitInv, Sorting

LEMMA OpenSplit ==
  ASSUME NEW d \in card, Open(d)
  PROVE  SplitUp'
<1>1. phase' = "scan" /\ i' = 0 /\ list' = Shown(d) /\ dir' = d
  BY DEF Open
<1>2. ~dir'.root => list' = <<>>
  BY <1>1 DEF Shown
<1> QED BY <1>1, <1>2 DEF SplitUp, UpInv, NumberInv, SplitInv, Sorting

LEMMA ScanSplit ==
  ASSUME LInv, SplitUp, Scan
  PROVE  SplitUp'
<1>1. /\ phase = "scan" /\ dir' = dir /\ TypeInv
      /\ i \in 0 .. Len(dir.entries) /\ Holds(list, Wanted(dir, i))
      /\ ~dir.root /\ i <= 1 => list = <<>>
      /\ ~dir.root /\ i > 1 => Len(list) >= 1 /\ list[1] = 1
      /\ dir.root => Len(list) >= 1 /\ list[1] = SETTINGS
  BY DEF Scan, LInv, ListInv, SplitUp, UpInv
<1>2. i \in Int /\ Len(dir.entries) \in Nat /\ list \in Seq(Int) /\ Len(list) \in Nat
  BY <1>1, Directory, HoldsLen DEF Holds
<1>3. CASE i < Len(dir.entries)
  <2>1. /\ phase' = "scan" /\ i' = i + 1
        /\ list' = IF Visible(dir, i) THEN Append(list, i) ELSE list
    BY <1>1, <1>3 DEF Scan
  <2>2. UpInv'
    <3>1. CASE dir.root
      BY <1>1, <2>1, <3>1 DEF UpInv, Sorting
    <3>2. CASE ~dir.root /\ i = 0
      <4>1. list' = <<>> /\ i' <= 1
        BY <1>1, <2>1, <3>2, DotDot
      <4> QED BY <1>1, <2>1, <4>1 DEF UpInv, Sorting
    <3>3. CASE ~dir.root /\ i = 1
      <4>a. list = <<>> /\ Visible(dir, 1)
        BY <1>1, <3>3, DotDot
      <4>1. list' = Append(<<>>, 1)
        BY <2>1, <3>3, <4>a
      <4>2. Len(list') >= 1 /\ list'[1] = 1 /\ ~(i' <= 1)
        BY <2>1, <3>3, <4>1
      <4> QED BY <1>1, <2>1, <4>2 DEF UpInv, Sorting
    <3>4. CASE ~dir.root /\ i > 1
      <4>1. Len(list') >= 1 /\ list'[1] = 1
        <5>1. /\ Len(Append(list, i)) = Len(list) + 1
              /\ \A k \in 1 .. Len(list) : Append(list, i)[k] = list[k]
          BY <1>2, AppendProperties
        <5>2. 1 \in 1 .. Len(list) /\ Len(list) + 1 >= 1
          BY <1>1, <1>2, <3>4
        <5> QED BY <1>1, <2>1, <3>4, <5>1, <5>2
      <4>2. ~(i' <= 1)
        BY <1>2, <2>1, <3>4
      <4> QED BY <1>1, <2>1, <4>1, <4>2 DEF UpInv, Sorting
    <3> QED BY <1>1, <1>2, <3>1, <3>2, <3>3, <3>4
  <2> QED BY <2>1, <2>2 DEF SplitUp, NumberInv, SplitInv, Sorting
<1>4. CASE ~(i < Len(dir.entries))
  <2>1. /\ phase' \in {"idle", "count"} /\ i' = IF dir.root THEN 1 ELSE 0
        /\ directries' = 0 /\ archives' = 0 /\ list' = list
    BY <1>4 DEF Scan
  <2>2. i' = Top(dir) /\ Top(dir) \in {0, 1}
    BY <2>1, TopIs
  <2>3. UpInv'
    <3>1. ~dir.root => i > 1
      BY <1>1, <1>2, <1>4, DotDot
    <3> QED BY <1>1, <2>1, <3>1 DEF UpInv, Sorting
  <2>4. NumberInv'
    <3>1. Dirs(i)' = {}
      <4>1. Top(dir) + 1 .. Top(dir) = {}
        BY <2>2
      <4>2. Dirs(i)' = {e \in AllDirs' : \E k \in Top(dir) + 1 .. Top(dir) : list'[k] = e}
        BY <1>1, <2>2 DEF Dirs
      <4> QED BY <4>1, <4>2
    <3>2. Cardinality(Dirs(i)') = 0
      BY <3>1, FS_EmptySet
    <3>3. i' - Top(dir') - 0 = 0
      BY <1>1, <2>2
    <3> QED BY <2>1, <3>2, <3>3 DEF NumberInv, Sorting
  <2> QED BY <2>1, <2>3, <2>4 DEF SplitUp, SplitInv, Sorting
<1> QED BY <1>3, <1>4

LEMMA CountSplit ==
  ASSUME LInv, RInv, TruthInv, SplitUp, Count
  PROVE  SplitUp'
<1>1. /\ phase = "count" /\ dir' = dir /\ list' = list /\ TypeInv
      /\ i \in Int /\ directries \in Int /\ archives \in Int
      /\ Top(dir) <= i /\ i <= Len(list) /\ cache \in Cache /\ IsTrue(cache)
      /\ Len(list) >= 1 /\ list[1] = IF dir.root THEN SETTINGS ELSE 1
      /\ directries = Cardinality(Dirs(i)) /\ archives = i - Top(dir) - directries
  BY DEF Count, LInv, TypeInv, CountInv, RInv, ReaderTypes, TruthInv, SplitUp, UpInv, NumberInv
<1>2. /\ Len(list) \in Nat /\ Top(dir) \in {0, 1} /\ Len(Shown(dir)) = Top(dir)
      /\ \A k \in Top(dir) + 1 .. Len(list) :
           list[k] \in 0 .. Len(dir.entries) - 1 /\ Visible(dir, list[k])
      /\ \A k, m \in 1 .. Len(list) : list[k] = list[m] => k = m
      /\ \A e \in AllDirs : \E k \in Top(dir) + 1 .. Len(list) : list[k] = e
  BY <1>1, ListIs DEF Top
<1>3. AllDirs' = AllDirs
  BY <1>1 DEF AllDirs, IsDir, Entry
<1>4. CASE i < Len(list)
  <2> DEFINE e == list[i + 1]
  <2>1. i + 1 \in Top(dir) + 1 .. Len(list) /\ i + 1 \in 1 .. Len(list)
    BY <1>1, <1>2, <1>4
  <2>2. e \in 0 .. Len(dir.entries) - 1 /\ Visible(dir, e)
    BY <1>2, <2>1
  <2>3. Read(cache, e) = Entry(e)
    BY <1>1, <2>2, ReadTrue
  <2>4. /\ phase' = "count" /\ i' = i + 1
        /\ IF IsDir(e) THEN directries' = directries + 1 /\ archives' = archives
           ELSE archives' = archives + 1 /\ directries' = directries
    BY <1>1, <1>4, <2>3 DEF Count, IsDir
  <2>5. Dirs(i)' = {f \in AllDirs : \E k \in Top(dir) + 1 .. i + 1 : list[k] = f}
    BY <1>1, <1>3, <2>4 DEF Dirs
  <2>6. \A k \in Top(dir) + 1 .. i + 1 : k \in Top(dir) + 1 .. i \/ k = i + 1
    BY <1>1, <1>2
  <2>7. \A k \in Top(dir) + 1 .. i : k \in Top(dir) + 1 .. i + 1 /\ k # i + 1 /\ k \in 1 .. Len(list)
    BY <1>1, <1>2
  <2>8. i + 1 \in Top(dir) + 1 .. i + 1
    BY <1>1, <1>2
  <2>9. directries' = Cardinality(Dirs(i)')
    <3>1. CASE IsDir(e)
      <4>1. e \in AllDirs
        BY <2>2, <3>1 DEF AllDirs
      <4>2. Dirs(i)' = Dirs(i) \union {e}
        BY <2>5, <2>6, <2>7, <2>8, <4>1 DEF Dirs
      <4>3. e \notin Dirs(i)
        BY <1>2, <2>1, <2>7 DEF Dirs
      <4>4. IsFiniteSet(Dirs(i))
        BY <1>1, DirsFinite
      <4>5. Cardinality(Dirs(i) \union {e}) = Cardinality(Dirs(i)) + 1
        BY <4>3, <4>4, FS_AddElement
      <4> QED BY <1>1, <2>4, <3>1, <4>2, <4>5
    <3>2. CASE ~IsDir(e)
      <4>1. e \notin AllDirs
        BY <3>2 DEF AllDirs
      <4>2. Dirs(i)' = Dirs(i)
        BY <2>5, <2>6, <2>7, <4>1 DEF Dirs
      <4> QED BY <1>1, <2>4, <3>2, <4>2
    <3> QED BY <3>1, <3>2
  <2> HIDE DEF e
  <2>10. archives' = i' - Top(dir') - directries'
    BY <1>1, <1>2, <2>4
  <2> QED BY <1>1, <2>4, <2>9, <2>10 DEF SplitUp, UpInv, NumberInv, SplitInv, Sorting
<1>5. CASE ~(i < Len(list))
  <2>1. i = Len(list)
    BY <1>1, <1>2, <1>5
  <2>2. /\ phase' = "collect" /\ i' = Top(dir) /\ idx_dir' = Top(dir)
        /\ directries' = directries + Top(dir) /\ archives' = archives
    BY <1>2, <1>5 DEF Count
  <2>3. Dirs(i) = AllDirs
    BY <1>2, <2>1 DEF Dirs
  <2>4. directries' = Top(dir) + Cardinality(AllDirs) /\ archives' = Len(list) - directries'
    BY <1>1, <1>2, <2>1, <2>2, <2>3
  <2>5. NumberInv'
    BY <1>1, <1>3, <2>2, <2>4 DEF NumberInv, Sorting
  <2>6. UpInv'
    BY <1>1, <2>2 DEF UpInv, Sorting
  <2>7. SplitInv'
    BY <1>1, <1>2, <2>2 DEF SplitInv, Sorting
  <2> QED BY <2>5, <2>6, <2>7 DEF SplitUp
<1> QED BY <1>4, <1>5

LEMMA CollectSplit ==
  ASSUME LInv, LInv', RInv, TruthInv, SplitUp, Collect
  PROVE  SplitUp'
<1> DEFINE t == Top(dir)
<1>1. /\ phase = "collect" /\ dir' = dir /\ TypeInv
      /\ directries' = directries /\ archives' = archives
      /\ i \in Int /\ idx_dir \in Int /\ directries \in Int /\ archives \in Int
      /\ t <= directries /\ directries <= Len(list)
      /\ t <= idx_dir /\ idx_dir <= i /\ i <= Len(list)
      /\ cache \in Cache /\ IsTrue(cache)
      /\ Len(list) >= 1 /\ list[1] = IF dir.root THEN SETTINGS ELSE 1
      /\ i >= 1 => idx_dir >= 1
      /\ directries = t + Cardinality(AllDirs) /\ archives = Len(list) - directries
      /\ \A k \in t + 1 .. idx_dir : IsDir(list[k])
      /\ \A k \in idx_dir + 1 .. i : ~IsDir(list[k])
  BY DEF Collect, LInv, TypeInv, CountInv, RInv, ReaderTypes, TruthInv, SplitUp, UpInv, NumberInv,
         SplitInv
<1>2. /\ list \in Seq(Int) /\ Len(list) \in Nat /\ t \in {0, 1} /\ t = IF dir.root THEN 1 ELSE 0
      /\ \A k \in t + 1 .. Len(list) :
           list[k] \in 0 .. Len(dir.entries) - 1 /\ Visible(dir, list[k])
  BY <1>1, ListIs, TopIs
<1>3. AllDirs' = AllDirs /\ Top(dir)' = t /\ \A e : IsDir(e)' = IsDir(e)
  BY <1>1 DEF AllDirs, IsDir, Entry
<1> HIDE DEF t
<1>4. CASE i < Len(list)
  <2> DEFINE e == list[i + 1]
  <2>1. i + 1 \in t + 1 .. Len(list) /\ i + 1 \in 1 .. Len(list)
    BY <1>1, <1>2, <1>4
  <2>2. e \in 0 .. Len(dir.entries) - 1 /\ Visible(dir, e)
    BY <1>2, <2>1
  <2>3. Read(cache, e) = Entry(e)
    BY <1>1, <2>2, ReadTrue
  <2>4. /\ phase' = "collect"
        /\ list' = IF IsDir(e) THEN Swap(idx_dir, i) ELSE list
        /\ idx_dir' = IF IsDir(e) THEN idx_dir + 1 ELSE idx_dir
        /\ i' = IF IsDir(e) /\ idx_dir' >= directries THEN Len(list) ELSE i + 1
    BY <1>1, <1>4, <2>3 DEF Collect, IsDir
  <2>5. CASE IsDir(e)
    <3>1. list' = Swap(idx_dir, i) /\ idx_dir + 1 \in 1 .. Len(list) /\ 0 <= idx_dir
          /\ idx_dir < Len(list) /\ 0 <= i
      BY <1>1, <1>2, <1>4, <2>4, <2>5
    <3>2. /\ Len(list') = Len(list)
          /\ \A k \in 1 .. Len(list) : list'[k] =
               IF k = i + 1 THEN list[idx_dir + 1] ELSE IF k = idx_dir + 1 THEN e ELSE list[k]
      BY <1>1, <1>4, <3>1, SwapIs
    <3>3. \A k \in t + 1 .. idx_dir + 1 : IsDir(list'[k])
      <4> SUFFICES ASSUME NEW k \in t + 1 .. idx_dir + 1 PROVE IsDir(list'[k])
        OBVIOUS
      <4>1. k \in 1 .. Len(list) /\ (k # idx_dir + 1 => k \in t + 1 .. idx_dir /\ k # i + 1)
        BY <1>1, <1>2, <3>1
      <4>2. k = i + 1 => idx_dir + 1 = i + 1
        BY <1>1, <4>1
      <4> QED BY <1>1, <2>5, <3>2, <4>1, <4>2
    <3>4. \A k \in idx_dir + 2 .. i + 1 : ~IsDir(list'[k])
      <4> SUFFICES ASSUME NEW k \in idx_dir + 2 .. i + 1 PROVE ~IsDir(list'[k])
        OBVIOUS
      <4>1. k \in 1 .. Len(list) /\ k # idx_dir + 1 /\ idx_dir + 1 \in idx_dir + 1 .. i
            /\ (k # i + 1 => k \in idx_dir + 1 .. i)
        BY <1>1, <1>2, <1>4
      <4> QED BY <1>1, <3>2, <4>1
    <3>5. list'[1] = list[1] /\ idx_dir + 1 >= 1
      <4>1. 1 \in 1 .. Len(list)
        BY <1>1, <1>2
      <4>2. CASE idx_dir >= 1
        BY <1>1, <1>2, <3>2, <4>1, <4>2
      <4>3. CASE ~(idx_dir >= 1)
        <5>1. i = 0 /\ idx_dir = 0
          BY <1>1, <1>2, <4>3
        <5> QED BY <3>2, <4>1, <5>1
      <4> QED BY <1>1, <1>2, <4>2, <4>3
    <3>6. idx_dir' = idx_dir + 1
      BY <2>4, <2>5
    <3>7. \A k \in idx_dir' + 1 .. i' : ~IsDir(list'[k])
      <4>1. CASE i' = i + 1
        BY <1>1, <3>4, <3>6, <4>1
      <4>2. CASE i' = Len(list) /\ idx_dir + 1 >= directries
        <5>1. i + 1 \in idx_dir + 1 .. Len(list) /\ idx_dir <= Len(list)
          BY <1>1, <1>2, <1>4
        <5>2. Top(dir) <= idx_dir /\ (\A k \in Top(dir) + 1 .. idx_dir : IsDir(list[k]))
              /\ idx_dir + 1 >= Top(dir) + Cardinality(AllDirs)
          BY <1>1, <4>2 DEF t
        <5>3. \A k \in idx_dir + 1 .. Len(list) : k # i + 1 => ~IsDir(list[k])
          BY <1>1, <2>5, <5>1, <5>2, RestAreFiles
        <5> SUFFICES ASSUME NEW k \in idx_dir + 2 .. Len(list) PROVE ~IsDir(list'[k])
          BY <1>1, <3>6, <4>2
        <5>4. k \in 1 .. Len(list) /\ k # idx_dir + 1 /\ k \in idx_dir + 1 .. Len(list)
              /\ idx_dir + 1 \in idx_dir + 1 .. Len(list)
          BY <1>1, <1>2, <1>4
        <5> QED BY <1>1, <3>2, <5>3, <5>4
      <4> QED BY <2>4, <2>5, <3>6, <4>1, <4>2
    <3> QED BY <1>1, <1>3, <2>4, <3>2, <3>3, <3>5, <3>6, <3>7
            DEF SplitUp, UpInv, NumberInv, SplitInv, Sorting
  <2>6. CASE ~IsDir(e)
    <3>1. list' = list /\ idx_dir' = idx_dir /\ i' = i + 1
      BY <2>4, <2>6
    <3>2. \A k \in idx_dir + 1 .. i + 1 : ~IsDir(list[k])
      <4>1. \A k \in idx_dir + 1 .. i + 1 : k \in idx_dir + 1 .. i \/ k = i + 1
        BY <1>1
      <4> QED BY <1>1, <2>6, <4>1
    <3>3. idx_dir >= 1
      <4>1. CASE dir.root
        BY <1>1, <1>2, <4>1
      <4>2. CASE ~dir.root
        <5>1. IsDir(1) /\ list[1] = 1
          BY <1>1, <4>2, DotDot
        <5>2. i # 0
          BY <2>6, <5>1
        <5> QED BY <1>1, <1>2, <5>2
      <4> QED BY <4>1, <4>2
    <3> QED BY <1>1, <1>3, <2>4, <3>1, <3>2, <3>3
            DEF SplitUp, UpInv, NumberInv, SplitInv, Sorting
  <2> QED BY <2>5, <2>6
<1>5. CASE ~(i < Len(list))
  <2>1. i = Len(list) /\ idx_dir >= 1
    BY <1>1, <1>2, <1>5
  <2>2. list' = list /\ phase' \in {"area", "exts"}
    BY <1>5 DEF Collect, SortArea
  <2>3. idx_dir = directries
    <3>1. \A k \in idx_dir + 1 .. Len(list) : ~IsDir(list[k])
      BY <1>1, <2>1
    <3>2. Top(dir) <= idx_dir /\ \A k \in Top(dir) + 1 .. idx_dir : IsDir(list[k])
      BY <1>1 DEF t
    <3>3. idx_dir = Top(dir) + Cardinality(AllDirs)
      BY <1>1, <2>1, <3>1, <3>2, PlacesAreFull
    <3> QED BY <1>1, <3>3 DEF t
  <2> QED BY <1>1, <1>3, <2>1, <2>2, <2>3 DEF SplitUp, UpInv, NumberInv, SplitInv, Sorting
<1> QED BY <1>4, <1>5

LEMMA KeptSplit ==
  ASSUME SplitUp, Sorting, phase' \in {"area", "exts", "extension", "groups", "idle"},
         UNCHANGED <<dir, list, directries, archives>>
  PROVE  SplitUp'
<1>1. AllDirs' = AllDirs /\ Top(dir)' = Top(dir) /\ \A e : IsDir(e)' = IsDir(e)
  BY DEF AllDirs, IsDir, Entry
<1>2. /\ Len(list) >= 1 /\ list[1] = IF dir.root THEN SETTINGS ELSE 1
      /\ directries >= 1
      /\ directries = Top(dir) + Cardinality(AllDirs) /\ archives = Len(list) - directries
      /\ \A k \in Top(dir) + 1 .. directries : IsDir(list[k])
      /\ \A k \in directries + 1 .. Len(list) : ~IsDir(list[k])
  BY DEF SplitUp, UpInv, NumberInv, SplitInv, Sorting
<1> QED BY <1>1, <1>2 DEF SplitUp, UpInv, NumberInv, SplitInv, Sorting

LEMMA IdleSplit ==
  ASSUME SplitUp, phase = "idle", UNCHANGED <<phase, dir, list>>
  PROVE  SplitUp'
BY DEF SplitUp, UpInv, NumberInv, SplitInv, Sorting

(* The sorted list of extensions is put behind the directories.             *)
LEMMA TailPut ==
  ASSUME LInv, SortExts, ~(area.j < area.hi), ~(area.hi > 0)
  PROVE  /\ phase = "extension" /\ phase' = "groups" /\ i' = directries /\ exts' = exts
         /\ Len(list') = Len(list) /\ Len(exts) = Len(list) - directries
         /\ \A k \in 1 .. directries : list'[k] = list[k]
         /\ \A k \in 1 .. Len(exts) : list'[directries + k] = exts[k].id
         /\ \A k \in 1 .. Len(exts) : \E m \in directries + 1 .. Len(list) : exts[k].id = list[m]
<1> USE DEF LInv
<1>1. /\ phase = "extension" /\ Len(list) \in Nat /\ Len(exts) \in Nat /\ directries \in Int
      /\ Top(dir) <= directries /\ directries <= Len(list) /\ Top(dir) \in {0, 1}
      /\ exts \in Seq(Extension)
      /\ Holds(Ids, {list[k] : k \in directries + 1 .. Len(list)})
      /\ Len(exts) = Len(list) - directries
  BY ListLen, TopIs, LenProperties DEF SortExts, TypeInv, CountInv, ExtsInv
<1>2. DOMAIN exts = 1 .. Len(exts)
  BY <1>1, LenProperties
<1>3. /\ list' = SubSeq(list, 1, directries) \o Ids /\ phase' = "groups" /\ i' = directries
      /\ exts' = exts
  BY <1>1, <1>2 DEF SortExts, Ids
<1>4. Len(Ids) = Len(exts) /\ \A k \in 1 .. Len(exts) : Ids[k] = exts[k].id
  <2>1. DOMAIN Ids = 1 .. Len(exts) /\ Ids \in Seq(Int)
    BY <1>1 DEF Ids, Holds
  <2> QED BY <1>1, <2>1, LenProperties DEF Ids
<1>5. directries \in 0 .. Len(list) /\ Len(Ids) = Len(list) - directries
      /\ Holds(list, Wanted(dir, Len(dir.entries)))
  BY <1>1, <1>4 DEF ListInv
<1>6. /\ Len(list') = Len(list)
      /\ \A k \in 1 .. directries : list'[k] = list[k]
      /\ \A k \in 1 .. Len(Ids) : list'[directries + k] = Ids[k]
  <2> DEFINE x == SubSeq(list, 1, directries) \o Ids
  <2>1. Holds(Ids, {list[k] : k \in directries + 1 .. Len(list)})
    BY <1>1
  <2>2. /\ Len(x) = Len(list)
        /\ \A k \in 1 .. directries : x[k] = list[k]
        /\ \A k \in 1 .. Len(Ids) : x[directries + k] = Ids[k]
    <3> DEFINE t == Ids
               S == Wanted(dir, Len(dir.entries))
    <3>1. Holds(list, S) /\ Holds(t, {list[k] : k \in directries + 1 .. Len(list)})
          /\ directries \in 0 .. Len(list) /\ Len(t) = Len(list) - directries
      BY <1>5, <2>1
    <3> HIDE DEF t, S
    <3>2. /\ Len(SubSeq(list, 1, directries) \o t) = Len(list)
          /\ \A k \in 1 .. directries : (SubSeq(list, 1, directries) \o t)[k] = list[k]
          /\ \A k \in 1 .. Len(t) : (SubSeq(list, 1, directries) \o t)[directries + k] = t[k]
      BY <3>1, TailHolds
    <3> QED BY <3>2 DEF t
  <2>3. list' = x
    BY <1>3
  <2> HIDE DEF x
  <2> QED BY <2>2, <2>3
<1>7. \A k \in 1 .. Len(Ids) : \E m \in directries + 1 .. Len(list) : Ids[k] = list[m]
  BY <1>1 DEF Holds
<1> QED BY <1>1, <1>3, <1>4, <1>6, <1>7

LEMMA SortExtsSplit ==
  ASSUME LInv, SplitUp, SortExts
  PROVE  SplitUp'
<1>1. /\ phase = "extension" /\ UNCHANGED <<dir, directries, archives>>
  BY DEF SortExts
<1>2. CASE area.j < area.hi \/ area.hi > 0
  <2>1. list' = list /\ phase' = phase
    BY <1>2 DEF SortExts
  <2> QED BY <1>1, <2>1, KeptSplit DEF Sorting
<1>3. CASE ~(area.j < area.hi) /\ ~(area.hi > 0)
  <2>1. AllDirs' = AllDirs /\ Top(dir)' = Top(dir) /\ \A e : IsDir(e)' = IsDir(e)
    BY <1>1 DEF AllDirs, IsDir, Entry
  <2>2. /\ Len(list) >= 1 /\ list[1] = IF dir.root THEN SETTINGS ELSE 1
        /\ directries >= 1
        /\ directries = Top(dir) + Cardinality(AllDirs) /\ archives = Len(list) - directries
        /\ \A k \in Top(dir) + 1 .. directries : IsDir(list[k])
        /\ \A k \in directries + 1 .. Len(list) : ~IsDir(list[k])
    BY <1>1 DEF SplitUp, UpInv, NumberInv, SplitInv, Sorting
  <2>3. /\ phase' = "groups" /\ Len(list') = Len(list) /\ Len(exts) = Len(list) - directries
        /\ \A k \in 1 .. directries : list'[k] = list[k]
        /\ \A k \in 1 .. Len(exts) : list'[directries + k] = exts[k].id
        /\ \A k \in 1 .. Len(exts) : \E m \in directries + 1 .. Len(list) : exts[k].id = list[m]
    BY <1>3, TailPut
  <2>4. Len(list) \in Nat /\ Top(dir) \in {0, 1} /\ directries \in Int
    BY <1>1, ListIs DEF LInv, TypeInv
  <2>5. list'[1] = list[1]
    <3>1. 1 \in 1 .. directries
      BY <2>2, <2>4
    <3> QED BY <2>3, <3>1
  <2>6. \A k \in Top(dir) + 1 .. directries : IsDir(list'[k])
    <3>1. \A k \in Top(dir) + 1 .. directries : k \in 1 .. directries
      BY <2>4
    <3> QED BY <2>2, <2>3, <3>1
  <2>7. \A k \in directries + 1 .. Len(list) : ~IsDir(list'[k])
    <3> SUFFICES ASSUME NEW k \in directries + 1 .. Len(list) PROVE ~IsDir(list'[k])
      OBVIOUS
    <3>1. k - directries \in 1 .. Len(exts) /\ directries + (k - directries) = k
      BY <2>3, <2>4
    <3> QED BY <2>2, <2>3, <3>1
  <2> QED BY <1>1, <2>1, <2>2, <2>3, <2>5, <2>6, <2>7
          DEF SplitUp, UpInv, NumberInv, SplitInv, Sorting
<1> QED BY <1>2, <1>3

-----------------------------------------------------------------------------
(* Names are in an order *)

LEMMA OwnNameNat ==
  ASSUME TypeInv, NEW e \in 0 .. Len(dir.entries) - 1
  PROVE  OwnName(e) \in Nat
<1>1. /\ \A x \in 0 .. Len(dir.entries) - 1 : Entry(x) \in Record
      /\ Len(dir.entries) \in Nat
  <2>1. dir.entries \in Seq(Record) /\ Len(dir.entries) \in Nat
    BY Directory
  <2>2. \A x \in 0 .. Len(dir.entries) - 1 : x + 1 \in 1 .. Len(dir.entries)
    BY <2>1
  <2> QED BY <2>1, <2>2, ElementOfSeq DEF Entry
<1>2. LongName(e) => e - 1 \in 0 .. Len(dir.entries) - 1
  <2>1. PARTS \in Nat
    BY CardAssumption
  <2>2. LongName(e) => e >= 1
    BY <1>1, <2>1 DEF LongName
  <2> QED BY <1>1, <2>2
<1> QED BY <1>1, <1>2 DEF OwnName, Record

LEMMA ByNameOrder ==
  ASSUME TypeInv, NEW e \in 0 .. Len(dir.entries) - 1, NEW f \in 0 .. Len(dir.entries) - 1
  PROVE  /\ ByName(e, e) /\ (ByName(e, f) \/ ByName(f, e))
         /\ \A g \in 0 .. Len(dir.entries) - 1 : ByName(e, f) /\ ByName(f, g) => ByName(e, g)
BY OwnNameNat DEF ByName

(* What a step of a pass does: two neighbours are left or exchanged, and    *)
(* then they are in order.                                                 *)
LEMMA BubbleIs ==
  ASSUME LInv, RInv, TruthInv, Bubble
  PROVE  /\ area.j + 1 \in 1 .. Len(list) /\ area.j + 2 \in 1 .. Len(list)
         /\ Len(list') = Len(list)
         /\ \/ list' = list /\ ByName(list[area.j + 1], list[area.j + 2])
            \/ /\ \A m \in 1 .. Len(list) : list'[m] =
                    IF m = area.j + 2 THEN list[area.j + 1]
                    ELSE IF m = area.j + 1 THEN list[area.j + 2] ELSE list[m]
               /\ ByName(list[area.j + 2], list[area.j + 1])
<1> DEFINE j == area.j
           e == list[j + 1]
           f == list[j + 2]
           c == Look(cache, list[j + 1]).cache
<1>1. /\ phase = "area" /\ TypeInv /\ cache \in Cache /\ IsTrue(cache)
      /\ list' = IF setFileName(cache, e) > setFileName(c, f) THEN Swap(j, j + 1) ELSE list
  BY DEF Bubble, LInv, RInv, ReaderTypes, TruthInv
<1>2. /\ Top(dir) <= area.lo /\ area.lo <= j /\ j < area.hi /\ area.hi <= Len(list) - 1
      /\ area.lo \in Int /\ j \in Int /\ area.hi \in Int
  BY <1>1 DEF LInv, AreaInv, TypeInv
<1>3. /\ Len(list) \in Nat /\ Top(dir) \in {0, 1}
      /\ \A k \in Top(dir) + 1 .. Len(list) : list[k] \in 0 .. Len(dir.entries) - 1
  BY <1>1, ListIs
<1> HIDE DEF j
<1>4. /\ j + 1 \in Top(dir) + 1 .. Len(list) /\ j + 2 \in Top(dir) + 1 .. Len(list)
      /\ j + 1 \in 1 .. Len(list) /\ j + 2 \in 1 .. Len(list)
      /\ 0 <= j /\ j < Len(list) /\ 0 <= j + 1 /\ j + 1 < Len(list) /\ (j + 1) + 1 = j + 2
  BY <1>2, <1>3
<1>5. e \in 0 .. Len(dir.entries) - 1 /\ f \in 0 .. Len(dir.entries) - 1
  BY <1>3, <1>4
<1>6. c \in Cache /\ IsTrue(c)
  BY <1>1, <1>5, LookTrue
<1> HIDE DEF c
<1>7. Followed => setFileName(cache, e) = OwnName(e) /\ setFileName(c, f) = OwnName(f)
  BY <1>1, <1>5, <1>6, NameTrue
<1>8. OwnName(e) \in Nat /\ OwnName(f) \in Nat
  BY <1>1, <1>5, OwnNameNat
<1>9. CASE setFileName(cache, e) > setFileName(c, f)
  <2>1. list' = Swap(j, j + 1)
    BY <1>1, <1>9
  <2>2. /\ Len(list') = Len(list)
        /\ \A m \in 1 .. Len(list) : list'[m] =
             IF m = j + 2 THEN e ELSE IF m = j + 1 THEN f ELSE list[m]
    <3>1. j \in Int /\ j + 1 \in Int
      BY <1>2
    <3>2. /\ Len(Swap(j, j + 1)) = Len(list)
          /\ \A m \in 1 .. Len(list) : Swap(j, j + 1)[m] =
               IF m = (j + 1) + 1 THEN list[j + 1]
               ELSE IF m = j + 1 THEN list[(j + 1) + 1] ELSE list[m]
      BY <1>1, <1>4, <3>1, SwapIs
    <3> QED BY <1>4, <2>1, <3>2
  <2>3. ByName(f, e)
    BY <1>7, <1>8, <1>9 DEF ByName
  <2> QED BY <1>4, <2>2, <2>3 DEF j
<1>10. CASE ~(setFileName(cache, e) > setFileName(c, f))
  <2>1. list' = list
    BY <1>1, <1>10
  <2>2. ByName(e, f)
    BY <1>7, <1>8, <1>10 DEF ByName
  <2> QED BY <1>4, <2>1, <2>2 DEF j
<1> QED BY <1>9, <1>10

-----------------------------------------------------------------------------
(* The order of the items *)

OrderInv == PassInv /\ DirsInv /\ ExtensionInv /\ FilesInv /\ Arranged

LEMMA SameOrder ==
  ASSUME dir' = dir, sort' = sort
  PROVE  /\ \A e, f : ByName(e, f)' <=> ByName(e, f)
         /\ \A e, f : Before(e, f)' <=> Before(e, f)
         /\ \A e : Entry(e)' = Entry(e)
<1>1. \A e : Entry(e)' = Entry(e)
  BY DEF Entry
<1>2. \A e : OwnName(e)' = OwnName(e)
  BY <1>1 DEF OwnName, LongName
<1>3. Followed' <=> Followed
  BY DEF Followed
<1>4. \A e, f : ByName(e, f)' <=> ByName(e, f)
  BY <1>2, <1>3 DEF ByName
<1>5. \A e, f : Before(e, f)' <=> Before(e, f)
  BY <1>1, <1>4 DEF Before
<1> QED BY <1>1, <1>4, <1>5

(* Past the collection the list is the first item, directories, files.      *)
LEMMA ItemsAre ==
  ASSUME LInv, SplitUp, Sorting
  PROVE  /\ phase # "scan" /\ TypeInv /\ Len(list) \in Nat
         /\ directries \in Int /\ 1 <= directries /\ directries <= Len(list)
         /\ archives = Len(list) - directries /\ Top(dir) \in {0, 1}
         /\ list[1] = IF dir.root THEN SETTINGS ELSE 1
         /\ \A k \in 2 .. Len(list) : list[k] \in 0 .. Len(dir.entries) - 1
         /\ \A k \in 2 .. directries : Entry(list[k]).kind = "dir"
         /\ \A k \in directries + 1 .. Len(list) : Entry(list[k]).kind = "file"
<1>1. phase # "scan"
  BY DEF Sorting
<1>2. /\ Len(list) \in Nat /\ Top(dir) \in {0, 1}
      /\ \A k \in Top(dir) + 1 .. Len(list) :
           list[k] \in 0 .. Len(dir.entries) - 1 /\ Visible(dir, list[k])
  BY <1>1, ListIs
<1>3. /\ 1 <= directries /\ directries <= Len(list) /\ archives = Len(list) - directries
      /\ list[1] = IF dir.root THEN SETTINGS ELSE 1
      /\ \A k \in Top(dir) + 1 .. directries : IsDir(list[k])
      /\ \A k \in directries + 1 .. Len(list) : ~IsDir(list[k])
      /\ directries \in Int /\ TypeInv
  BY <1>1 DEF SplitUp, UpInv, NumberInv, SplitInv, Sorting, LInv, CountInv, TypeInv
<1>4. \A k \in 2 .. Len(list) : k \in Top(dir) + 1 .. Len(list)
  BY <1>2
<1>5. \A k \in 2 .. directries : k \in Top(dir) + 1 .. directries
  BY <1>2, <1>3
<1>6. \A k \in directries + 1 .. Len(list) : k \in Top(dir) + 1 .. Len(list)
  BY <1>2, <1>3
<1>7. \A k \in directries + 1 .. Len(list) : Entry(list[k]).kind = "file"
  BY <1>2, <1>3, <1>6, FileIs
<1> QED BY <1>1, <1>2, <1>3, <1>4, <1>5, <1>7 DEF IsDir

(* Where an area is. *)
LEMMA AreaIs ==
  ASSUME LInv, SplitUp, PassInv, phase = "area"
  PROVE  /\ area.lo \in Int /\ area.j \in Int /\ area.hi \in Int /\ i \in Int
         /\ 1 <= area.lo /\ area.lo <= area.j /\ area.j < area.hi /\ area.hi < End
         /\ End <= Len(list) /\ End \in Int /\ area.next \in {"exts", "groups"}
         /\ area.next = "exts" => area.lo = 1 /\ End = directries /\ exts = <<>>
         /\ area.next = "groups" => /\ directries <= area.lo /\ End = i
                                    /\ Len(exts) = Len(list) - directries
<1>1. directries \in Int /\ 1 <= directries
  BY ItemsAre DEF Sorting
<1>2. /\ area.lo \in Int /\ area.j \in Int /\ area.hi \in Int /\ i \in Int
      /\ area.lo <= area.j /\ area.j < area.hi /\ area.next \in {"exts", "groups"}
      /\ area.next = "exts" => exts = <<>>
      /\ area.next = "groups" => Len(exts) = Len(list) - directries
  BY DEF LInv, TypeInv, AreaInv, ExtsInv
<1>3. /\ area.hi < End /\ End <= Len(list)
      /\ IF area.next = "exts" THEN area.lo = 1 ELSE directries <= area.lo
  BY DEF PassInv
<1> QED BY <1>1, <1>2, <1>3 DEF End

LEMMA BubbleSplit ==
  ASSUME LInv, RInv, TruthInv, SplitUp, PassInv, Bubble
  PROVE  SplitUp'
<1> DEFINE a == area.j + 1
           b == area.j + 2
<1>1. /\ phase = "area" /\ phase' \in {"area", "exts", "groups"}
      /\ UNCHANGED <<dir, directries, archives>>
  BY DEF Bubble, counters, LInv, AreaInv
<1>2. CASE list' = list
  BY <1>1, <1>2, KeptSplit DEF Sorting
<1>3. CASE list' # list
  <2>1. AllDirs' = AllDirs /\ Top(dir)' = Top(dir) /\ \A e : IsDir(e)' = IsDir(e)
    BY <1>1 DEF AllDirs, IsDir, Entry
  <2>2. /\ Len(list) >= 1 /\ list[1] = IF dir.root THEN SETTINGS ELSE 1
        /\ directries >= 1
        /\ directries = Top(dir) + Cardinality(AllDirs) /\ archives = Len(list) - directries
        /\ \A k \in Top(dir) + 1 .. directries : IsDir(list[k])
        /\ \A k \in directries + 1 .. Len(list) : ~IsDir(list[k])
    BY <1>1 DEF SplitUp, UpInv, NumberInv, SplitInv, Sorting
  <2>3. /\ Len(list') = Len(list)
        /\ \A m \in 1 .. Len(list) : list'[m] =
             IF m = b THEN list[a] ELSE IF m = a THEN list[b] ELSE list[m]
    BY <1>3, BubbleIs
  <2>4. /\ directries \in Int /\ directries <= Len(list) /\ Len(list) \in Nat /\ Top(dir) \in {0, 1}
    BY <1>1, ItemsAre DEF Sorting
  <2>5. \/ a \in Top(dir) + 1 .. directries /\ b \in Top(dir) + 1 .. directries
        \/ a \in directries + 1 .. Len(list) /\ b \in directries + 1 .. Len(list)
    BY <1>1, <2>4, AreaIs
  <2>6. a # 1 /\ b # 1
    BY <1>1, AreaIs
  <2> HIDE DEF a, b
  <2>7. list'[1] = list[1]
    BY <2>2, <2>3, <2>4, <2>6
  <2>8. \A k \in Top(dir) + 1 .. directries : IsDir(list'[k])
    <3> SUFFICES ASSUME NEW k \in Top(dir) + 1 .. directries PROVE IsDir(list'[k])
      OBVIOUS
    <3>1. k \in 1 .. Len(list) /\ k \notin directries + 1 .. Len(list)
      BY <2>4
    <3> QED BY <2>2, <2>3, <2>5, <3>1
  <2>9. \A k \in directries + 1 .. Len(list) : ~IsDir(list'[k])
    <3> SUFFICES ASSUME NEW k \in directries + 1 .. Len(list) PROVE ~IsDir(list'[k])
      OBVIOUS
    <3>1. k \in 1 .. Len(list) /\ k \notin Top(dir) + 1 .. directries
      BY <2>2, <2>4
    <3> QED BY <2>2, <2>3, <2>5, <3>1
  <2> QED BY <1>1, <2>1, <2>2, <2>3, <2>7, <2>8, <2>9
          DEF SplitUp, UpInv, NumberInv, SplitInv, Sorting
<1> QED BY <1>2, <1>3

(* After a step the largest item of the pass is at its place ... *)
LEMMA BubbleOrder ==
  ASSUME LInv, RInv, TruthInv, SplitUp, PassInv, Bubble
  PROVE  /\ \A m \in area.lo + 1 .. area.j + 1 : ByName(list'[m], list'[area.j + 2])
         /\ \A k \in area.hi + 2 .. End, m \in area.lo + 1 .. End :
              m < k => ByName(list'[m], list'[k])
         /\ ~(area.j + 1 < area.hi) =>
              \A k \in area.hi + 1 .. End, m \in area.lo + 1 .. End :
                m < k => ByName(list'[m], list'[k])
<1> DEFINE a == area.j + 1
           b == area.j + 2
           lo == area.lo
           hi == area.hi
           E == 0 .. Len(dir.entries) - 1
<1>1. /\ phase = "area" /\ TypeInv
      /\ \A m \in lo + 1 .. area.j : ByName(list[m], list[a])
      /\ \A k \in hi + 2 .. End, m \in lo + 1 .. End : m < k => ByName(list[m], list[k])
  BY DEF Bubble, PassInv, LInv
<1>2. /\ lo \in Int /\ hi \in Int /\ area.j \in Int /\ End \in Int /\ 1 <= lo /\ lo <= area.j
      /\ area.j < hi /\ hi < End /\ End <= Len(list)
  BY <1>1, AreaIs
<1>3. /\ Len(list) \in Nat /\ \A k \in 2 .. Len(list) : list[k] \in E
  BY <1>1, ItemsAre DEF Sorting
<1>4. \/ list' = list /\ ByName(list[a], list[b])
      \/ /\ \A m \in 1 .. Len(list) : list'[m] =
              IF m = b THEN list[a] ELSE IF m = a THEN list[b] ELSE list[m]
         /\ ByName(list[b], list[a])
  BY BubbleIs
<1>5. /\ a \in lo + 1 .. End /\ b \in lo + 1 .. End /\ b < hi + 2 /\ a < b
      /\ \A m \in lo + 1 .. a : m \in 1 .. Len(list) /\ m # b /\ m \in 2 .. Len(list)
                             /\ (m # a => m \in lo + 1 .. area.j)
      /\ \A k \in lo + 1 .. End : k \in 1 .. Len(list) /\ k \in 2 .. Len(list)
  BY <1>2, <1>3
<1>6. \A e, f, g \in E : ByName(e, f) /\ ByName(f, g) => ByName(e, g)
  BY <1>1, ByNameOrder
<1>7. ASSUME NEW m \in lo + 1 .. a PROVE ByName(list'[m], list'[b])
  <2>1. list[m] \in E /\ list[a] \in E /\ list[b] \in E
    BY <1>3, <1>5
  <2>2. m = a \/ ByName(list[m], list[a])
    BY <1>1, <1>5
  <2>3. m \in 1 .. Len(list) /\ m # b /\ b \in 1 .. Len(list)
    BY <1>5
  <2> HIDE DEF a, b, lo, hi, E
  <2> QED BY <1>4, <1>6, <2>1, <2>2, <2>3
<1>8. ASSUME NEW k \in hi + 2 .. End, NEW m \in lo + 1 .. End, m < k
      PROVE  ByName(list'[m], list'[k])
  <2>a. k \in Int /\ hi + 2 <= k /\ k <= End /\ k \in lo + 1 .. End
    BY <1>2
  <2>1. k \in 1 .. Len(list) /\ m \in 1 .. Len(list) /\ k # a /\ k # b /\ a < k /\ b < k
    <3>1. k \in 1 .. Len(list) /\ m \in 1 .. Len(list) /\ a \in Int /\ b \in Int
      BY <1>2, <1>5, <2>a
    <3> HIDE DEF a, b
    <3> QED BY <1>2, <1>5, <2>a, <3>1
  <2>2. ByName(list[m], list[k]) /\ ByName(list[a], list[k]) /\ ByName(list[b], list[k])
    BY <1>1, <1>5, <1>8, <2>1
  <2> HIDE DEF a, b, lo, hi, E
  <2> QED BY <1>4, <2>1, <2>2
<1>9. ASSUME ~(area.j + 1 < hi), NEW k \in hi + 1 .. End, NEW m \in lo + 1 .. End, m < k
      PROVE  ByName(list'[m], list'[k])
  <2>1. CASE k \in hi + 2 .. End
    BY <1>8, <1>9, <2>1
  <2>2. CASE k \notin hi + 2 .. End
    <3>1. k = b /\ m \in lo + 1 .. a
      BY <1>2, <1>9, <2>2
    <3> QED BY <1>7, <3>1
  <2> QED BY <2>1, <2>2
<1> QED BY <1>7, <1>8, <1>9

LEMMA BubblePass ==
  ASSUME LInv, RInv, TruthInv, SplitUp, PassInv, Bubble
  PROVE  PassInv'
<1>1. /\ phase = "area" /\ UNCHANGED <<dir, sort, i, directries, exts>>
      /\ area \in [lo : Int, hi : Int, j : Int, next : Phases]
  BY DEF Bubble, counters, LInv, TypeInv
<1>2. /\ area.lo \in Int /\ area.j \in Int /\ area.hi \in Int /\ End \in Int
      /\ area.lo <= area.j /\ area.j < area.hi /\ area.hi < End /\ End <= Len(list)
      /\ area.next = "exts" => area.lo = 1
      /\ area.next = "groups" => directries <= area.lo
      /\ area.next \in {"exts", "groups"} /\ Len(list') = Len(list)
  BY <1>1, AreaIs, BubbleIs
<1>3. \A e, f : ByName(e, f)' <=> ByName(e, f)
  BY <1>1, SameOrder
<1>4. /\ \A m \in area.lo + 1 .. area.j + 1 : ByName(list'[m], list'[area.j + 2])
      /\ \A k \in area.hi + 2 .. End, m \in area.lo + 1 .. End :
           m < k => ByName(list'[m], list'[k])
      /\ ~(area.j + 1 < area.hi) =>
           \A k \in area.hi + 1 .. End, m \in area.lo + 1 .. End :
             m < k => ByName(list'[m], list'[k])
  BY BubbleOrder
<1>5. CASE area.j + 1 < area.hi
  <2>1. /\ area'.lo = area.lo /\ area'.hi = area.hi /\ area'.j = area.j + 1
        /\ area'.next = area.next
    BY <1>1, <1>5 DEF Bubble
  <2>2. End' = End /\ area'.j + 1 = area.j + 2
    BY <1>1, <1>2, <2>1 DEF End
  <2>3. \A m \in area.lo + 1 .. area.j + 1 : ByName(list[m], list[area.j + 1])'
    BY <1>3, <1>4, <2>2
  <2>4. \A k \in area.hi + 2 .. End, m \in area.lo + 1 .. End :
           m < k => ByName(list[m], list[k])'
    BY <1>3, <1>4
  <2> QED BY <1>1, <1>2, <2>1, <2>2, <2>3, <2>4 DEF PassInv
<1>6. CASE ~(area.j + 1 < area.hi) /\ area.hi - 1 > area.lo
  <2>1. /\ area'.lo = area.lo /\ area'.hi = area.hi - 1 /\ area'.j = area.lo
        /\ area'.next = area.next
    BY <1>1, <1>6 DEF Bubble
  <2>2. End' = End /\ area'.hi + 2 = area.hi + 1 /\ area'.hi < End
    BY <1>1, <1>2, <2>1 DEF End
  <2>3. area'.lo + 1 .. area'.j = {}
    BY <1>2, <2>1
  <2>4. \A k \in area.hi + 1 .. End, m \in area.lo + 1 .. End :
           m < k => ByName(list[m], list[k])'
    BY <1>3, <1>4, <1>6
  <2> QED BY <1>1, <1>2, <2>1, <2>2, <2>3, <2>4 DEF PassInv
<1>7. CASE ~(area.j + 1 < area.hi) /\ ~(area.hi - 1 > area.lo)
  <2>1. phase' = area.next
    BY <1>7 DEF Bubble
  <2> QED BY <1>2, <2>1 DEF PassInv
<1> QED BY <1>5, <1>6, <1>7

(* Of two files the order is told by extension and name. *)
LEMMA FilesBefore ==
  ASSUME NEW e, NEW f, Entry(e).kind = "file", Entry(f).kind = "file"
  PROVE  Before(e, f) <=> \/ Entry(e).ext < Entry(f).ext
                          \/ Entry(e).ext = Entry(f).ext /\ ByName(e, f)
BY DEF Before

LEMMA BubbleOrderInv ==
  ASSUME LInv, RInv, TruthInv, SplitUp, OrderInv, Bubble
  PROVE  OrderInv'
<1> DEFINE a == area.j + 1
           b == area.j + 2
           lo == area.lo
           D == directries
<1>1. /\ phase = "area" /\ UNCHANGED <<dir, sort, i, directries, exts>>
      /\ phase' \in {"area", "exts", "groups"}
      /\ phase' = "area" => area'.next = area.next /\ area'.lo = area.lo
      /\ phase' # "area" => /\ phase' = area.next /\ ~(area.j + 1 < area.hi)
                            /\ ~(area.hi - 1 > area.lo)
      /\ area \in [lo : Int, hi : Int, j : Int, next : Phases]
      /\ PassInv /\ DirsInv /\ FilesInv
  BY DEF Bubble, counters, LInv, TypeInv, AreaInv, OrderInv
<1>2. /\ lo \in Int /\ area.j \in Int /\ area.hi \in Int /\ End \in Int /\ i \in Int
      /\ 1 <= lo /\ lo <= area.j /\ area.j < area.hi /\ area.hi < End /\ End <= Len(list)
      /\ area.next = "exts" => lo = 1 /\ End = D /\ exts = <<>>
      /\ area.next = "groups" => D <= lo /\ End = i /\ Len(exts) = Len(list) - D
      /\ area.next \in {"exts", "groups"}
  BY <1>1, AreaIs
<1>3. /\ \A e, f : ByName(e, f)' <=> ByName(e, f)
      /\ \A e, f : Before(e, f)' <=> Before(e, f)
      /\ \A e : Entry(e)' = Entry(e)
  BY <1>1, SameOrder
<1>4. phase' # "area" =>
        \A k, m \in lo + 1 .. End : m < k => ByName(list'[m], list'[k])
  <2> SUFFICES ASSUME phase' # "area", NEW k \in lo + 1 .. End, NEW m \in lo + 1 .. End, m < k
               PROVE  ByName(list'[m], list'[k])
    OBVIOUS
  <2>1. k \in area.hi + 1 .. End
    BY <1>1, <1>2
  <2>2. \A n \in area.hi + 1 .. End, o \in area.lo + 1 .. End :
             o < n => ByName(list'[o], list'[n])
    BY <1>1, BubbleOrder
  <2> QED BY <2>1, <2>2
<1>5. PassInv'
  BY <1>1, BubblePass
<1>6. /\ D \in Int /\ 1 <= D /\ D <= Len(list) /\ Len(list) \in Nat
      /\ \A k \in D + 1 .. Len(list) : Entry(list[k]).kind = "file"
  BY <1>1, ItemsAre DEF Sorting
<1>7. \/ list' = list
      \/ \A m \in 1 .. Len(list) : list'[m] =
           IF m = b THEN list[a] ELSE IF m = a THEN list[b] ELSE list[m]
  BY BubbleIs
<1>8. DirsInv'
  <2>1. CASE area.next = "exts"
    <3>1. \A k, m \in 2 .. D : phase' # "area" => (m < k => ByName(list[m], list[k])')
      BY <1>2, <1>3, <1>4, <2>1
    <3> QED BY <1>1, <2>1, <3>1 DEF DirsInv, InGroups
  <2>2. CASE area.next = "groups"
    <3>1. \A k, m \in 2 .. D : m < k => ByName(list[m], list[k])
      BY <1>1, <2>2 DEF DirsInv, InGroups
    <3>2. \A k \in 2 .. D : list'[k] = list[k]
      <4>1. \A k \in 2 .. D : k \in 1 .. Len(list) /\ k # a /\ k # b
        BY <1>2, <1>6, <2>2
      <4> HIDE DEF a, b, D
      <4> QED BY <1>7, <4>1
    <3>3. \A k, m \in 2 .. D : m < k => ByName(list[m], list[k])'
      BY <1>3, <3>1, <3>2
    <3> QED BY <1>1, <3>3 DEF DirsInv
  <2> QED BY <1>2, <2>1, <2>2
<1>9. ExtensionInv'
  <2>1. phase' = "exts" => Len(exts') = 0
    BY <1>1, <1>2
  <2> QED BY <1>1, <2>1 DEF ExtensionInv
<1>10. FilesInv'
  <2>1. CASE area.next = "exts"
    BY <1>1, <2>1 DEF FilesInv, InGroups
  <2>2. CASE area.next = "groups"
    <3> DEFINE N == Len(exts)
    <3>1. /\ \A k, m \in 1 .. N : m < k => exts[m].name <= exts[k].name
          /\ \A k \in 1 .. N : Entry(list[D + k]).ext = exts[k].name
          /\ \A k \in i - D + 1 .. N, m \in 1 .. i - D : exts[m].name < exts[k].name
          /\ \A k \in lo - D + 1 .. N, m \in 1 .. lo - D : exts[m].name < exts[k].name
          /\ \A k, m \in lo - D + 1 .. i - D : exts[m].name = exts[k].name
          /\ \A k, m \in D + 1 .. lo : m < k => Before(list[m], list[k])
      BY <1>1, <2>2 DEF FilesInv, InGroups, InOrder
    <3>a. D <= lo /\ i = End /\ N = Len(list) - D /\ i <= Len(list) /\ N \in Int
      BY <1>2, <1>6, <2>2
    <3> HIDE DEF N
    <3>b. /\ a \in Int /\ b \in Int /\ lo + 1 <= a /\ a <= i /\ lo + 1 <= b /\ b <= i
      BY <1>2, <3>a
    <3> HIDE DEF a, b, lo, D
    <3>2. /\ a \in lo + 1 .. i /\ b \in lo + 1 .. i
          /\ a - D \in lo - D + 1 .. i - D /\ b - D \in lo - D + 1 .. i - D
          /\ a - D \in 1 .. N /\ b - D \in 1 .. N /\ D + (a - D) = a /\ D + (b - D) = b
          /\ a \in D + 1 .. Len(list) /\ b \in D + 1 .. Len(list)
      BY <1>2, <1>6, <3>a, <3>b
    <3>3. \A k \in 1 .. N : D + k \in 1 .. Len(list) /\ (D + k = a => k = a - D)
                            /\ (D + k = b => k = b - D)
      BY <1>2, <1>6, <3>a, <3>b
    <3>4. \A k \in 1 .. N : Entry(list'[D + k]).ext = exts[k].name
      <4> SUFFICES ASSUME NEW k \in 1 .. N PROVE Entry(list'[D + k]).ext = exts[k].name
        OBVIOUS
      <4>1. Entry(list[a]).ext = exts[a - D].name /\ Entry(list[b]).ext = exts[b - D].name
            /\ exts[a - D].name = exts[b - D].name
        BY <3>1, <3>2
      <4> QED BY <1>7, <3>1, <3>3, <4>1
    <3>5. \A k \in D + 1 .. Len(list) : Entry(list'[k]).kind = "file"
      <4>1. \A k \in D + 1 .. Len(list) : k \in 1 .. Len(list)
        BY <1>6
      <4> QED BY <1>6, <1>7, <3>2, <4>1
    <3>6. \A k \in D + 1 .. lo : list'[k] = list[k]
      <4>1. \A k \in D + 1 .. lo : k \in 1 .. Len(list) /\ k # a /\ k # b
        BY <1>2, <1>6, <3>2
      <4> QED BY <1>7, <4>1
    <3>7. \A k, m \in D + 1 .. lo : m < k => Before(list[m], list[k])'
      BY <1>3, <3>1, <3>6
    <3>8. CASE phase' = "area"
      <4>1. InOrder' = lo
        BY <1>1, <3>8 DEF InOrder, lo
      <4> QED BY <1>1, <1>3, <3>1, <3>4, <3>7, <4>1 DEF FilesInv, N, lo, D
    <3>9. CASE phase' # "area"
      <4>1. InOrder' = i
        BY <1>1, <3>9 DEF InOrder
      <4>2. ASSUME NEW k \in D + 1 .. i, NEW m \in D + 1 .. i, m < k
            PROVE  Before(list[m], list[k])'
        <5>1. CASE k \in D + 1 .. lo /\ m \in D + 1 .. lo
          BY <3>7, <4>2, <5>1
        <5>2. CASE ~(k \in D + 1 .. lo /\ m \in D + 1 .. lo)
          <6>1. /\ k - D \in 1 .. N /\ m - D \in 1 .. N /\ D + (k - D) = k /\ D + (m - D) = m
                /\ k \in D + 1 .. Len(list) /\ m \in D + 1 .. Len(list)
                /\ k \in lo + 1 .. i /\ k - D \in lo - D + 1 .. i - D /\ k - D \in lo - D + 1 .. N
                /\ m \in D + 1 .. lo => m - D \in 1 .. lo - D
                /\ m \notin D + 1 .. lo => m \in lo + 1 .. i /\ m - D \in lo - D + 1 .. i - D
            BY <1>2, <1>6, <3>a, <3>2, <4>2, <5>2
          <6>2. Entry(list'[k]).ext = exts[k - D].name /\ Entry(list'[m]).ext = exts[m - D].name
            BY <3>4, <6>1
          <6>3. Entry(list'[k]).kind = "file" /\ Entry(list'[m]).kind = "file"
            BY <3>5, <6>1
          <6>4. \/ exts[m - D].name < exts[k - D].name
                \/ exts[m - D].name = exts[k - D].name /\ ByName(list'[m], list'[k])
            <7>1. m \in D + 1 .. lo => exts[m - D].name < exts[k - D].name
              BY <3>1, <6>1
            <7>2. m \notin D + 1 .. lo => exts[m - D].name = exts[k - D].name
              BY <3>1, <6>1
            <7>3. m \notin D + 1 .. lo => ByName(list'[m], list'[k])
              BY <1>4, <3>a, <3>9, <4>2, <6>1
            <7> QED BY <7>1, <7>2, <7>3
          <6>5. Before(list'[m], list'[k])
            BY <6>2, <6>3, <6>4, FilesBefore
          <6> QED BY <1>3, <6>5
        <5> QED BY <5>1, <5>2
      <4>3. i - D + 1 .. i - D = {}
        BY <1>2, <1>6
      <4> QED BY <1>1, <1>3, <3>1, <3>4, <4>1, <4>2, <4>3 DEF FilesInv, N, lo, D
    <3> QED BY <3>8, <3>9
  <2> QED BY <1>2, <2>1, <2>2
<1>11. Arranged'
  BY <1>1 DEF Arranged
<1> QED BY <1>5, <1>8, <1>9, <1>10, <1>11 DEF OrderInv

LEMMA EarlyOrder ==
  ASSUME phase' \in {"scan", "count", "collect"}
  PROVE  OrderInv'
BY DEF OrderInv, PassInv, DirsInv, ExtensionInv, FilesInv, Arranged, InGroups

LEMMA ScanOrder ==
  ASSUME LInv, SplitUp', Scan
  PROVE  OrderInv'
<1>1. phase' \in {"scan", "count", "idle"} /\ dir' = dir /\ phase = "scan"
  BY DEF Scan
<1>2. CASE phase' # "idle"
  BY <1>1, <1>2, EarlyOrder
<1>3. CASE phase' = "idle"
  <2>1. list' = list /\ Len(list) <= 2
    BY <1>1, <1>3 DEF Scan
  <2>2. Len(list) \in Nat
    BY ListLen DEF LInv
  <2>3. list'[1] = IF dir'.root THEN SETTINGS ELSE 1
    BY <1>3 DEF SplitUp, UpInv
  <2>4. \A k, l \in 2 .. Len(list') : ~(k < l)
    BY <2>1, <2>2
  <2>5. Arranged'
    BY <1>3, <2>3, <2>4 DEF Arranged
  <2> QED BY <1>3, <2>5 DEF OrderInv, PassInv, DirsInv, ExtensionInv, FilesInv, InGroups
<1> QED BY <1>2, <1>3

LEMMA CollectOrder ==
  ASSUME LInv, Collect
  PROVE  OrderInv'
<1>1. /\ phase = "collect" /\ UNCHANGED <<dir, sort, directries, archives, exts>>
      /\ directries \in Int /\ directries <= Len(list) /\ exts = <<>>
  BY DEF Collect, LInv, TypeInv, CountInv, ExtsInv
<1>2. CASE i < Len(list)
  <2>1. phase' = "collect"
    BY <1>1, <1>2 DEF Collect
  <2> QED BY <2>1, EarlyOrder
<1>3. CASE ~(i < Len(list))
  <2>1. SortArea(1, directries - 1, "exts") /\ list' = list
    BY <1>3 DEF Collect
  <2>2. \A e, f : ~sort => ByName(e, f)'
    BY <1>1 DEF ByName
  <2>3. Len(exts') = 0
    BY <1>1
  <2>4. CASE sort /\ directries - 1 > 1
    <3>1. /\ phase' = "area" /\ area'.lo = 1 /\ area'.hi = 1 + (directries - 1) - 1
          /\ area'.j = 1 /\ area'.next = "exts"
      BY <2>1, <2>4 DEF SortArea
    <3>2. End' = directries /\ area'.hi = directries - 1
      BY <1>1, <3>1 DEF End
    <3>3. area'.lo + 1 .. area'.j = {} /\ area'.hi + 2 .. End' = {} /\ area'.hi < End'
      BY <1>1, <3>1, <3>2
    <3>4. PassInv'
      BY <1>1, <2>1, <3>1, <3>2, <3>3 DEF PassInv
    <3> QED BY <3>1, <3>4 DEF OrderInv, DirsInv, ExtensionInv, FilesInv, Arranged, InGroups
  <2>5. CASE ~(sort /\ directries - 1 > 1)
    <3>1. phase' = "exts"
      BY <2>1, <2>5 DEF SortArea
    <3>2. ~sort \/ \A k, m \in 2 .. directries : ~(m < k)
      BY <1>1, <2>5
    <3>3. DirsInv'
      BY <1>1, <2>2, <3>2 DEF DirsInv
    <3>4. ExtensionInv'
      BY <2>3, <3>1 DEF ExtensionInv
    <3> QED BY <3>1, <3>3, <3>4 DEF OrderInv, PassInv, FilesInv, Arranged, InGroups
  <2> QED BY <2>4, <2>5
<1> QED BY <1>2, <1>3

(* With the directories and the files in order, the list is.                *)
LEMMA Finished ==
  ASSUME LInv, SplitUp, Sorting, DirsInv, phase # "area" \/ area.next = "groups",
         \A k, m \in directries + 1 .. Len(list) : m < k => Before(list[m], list[k])
  PROVE  /\ list[1] = IF dir.root THEN SETTINGS ELSE 1
         /\ \A k, l \in 2 .. Len(list) : k < l => Before(list[k], list[l])
<1>1. /\ Len(list) \in Nat /\ directries \in Int
      /\ 1 <= directries /\ directries <= Len(list)
      /\ list[1] = IF dir.root THEN SETTINGS ELSE 1
      /\ \A k \in 2 .. directries : Entry(list[k]).kind = "dir"
      /\ \A k \in directries + 1 .. Len(list) : Entry(list[k]).kind = "file"
  BY ItemsAre
<1>2. \A k, m \in 2 .. directries : m < k => ByName(list[m], list[k])
  BY DEF DirsInv, Sorting, InGroups
<1>3. ASSUME NEW k \in 2 .. Len(list), NEW l \in 2 .. Len(list), k < l
      PROVE  Before(list[k], list[l])
  <2>1. CASE l \in 2 .. directries
    <3>1. k \in 2 .. directries
      BY <1>1, <1>3, <2>1
    <3> QED BY <1>1, <1>2, <1>3, <2>1, <3>1 DEF Before
  <2>2. CASE k \in 2 .. directries /\ l \notin 2 .. directries
    <3>1. l \in directries + 1 .. Len(list)
      BY <1>1, <2>2
    <3> QED BY <1>1, <2>2, <3>1 DEF Before
  <2>3. CASE k \notin 2 .. directries
    <3>1. k \in directries + 1 .. Len(list) /\ l \in directries + 1 .. Len(list)
      BY <1>1, <1>3, <2>3
    <3> QED BY <1>3, <3>1
  <2>4. l \in 2 .. directries => k \in 2 .. directries
    BY <1>1, <1>3
  <2> QED BY <2>1, <2>2, <2>3
<1> QED BY <1>1, <1>3

LEMMA MakeExtsOrder ==
  ASSUME LInv, RInv, TruthInv, SplitUp, OrderInv, MakeExts
  PROVE  OrderInv'
<1>1. /\ phase = "exts" /\ UNCHANGED <<dir, list, sort, directries, archives>>
      /\ cache \in Cache /\ IsTrue(cache) /\ TypeInv /\ DirsInv /\ ExtensionInv
      /\ i = directries + Len(exts) /\ i <= Len(list) /\ exts \in Seq(Extension)
      /\ \A k \in 2 .. directries, m \in 2 .. directries : m < k => ByName(list[m], list[k])
  BY DEF MakeExts, LInv, TypeInv, ExtsInv, RInv, ReaderTypes, TruthInv, OrderInv, DirsInv
<1>2. /\ Sorting /\ Len(list) \in Nat /\ directries \in Int
      /\ 1 <= directries /\ directries <= Len(list)
      /\ archives = Len(list) - directries
      /\ \A k \in 2 .. Len(list) : list[k] \in 0 .. Len(dir.entries) - 1
  BY <1>1, ItemsAre DEF Sorting
<1>3. /\ \A e, f : ByName(e, f)' <=> ByName(e, f)
      /\ \A e, f : Before(e, f)' <=> Before(e, f)
      /\ \A e : Entry(e)' = Entry(e)
  BY <1>1, SameOrder
<1>4. /\ Len(exts) \in Nat
      /\ \A k \in 1 .. Len(exts) : exts[k].name = Entry(exts[k].id).ext
  BY <1>1, LenProperties DEF ExtensionInv
<1>5. DirsInv'
  BY <1>1, <1>3 DEF DirsInv
<1>6. CASE archives <= 1
  <2>1. phase' = "idle"
    BY <1>6 DEF MakeExts
  <2>2. \A k, m \in directries + 1 .. Len(list) : ~(m < k)
    BY <1>2, <1>6
  <2>3. /\ list[1] = IF dir.root THEN SETTINGS ELSE 1
        /\ \A k, l \in 2 .. Len(list) : k < l => Before(list[k], list[l])
    BY <1>1, <1>2, <2>2, Finished
  <2>4. Arranged'
    BY <1>1, <1>3, <2>3 DEF Arranged
  <2> QED BY <2>1, <2>4 DEF OrderInv, PassInv, DirsInv, ExtensionInv, FilesInv, InGroups
<1>7. CASE ~(archives <= 1) /\ i < Len(list)
  <2> DEFINE e == list[i + 1]
             x == [id |-> e, name |-> Read(cache, e).ext]
  <2>1. phase' = "exts" /\ exts' = Append(exts, x)
    BY <1>1, <1>7 DEF MakeExts
  <2>2. e \in 0 .. Len(dir.entries) - 1
    <3>1. i + 1 \in 2 .. Len(list)
      BY <1>1, <1>2, <1>4, <1>7
    <3> QED BY <1>2, <3>1
  <2>3. Read(cache, e) = Entry(e)
    BY <1>1, <2>2, ReadTrue
  <2>4. x.name = Entry(x.id).ext
    BY <2>3
  <2> HIDE DEF x
  <2>5. /\ Len(exts') = Len(exts) + 1
        /\ \A k \in 1 .. Len(exts) : exts'[k] = exts[k]
        /\ exts'[Len(exts) + 1] = x
    BY <1>1, <2>1, AppendProperties
  <2>6. \A k \in 1 .. Len(exts') : k \in 1 .. Len(exts) \/ k = Len(exts) + 1
    BY <1>4, <2>5
  <2>7. \A k \in 1 .. Len(exts') : exts'[k].name = Entry(exts'[k].id).ext
    BY <1>4, <2>4, <2>5, <2>6
  <2>8. ExtensionInv'
    BY <1>3, <2>1, <2>7 DEF ExtensionInv
  <2> QED BY <1>5, <2>1, <2>8 DEF OrderInv, PassInv, FilesInv, Arranged, InGroups
<1>8. CASE ~(archives <= 1) /\ ~(i < Len(list))
  <2>1. /\ phase' = "extension" /\ exts' = exts
        /\ area'.lo = 0 /\ area'.hi = Len(exts) - 1 /\ area'.j = 0
    BY <1>8 DEF MakeExts
  <2>2. Len(exts) >= 2
    BY <1>1, <1>2, <1>4, <1>8
  <2>3. area'.j <= area'.hi /\ 1 .. area'.j = {} /\ area'.hi + 2 .. Len(exts) = {}
    BY <1>4, <2>1, <2>2
  <2>4. ExtensionInv'
    BY <1>3, <1>4, <2>1, <2>3 DEF ExtensionInv
  <2> QED BY <1>5, <2>1, <2>4 DEF OrderInv, PassInv, FilesInv, Arranged, InGroups
<1> QED BY <1>6, <1>7, <1>8

LEMMA SortExtsOrder ==
  ASSUME LInv, SplitUp, OrderInv, SortExts
  PROVE  OrderInv'
<1>1. /\ phase = "extension" /\ UNCHANGED <<dir, sort, directries, archives>>
      /\ exts \in Seq(Extension) /\ area \in [lo : Int, hi : Int, j : Int, next : Phases]
      /\ area.j >= 0 /\ area.hi <= Len(exts) - 1 /\ area.j <= area.hi
      /\ \A k \in 1 .. Len(exts) : exts[k].name = Entry(exts[k].id).ext
      /\ \A m \in 1 .. area.j : exts[m].name <= exts[area.j + 1].name
      /\ \A k \in area.hi + 2 .. Len(exts), m \in 1 .. Len(exts) :
           m < k => exts[m].name <= exts[k].name
      /\ \A k, m \in 2 .. directries : m < k => ByName(list[m], list[k])
  BY DEF SortExts, LInv, TypeInv, ExtsInv, OrderInv, DirsInv, ExtensionInv
<1>2. /\ Len(exts) \in Nat /\ area.j \in Int /\ area.hi \in Int
      /\ \A k \in 1 .. Len(exts) : exts[k].name \in Nat
      /\ directries \in Int /\ 1 <= directries
  <2>1. Len(exts) \in Nat /\ \A k \in 1 .. Len(exts) : exts[k] \in Extension
    BY <1>1, LenProperties, ElementOfSeq
  <2>2. directries \in Int /\ 1 <= directries
    BY <1>1, ItemsAre DEF Sorting
  <2> QED BY <1>1, <2>1, <2>2 DEF Extension
<1>3. /\ \A e, f : ByName(e, f)' <=> ByName(e, f)
      /\ \A e : Entry(e)' = Entry(e)
  BY <1>1, SameOrder
<1>4. CASE area.j < area.hi
  <2> DEFINE a == area.j + 1
             b == area.j + 2
             swapped == [exts EXCEPT ![a] = exts[b], ![b] = exts[a]]
  <2>1. /\ exts' = IF exts[a].name > exts[b].name THEN swapped ELSE exts
        /\ area'.j = area.j + 1 /\ area'.hi = area.hi /\ list' = list /\ phase' = "extension"
    BY <1>1, <1>4 DEF SortExts
  <2>2. /\ a \in 1 .. Len(exts) /\ b \in 1 .. Len(exts) /\ a < b /\ b < area.hi + 2
        /\ \A m \in 1 .. a : m \in 1 .. Len(exts) /\ m # b /\ (m # a => m \in 1 .. area.j)
    BY <1>1, <1>2, <1>4
  <2>3. /\ Len(exts') = Len(exts)
        /\ \A k \in 1 .. Len(exts) : exts'[k] =
             IF exts[a].name > exts[b].name
             THEN IF k = b THEN exts[a] ELSE IF k = a THEN exts[b] ELSE exts[k]
             ELSE exts[k]
    <3>1. swapped = Exchanged(exts, a, b)
      BY DEF Exchanged
    <3> HIDE DEF a, b
    <3>2. Len(swapped) = Len(exts)
      BY <1>1, <2>2, <3>1, ExchangedSeq
    <3>3. \A k \in 1 .. Len(exts) : swapped[k] =
             IF k = b THEN exts[a] ELSE IF k = a THEN exts[b] ELSE exts[k]
      BY <1>1, <2>2, <3>1, ExchangedAt
    <3> HIDE DEF a, b, swapped
    <3> QED BY <2>1, <3>2, <3>3
  <2>4. \A k \in 1 .. Len(exts) : exts'[k].name = Entry(exts'[k].id).ext
    <3> HIDE DEF a, b
    <3> QED BY <1>1, <2>2, <2>3
  <2>5. \A m \in 1 .. a : exts'[m].name <= exts'[b].name
    <3> SUFFICES ASSUME NEW m \in 1 .. a PROVE exts'[m].name <= exts'[b].name
      OBVIOUS
    <3>1. m = a \/ exts[m].name <= exts[a].name
      BY <1>1, <2>2
    <3>2. m \in 1 .. Len(exts) /\ m # b /\ exts[m].name \in Nat
          /\ exts[a].name \in Nat /\ exts[b].name \in Nat
      BY <1>2, <2>2
    <3>3. exts'[b] = IF exts[a].name > exts[b].name THEN exts[a] ELSE exts[b]
      <4> HIDE DEF a, b
      <4> QED BY <2>2, <2>3
    <3>4. exts'[m] = IF exts[a].name > exts[b].name /\ m = a THEN exts[b] ELSE exts[m]
      <4> HIDE DEF a, b
      <4> QED BY <2>2, <2>3, <3>2
    <3> HIDE DEF a, b
    <3> QED BY <3>1, <3>2, <3>3, <3>4
  <2>6. ASSUME NEW k \in area.hi + 2 .. Len(exts), NEW m \in 1 .. Len(exts), m < k
        PROVE  exts'[m].name <= exts'[k].name
    <3>1. k \in 1 .. Len(exts) /\ k # a /\ k # b /\ a < k /\ b < k
      <4>1. k \in Int /\ area.hi + 2 <= k /\ k <= Len(exts)
        BY <1>2
      <4> QED BY <1>1, <1>2, <1>4, <4>1
    <3>2. exts[m].name <= exts[k].name /\ exts[a].name <= exts[k].name
          /\ exts[b].name <= exts[k].name
      <4> HIDE DEF a, b
      <4> QED BY <1>1, <2>2, <2>6, <3>1
    <3> HIDE DEF a, b
    <3> QED BY <2>3, <3>1, <3>2
  <2>7. area'.j + 1 = b /\ area'.j = a /\ area'.j <= area'.hi
    BY <1>2, <1>4, <2>1
  <2> HIDE DEF a, b
  <2>8. ExtensionInv'
    BY <1>3, <2>1, <2>3, <2>4, <2>5, <2>6, <2>7 DEF ExtensionInv
  <2>9. DirsInv'
    BY <1>1, <1>3, <2>1 DEF DirsInv
  <2> QED BY <2>1, <2>8, <2>9 DEF OrderInv, PassInv, FilesInv, Arranged, InGroups
<1>5. CASE ~(area.j < area.hi)
  <2>1. area.j = area.hi
    BY <1>1, <1>2, <1>5
  <2>2. ASSUME NEW k \in area.hi + 1 .. Len(exts), NEW m \in 1 .. Len(exts), m < k
        PROVE  exts[m].name <= exts[k].name
    <3>1. CASE k = area.hi + 1
      <4>1. m \in 1 .. area.j
        BY <1>1, <1>2, <2>1, <2>2, <3>1
      <4> QED BY <1>1, <2>1, <3>1, <4>1
    <3>2. CASE k # area.hi + 1
      <4>1. k \in area.hi + 2 .. Len(exts)
        BY <1>2, <3>2
      <4> QED BY <1>1, <2>2, <4>1
    <3> QED BY <3>1, <3>2
  <2>3. CASE area.hi > 0
    <3>1. /\ area'.j = 0 /\ area'.hi = area.hi - 1 /\ UNCHANGED <<list, exts>>
          /\ phase' = "extension"
      BY <1>1, <1>5, <2>3 DEF SortExts
    <3>2. 1 .. area'.j = {} /\ area'.hi + 2 = area.hi + 1 /\ area'.j <= area'.hi
      BY <1>2, <2>3, <3>1
    <3>3. ExtensionInv'
      BY <1>1, <1>3, <2>2, <3>1, <3>2 DEF ExtensionInv
    <3>4. DirsInv'
      BY <1>1, <1>3, <3>1 DEF DirsInv
    <3> QED BY <3>1, <3>3, <3>4 DEF OrderInv, PassInv, FilesInv, Arranged, InGroups
  <2>4. CASE ~(area.hi > 0)
    <3>1. /\ phase' = "groups" /\ i' = directries /\ exts' = exts
          /\ Len(list') = Len(list)
          /\ \A k \in 1 .. directries : list'[k] = list[k]
          /\ \A k \in 1 .. Len(exts) : list'[directries + k] = exts[k].id
      BY <1>5, <2>4, TailPut
    <3>2. \A k, m \in 1 .. Len(exts) : m < k => exts[m].name <= exts[k].name
      <4> SUFFICES ASSUME NEW k \in 1 .. Len(exts), NEW m \in 1 .. Len(exts), m < k
                   PROVE  exts[m].name <= exts[k].name
        OBVIOUS
      <4>1. k \in area.hi + 1 .. Len(exts)
        BY <1>2, <2>4
      <4> QED BY <2>2, <4>1
    <3>3. \A k \in 1 .. Len(exts) : Entry(list'[directries + k]).ext = exts[k].name
      BY <1>1, <3>1
    <3>4. \A k, m \in 2 .. directries : m < k => ByName(list'[m], list'[k])
      <4>1. \A k \in 2 .. directries : k \in 1 .. directries
        BY <1>2
      <4> QED BY <1>1, <3>1, <4>1
    <3>5. InOrder' = directries /\ 1 .. directries - directries = {}
          /\ directries - directries + 1 .. directries - directries = {}
          /\ directries + 1 .. directries = {}
      BY <1>2, <3>1 DEF InOrder
    <3>6. FilesInv'
      BY <1>1, <1>3, <3>1, <3>2, <3>3, <3>5 DEF FilesInv
    <3>7. DirsInv'
      BY <1>1, <1>3, <3>4 DEF DirsInv
    <3> QED BY <3>1, <3>6, <3>7 DEF OrderInv, PassInv, ExtensionInv, Arranged
  <2> QED BY <2>3, <2>4
<1> QED BY <1>4, <1>5

LEMMA GroupsOrder ==
  ASSUME LInv, SplitUp, OrderInv, Groups
  PROVE  OrderInv'
<1> DEFINE D == directries
           N == Len(exts)
<1>1. /\ phase = "groups" /\ UNCHANGED <<dir, list, sort, directries, archives>>
      /\ Sorting /\ DirsInv /\ FilesInv
      /\ exts \in Seq(Extension) /\ i \in Int /\ D <= i /\ i <= Len(list) /\ N = Len(list) - D
  BY DEF Groups, OrderInv, Sorting, LInv, TypeInv, ExtsInv
<1>2. /\ Len(list) \in Nat /\ D \in Int /\ 1 <= D /\ D <= Len(list) /\ N \in Nat
      /\ \A k \in D + 1 .. Len(list) : Entry(list[k]).kind = "file"
  BY <1>1, ItemsAre, LenProperties
<1>3. /\ \A e, f : ByName(e, f)' <=> ByName(e, f)
      /\ \A e, f : Before(e, f)' <=> Before(e, f)
      /\ \A e : Entry(e)' = Entry(e)
  BY <1>1, SameOrder
<1>4. /\ \A k, m \in 1 .. N : m < k => exts[m].name <= exts[k].name
      /\ \A k \in 1 .. N : Entry(list[D + k]).ext = exts[k].name
      /\ \A k \in i - D + 1 .. N, m \in 1 .. i - D : exts[m].name < exts[k].name
      /\ \A k, m \in D + 1 .. i : m < k => Before(list[m], list[k])
  BY <1>1 DEF FilesInv, InGroups, InOrder
<1>5. DirsInv'
  <2>1. \A k, m \in 2 .. D : m < k => ByName(list[m], list[k])
    BY <1>1 DEF DirsInv, InGroups
  <2> QED BY <1>1, <1>3, <2>1 DEF DirsInv
<1>6. \A k \in 1 .. N : exts[k].name \in Nat
  <2>1. \A k \in 1 .. N : exts[k] \in Extension
    BY <1>1, ElementOfSeq
  <2> QED BY <2>1 DEF Extension
<1>7. CASE i < Len(list)
  <2> DEFINE first == i - directries + 1
  <2>1. PICK size \in Int :
           /\ 1 <= size /\ i + size <= Len(list)
           /\ SortArea(i, size, "groups") /\ i' = i + size /\ exts' = exts
           /\ \A k \in first .. first + size - 1 : exts[k].name = exts[first].name
           /\ i + size < Len(list) =>
                \E k \in first .. first + size : exts[k].name # exts[first].name
    BY <1>7, GroupIs
  <2>2. first \in Int /\ first = i - D + 1 /\ 1 <= first /\ first <= N
    BY <1>1, <1>2, <1>7
  <2> HIDE DEF D, N, first
  <2>3. /\ i + size - D = first + size - 1 /\ first + size - 1 <= N
        /\ i + size < Len(list) => first + size \in 1 .. N
        /\ ~(i + size < Len(list)) => first + size = N + 1
    <3>1. 1 <= size /\ i + size <= Len(list)
      BY <2>1
    <3>2. D <= i /\ i \in Int /\ N = Len(list) - D /\ D \in Int /\ Len(list) \in Nat
      BY <1>1, <1>2
    <3> QED BY <2>2, <3>1, <3>2
  <2>4. \A k \in i + size - D + 1 .. N, m \in 1 .. i + size - D : exts[m].name < exts[k].name
    <3> SUFFICES ASSUME NEW k \in first + size .. N, NEW m \in 1 .. first + size - 1
                 PROVE  exts[m].name < exts[k].name
      BY <1>1, <1>2, <2>1, <2>2, <2>3
    <3>1. /\ first + size \in 1 .. N /\ k \in 1 .. N /\ m \in 1 .. N /\ first \in 1 .. N
          /\ i + size < Len(list) /\ first + size <= k /\ first < first + size
      BY <1>2, <2>1, <2>2, <2>3
    <3>2. exts[m].name <= exts[first].name
      <4>1. CASE m < first
        BY <1>4, <3>1, <4>1
      <4>2. CASE ~(m < first)
        <5>1. m \in first .. first + size - 1
          BY <2>2, <4>2
        <5>2. exts[m].name = exts[first].name
          BY <2>1, <5>1
        <5> QED BY <1>6, <3>1, <5>2
      <4> QED BY <4>1, <4>2
    <3>3. exts[first].name < exts[first + size].name
      <4>1. PICK l \in first .. first + size : exts[l].name # exts[first].name
        BY <2>1, <3>1
      <4>2. l = first + size
        <5>1. l \notin first .. first + size - 1
          BY <2>1, <4>1
        <5> QED BY <2>1, <2>2, <5>1
      <4>3. exts[first].name <= exts[first + size].name
        BY <1>4, <3>1
      <4> QED BY <1>6, <3>1, <4>1, <4>2, <4>3
    <3>4. exts[first + size].name <= exts[k].name
      <4>1. CASE first + size = k
        BY <1>6, <3>1, <4>1
      <4>2. CASE first + size # k
        <5>1. first + size < k
          BY <3>1, <4>2
        <5> QED BY <1>4, <3>1, <5>1
      <4> QED BY <4>1, <4>2
    <3> QED BY <1>6, <3>1, <3>2, <3>3, <3>4
  <2>5. \A k, m \in i - D + 1 .. i + size - D : exts[m].name = exts[k].name
    <3>1. \A k \in i - D + 1 .. i + size - D : k \in first .. first + size - 1
      BY <2>2, <2>3
    <3> QED BY <2>1, <3>1
  <2>8. /\ list' = list /\ directries' = D /\ i' = i + size /\ exts' = exts
        /\ i \in Int /\ D \in Int /\ size \in Int /\ N = Len(exts) /\ N \in Int
    BY <1>1, <1>2, <2>1 DEF D, N
  <2>6. CASE sort /\ size > 1
    <3>1. /\ phase' = "area" /\ area'.lo = i /\ area'.hi = i + size - 1 /\ area'.j = i
          /\ area'.next = "groups"
      BY <2>1, <2>6 DEF SortArea
    <3>2. End' = i + size
      BY <2>1, <3>1 DEF End
    <3>3. area'.lo + 1 .. area'.j = {} /\ area'.hi + 2 .. End' = {} /\ area'.hi < End'
      BY <1>1, <2>1, <3>1, <3>2
    <3>4. PassInv'
      BY <1>1, <2>1, <3>1, <3>2, <3>3 DEF PassInv, D
    <3>5. InOrder' = i
      BY <3>1 DEF InOrder
    <3>6. FilesInv'
      <4>1. \A k, m \in 1 .. Len(exts') : m < k => exts'[m].name <= exts'[k].name
        BY <1>4, <2>8 DEF N
      <4>2. \A k \in 1 .. Len(exts') : Entry(list[directries + k])'.ext = exts'[k].name
        BY <1>3, <1>4, <2>8 DEF N
      <4>3. \A k \in i' - directries' + 1 .. Len(exts'), m \in 1 .. i' - directries' :
              exts'[m].name < exts'[k].name
        BY <2>4, <2>8
      <4>4. \A k \in i - directries' + 1 .. Len(exts'), m \in 1 .. i - directries' :
              exts'[m].name < exts'[k].name
        BY <1>4, <2>8 DEF N
      <4>5. \A k, m \in i - directries' + 1 .. i' - directries' : exts'[m].name = exts'[k].name
        BY <2>5, <2>8
      <4>6. \A k, m \in directries' + 1 .. i : m < k => Before(list[m], list[k])'
        BY <1>3, <1>4, <2>8
      <4> QED BY <3>5, <4>1, <4>2, <4>3, <4>4, <4>5, <4>6 DEF FilesInv
    <3> QED BY <1>5, <3>1, <3>4, <3>6 DEF OrderInv, ExtensionInv, Arranged
  <2>7. CASE ~(sort /\ size > 1)
    <3>1. phase' = "groups"
      BY <2>1, <2>7 DEF SortArea
    <3>2. InOrder' = i + size
      BY <2>1, <3>1 DEF InOrder
    <3>3. i + size - D + 1 .. i + size - D = {}
      BY <1>1, <1>2, <2>1
    <3>4. ASSUME NEW k \in D + 1 .. i + size, NEW m \in D + 1 .. i + size, m < k
          PROVE  Before(list[m], list[k])
      <4>1. /\ k - D \in 1 .. N /\ m - D \in 1 .. N /\ D + (k - D) = k /\ D + (m - D) = m
            /\ k \in D + 1 .. Len(list) /\ m \in D + 1 .. Len(list)
        BY <1>1, <1>2, <2>1
      <4>2. /\ Entry(list[k]).ext = exts[k - D].name /\ Entry(list[m]).ext = exts[m - D].name
            /\ Entry(list[k]).kind = "file" /\ Entry(list[m]).kind = "file"
        BY <1>2, <1>4, <4>1
      <4>3. CASE k <= i
        <5>1. k \in D + 1 .. i /\ m \in D + 1 .. i
          BY <1>1, <1>2, <3>4, <4>3
        <5> QED BY <1>4, <3>4, <5>1
      <4>4. CASE ~(k <= i) /\ m <= i
        <5>1. k - D \in i - D + 1 .. N /\ m - D \in 1 .. i - D
          BY <1>1, <1>2, <4>1, <4>4
        <5>2. exts[m - D].name < exts[k - D].name
          BY <1>4, <5>1
        <5> QED BY <4>2, <5>2, FilesBefore
      <4>5. CASE ~(k <= i) /\ ~(m <= i)
        <5>1. k - D \in i - D + 1 .. i + size - D /\ m - D \in i - D + 1 .. i + size - D
          BY <1>1, <1>2, <2>1, <4>1, <4>5
        <5>2. exts[m - D].name = exts[k - D].name
          BY <2>5, <5>1
        <5>3. ~sort
          <6>1. size > 1
            BY <1>1, <2>1, <3>4, <4>5
          <6> QED BY <2>7, <6>1
        <5>4. ByName(list[m], list[k])
          BY <5>3 DEF ByName
        <5> QED BY <4>2, <5>2, <5>4, FilesBefore
      <4>6. k \in Int /\ m \in Int
        OBVIOUS
      <4> QED BY <1>1, <3>4, <4>3, <4>4, <4>5, <4>6
    <3>5. FilesInv'
      <4>1. \A k, m \in 1 .. Len(exts') : m < k => exts'[m].name <= exts'[k].name
        BY <1>4, <2>8 DEF N
      <4>2. \A k \in 1 .. Len(exts') : Entry(list[directries + k])'.ext = exts'[k].name
        BY <1>3, <1>4, <2>8 DEF N
      <4>3. \A k \in i' - directries' + 1 .. Len(exts'), m \in 1 .. i' - directries' :
              exts'[m].name < exts'[k].name
        BY <2>4, <2>8
      <4>4. \A k, m \in i' - directries' + 1 .. i' - directries' : exts'[m].name = exts'[k].name
        BY <2>8, <3>3
      <4>5. \A k, m \in directries' + 1 .. i' : m < k => Before(list[m], list[k])'
        BY <1>3, <2>8, <3>4
      <4>6. InOrder' = i'
        BY <2>8, <3>2
      <4> QED BY <4>1, <4>2, <4>3, <4>4, <4>5, <4>6 DEF FilesInv
    <3> QED BY <1>5, <3>1, <3>5 DEF OrderInv, PassInv, ExtensionInv, Arranged
  <2> QED BY <2>6, <2>7
<1>8. CASE ~(i < Len(list))
  <2>1. phase' = "idle"
    BY <1>8 DEF Groups
  <2>2. i = Len(list)
    BY <1>1, <1>2, <1>8
  <2>3. \A k, m \in directries + 1 .. Len(list) : m < k => Before(list[m], list[k])
    BY <1>4, <2>2
  <2>4. /\ list[1] = IF dir.root THEN SETTINGS ELSE 1
        /\ \A k, l \in 2 .. Len(list) : k < l => Before(list[k], list[l])
    BY <1>1, <2>3, Finished
  <2>5. Arranged'
    BY <1>1, <1>3, <2>4 DEF Arranged
  <2> QED BY <2>1, <2>5 DEF OrderInv, PassInv, DirsInv, ExtensionInv, FilesInv, InGroups
<1> QED BY <1>7, <1>8

-----------------------------------------------------------------------------
(* The sort as a whole *)

LEMMA IdleOrder ==
  ASSUME OrderInv, phase = "idle", UNCHANGED <<phase, dir, list, sort>>
  PROVE  OrderInv'
<1>1. \A e, f : Before(e, f)' <=> Before(e, f)
  BY SameOrder
<1>2. Arranged'
  BY <1>1 DEF OrderInv, Arranged
<1> QED BY <1>2 DEF OrderInv, PassInv, DirsInv, ExtensionInv, FilesInv, InGroups

LEMMA MakingSort ==
  ASSUME LInv, LInv', RInv, SInv, Making
  PROVE  SInv'
<1>1. TruthInv /\ SplitUp /\ OrderInv /\ PassInv
  BY DEF SInv, SplitUp, OrderInv
<1>2. TruthInv'
  <2>1. IsTrue(cache)' 
    <3>1. phase # "idle" /\ dir' = dir /\ (IsTrue(cache) => IsTrue(cache'))
      BY MakingCache
    <3> QED BY <1>1, <3>1 DEF TruthInv, IsTrue
  <2> QED BY <2>1 DEF TruthInv
<1>3. SplitUp' /\ OrderInv'
  <2>1. CASE Scan
    BY <1>1, <2>1, ScanSplit, ScanOrder
  <2>2. CASE Count
    <3>1. phase' \in {"count", "collect"}
      BY <2>2 DEF Count
    <3> QED BY <1>1, <2>2, <3>1, CountSplit, EarlyOrder
  <2>3. CASE Collect
    BY <1>1, <2>3, CollectSplit, CollectOrder
  <2>4. CASE MakeExts
    <3>1. /\ phase = "exts" /\ phase' \in {"exts", "idle", "extension"}
          /\ UNCHANGED <<dir, list, directries, archives>>
      BY <2>4 DEF MakeExts
    <3>2. SplitUp'
      BY <1>1, <3>1, KeptSplit DEF Sorting
    <3> QED BY <1>1, <2>4, <3>2, MakeExtsOrder
  <2>5. CASE SortExts
    BY <1>1, <2>5, SortExtsSplit, SortExtsOrder
  <2>6. CASE Groups
    <3>1. /\ phase = "groups" /\ phase' \in {"area", "groups", "idle"}
          /\ UNCHANGED <<dir, list, directries, archives>>
      BY <2>6 DEF Groups, SortArea
    <3>2. SplitUp'
      BY <1>1, <3>1, KeptSplit DEF Sorting
    <3> QED BY <1>1, <2>6, <3>2, GroupsOrder
  <2>7. CASE Bubble
    BY <1>1, <2>7, BubbleSplit, BubbleOrderInv
  <2> QED BY <2>1, <2>2, <2>3, <2>4, <2>5, <2>6, <2>7 DEF Making
<1> QED BY <1>2, <1>3 DEF SInv, SplitUp, OrderInv

LEMMA NextSort ==
  ASSUME LInv, LInv', RInv, SInv, [Next]_vars
  PROVE  SInv'
<1>1. SplitUp /\ OrderInv /\ TruthInv
  BY DEF SInv, SplitUp, OrderInv
<1>2. CASE Making
  BY <1>2, MakingSort
<1>3. ASSUME NEW d \in card, Open(d)
      PROVE  SInv'
  <2>1. SplitUp'
    BY <1>3, OpenSplit
  <2>2. phase' = "scan" /\ cache' = [cache EXCEPT !.set = FALSE, !.n = 0]
    BY <1>3 DEF Open
  <2>3. OrderInv'
    BY <2>2, EarlyOrder
  <2>4. ~cache'.set
    BY <2>2 DEF RInv, ReaderTypes, Cache
  <2>5. TruthInv'
    BY <2>4 DEF TruthInv, IsTrue
  <2> QED BY <2>1, <2>3, <2>5 DEF SInv, SplitUp, OrderInv
<1>4. ASSUME \/ \E k \in Items : HandlerLooks(k) \/ MainLooks(k)
             \/ MainHits \/ MainWalks \/ MainReads
      PROVE  SInv'
  <2>1. phase = "idle" /\ UNCHANGED <<phase, dir, list, sort>>
    BY <1>4 DEF HandlerLooks, MainLooks, MainHits, MainWalks, MainReads, sorting
  <2>2. SplitUp' /\ OrderInv'
    BY <1>1, <2>1, IdleSplit, IdleOrder
  <2>3. TruthInv'
    BY <2>1 DEF TruthInv
  <2> QED BY <2>2, <2>3 DEF SInv, SplitUp, OrderInv
<1>5. CASE UNCHANGED vars
  <2>1. UNCHANGED <<card, dir, list, sort, cache, phase, i, idx_dir, directries, archives,
                    exts, area>>
    BY <1>5 DEF vars, sorting, counters
  <2>2. AllDirs' = AllDirs /\ Top(dir)' = Top(dir) /\ \A e : IsDir(e)' = IsDir(e)
    BY <2>1 DEF AllDirs, IsDir, Entry
  <2>3. Dirs(i)' = Dirs(i)
    BY <2>1, <2>2 DEF Dirs
  <2>4. SplitUp'
    BY <1>1, <2>1, <2>2, <2>3 DEF SplitUp, UpInv, NumberInv, SplitInv, Sorting
  <2>5. /\ \A e, f : ByName(e, f)' <=> ByName(e, f)
        /\ \A e, f : Before(e, f)' <=> Before(e, f)
        /\ \A e : Entry(e)' = Entry(e)
    BY <2>1, SameOrder
  <2>6. PassInv' /\ DirsInv'
    BY <1>1, <2>1, <2>5 DEF OrderInv, PassInv, DirsInv, InGroups, End
  <2>7. ExtensionInv' /\ FilesInv'
    BY <1>1, <2>1, <2>5 DEF OrderInv, ExtensionInv, FilesInv, InGroups, InOrder
  <2>8. Arranged'
    BY <1>1, <2>1, <2>5 DEF OrderInv, Arranged
  <2>9. TruthInv'
    BY <1>1, <2>1 DEF TruthInv, IsTrue
  <2> QED BY <2>4, <2>6, <2>7, <2>8, <2>9 DEF SInv, SplitUp, OrderInv
<1> QED BY <1>2, <1>3, <1>4, <1>5 DEF Next

LEMMA InitSort == Init => SInv
<1> SUFFICES ASSUME Init PROVE SInv
  OBVIOUS
<1>1. SplitUp
  BY InitSplit
<1>2. phase = "scan" /\ cache = NoCache
  BY DEF Init
<1>3. OrderInv
  BY <1>2 DEF OrderInv, PassInv, DirsInv, ExtensionInv, FilesInv, Arranged, InGroups
<1>4. TruthInv
  BY <1>2 DEF TruthInv, IsTrue, NoCache
<1> QED BY <1>1, <1>3, <1>4 DEF SInv, SplitUp, OrderInv

(* However the entries lie on the card, the finished list has the first     *)
(* item on top, then the directories, then the files by extension, each    *)
(* by name where the sort is asked for and can read the names              *)
(* (sortListEntryPoint, sortListEntryPointSpecifiedArea).                  *)
THEOREM ListIsArranged == Spec => []Arranged
<1>1. Init => LInv /\ RInv /\ SInv
  BY InitList, InitReader, InitSort
<1>2. (LInv /\ RInv /\ SInv) /\ [Next]_vars => (LInv /\ RInv /\ SInv)'
  BY NextList, NextReader, NextSort
<1>3. SInv => Arranged
  BY DEF SInv
<1> QED BY <1>1, <1>2, <1>3, PTL DEF Spec

-----------------------------------------------------------------------------
(* FatFile *)

(* Enumerations *)

Rising(s) == \A j, k \in DOMAIN s : j < k => s[j] < s[k]

Enumerated(S) == \E s \in [1 .. Cardinality(S) -> S] : Rising(s)

(* One more possible element changes nothing. *)
LEMMA OneMore ==
  ASSUME NEW n \in Nat, NEW S \in SUBSET (1 .. n + 1),
         \A T \in SUBSET (1 .. n) : Enumerated(T)
  PROVE  Enumerated(S)
<1>1. CASE n + 1 \notin S
  <2>1. S \in SUBSET (1 .. n)
    BY <1>1
  <2> QED BY <2>1
<1>2. CASE n + 1 \in S
  <2> DEFINE T == S \ {n + 1}
             c == Cardinality(T)
  <2>1. T \in SUBSET (1 .. n)
    OBVIOUS
  <2>2. IsFiniteSet(1 .. n)
    BY FS_Interval
  <2>3. IsFiniteSet(T) /\ c \in Nat
    BY <2>1, <2>2, FS_Subset, FS_CardinalityType
  <2>4. T \cup {n + 1} = S /\ n + 1 \notin T
    BY <1>2
  <2>5. Cardinality(S) = c + 1
    BY <2>3, <2>4, FS_AddElement
  <2>6. PICK s \in [1 .. c -> T] : Rising(s)
    BY <2>1 DEF Enumerated
  <2> DEFINE t == [j \in 1 .. c + 1 |-> IF j = c + 1 THEN n + 1 ELSE s[j]]
  <2> HIDE DEF T, c
  <2>7. t \in [1 .. c + 1 -> S]
    <3>1. \A j \in 1 .. c + 1 : j # c + 1 => j \in 1 .. c
      BY <2>3
    <3>2. \A j \in 1 .. c + 1 : (IF j = c + 1 THEN n + 1 ELSE s[j]) \in S
      BY <3>1, <2>4, <2>6
    <3> QED BY <3>2
  <2>8. ASSUME NEW j \in 1 .. c + 1, NEW k \in 1 .. c + 1, j < k
        PROVE  t[j] < t[k]
    <3>1. j \in 1 .. c /\ t[j] = s[j] /\ s[j] \in T
      BY <2>3, <2>6, <2>8
    <3>2. CASE k = c + 1
      <4>1. t[k] = n + 1 /\ s[j] \in 1 .. n
        BY <3>1, <3>2, <2>1
      <4> QED BY <4>1, <3>1
    <3>3. CASE k # c + 1
      <4>1. k \in 1 .. c /\ t[k] = s[k]
        BY <2>3, <3>3
      <4>2. s[j] < s[k]
        BY <4>1, <3>1, <2>6, <2>8 DEF Rising
      <4> QED BY <4>1, <4>2, <3>1
    <3> QED BY <3>2, <3>3
  <2>9. Rising(t)
    BY <2>7, <2>8 DEF Rising
  <2> QED BY <2>5, <2>7, <2>9 DEF Enumerated
<1> QED BY <1>1, <1>2

(* Every finite set of positive integers has an increasing enumeration. *)
LEMMA EnumerationExists ==
  ASSUME NEW n \in Nat, NEW S \in SUBSET (1 .. n)
  PROVE  Enumerated(S)
<1> DEFINE U == {k \in Nat : ~ \A T \in SUBSET (1 .. k) : Enumerated(T)}
<1>1. SUFFICES U = {}
  BY <1>1
<1>2. SUFFICES ASSUME U # {} PROVE FALSE
  OBVIOUS
<1>3. PICK k \in U : \A m \in U : k <= m
  BY <1>2, LeastNat
<1>4. CASE k = 0
  <2>1. \A T \in SUBSET (1 .. 0) : T = {}
    OBVIOUS
  <2>2. Cardinality({}) = 0
    BY FS_EmptySet
  <2> DEFINE e == [j \in 1 .. 0 |-> 0]
  <2>3. e \in [1 .. 0 -> {}]
    OBVIOUS
  <2>4. Rising(e)
    BY DEF Rising
  <2>5. Enumerated({})
    BY <2>2, <2>3, <2>4 DEF Enumerated
  <2> QED BY <1>3, <1>4, <2>1, <2>5
<1>5. CASE k # 0
  <2>1. k - 1 \in Nat /\ k - 1 \notin U /\ (k - 1) + 1 = k
    BY <1>3, <1>5
  <2>2. \A T \in SUBSET (1 .. k - 1) : Enumerated(T)
    BY <2>1
  <2>3. \A T \in SUBSET (1 .. (k - 1) + 1) : Enumerated(T)
    BY <2>1, <2>2, OneMore
  <2> QED BY <1>3, <2>1, <2>3
<1> QED BY <1>4, <1>5

(* Ascending(S) is one, and reaches every element of S. *)
LEMMA AscendingIs ==
  ASSUME NEW n \in Nat, NEW S \in SUBSET (1 .. n)
  PROVE  /\ IsFiniteSet(S) /\ Cardinality(S) \in Nat
         /\ Ascending(S) \in [1 .. Cardinality(S) -> S]
         /\ \A j, k \in 1 .. Cardinality(S) : j < k => Ascending(S)[j] < Ascending(S)[k]
         /\ \A x \in S : \E j \in 1 .. Cardinality(S) : Ascending(S)[j] = x
<1> DEFINE c == Cardinality(S)
           s == Ascending(S)
<1>1. IsFiniteSet(S) /\ c \in Nat
  <2>1. IsFiniteSet(1 .. n)
    BY FS_Interval
  <2> QED BY <2>1, FS_Subset, FS_CardinalityType
<1>2. s \in [1 .. c -> S] /\ Rising(s)
  <2>1. \E t \in [1 .. c -> S] : Rising(t)
    BY EnumerationExists DEF Enumerated
  <2> QED BY <2>1 DEF Ascending, Rising
<1>0. \A x \in S : x \in Int
  OBVIOUS
<1> HIDE DEF s, c
<1>3. \A j, k \in 1 .. c : j < k => s[j] < s[k]
  BY <1>2 DEF Rising
<1>4. s \in Injection(1 .. c, S)
  <2>1. ASSUME NEW j \in 1 .. c, NEW k \in 1 .. c, s[j] = s[k] PROVE j = k
    <3>0. s[j] \in S /\ s[k] \in S
      BY <1>2
    <3>1. s[j] \in Int /\ s[k] \in Int
      BY <1>0, <3>0
    <3>2. ~(j < k) /\ ~(k < j)
      BY <1>3, <2>1, <3>1
    <3> QED BY <3>2, <1>1
  <2> QED BY <1>2, <2>1 DEF Injection, IsInjective
<1>5. s \in Surjection(1 .. c, S)
  <2>1. IsFiniteSet(1 .. c) /\ Cardinality(1 .. c) = c
    BY <1>1, FS_Interval
  <2> QED BY <1>1, <1>4, <2>1, FS_Injection DEF c
<1>6. \A x \in S : \E j \in 1 .. c : s[j] = x
  BY <1>5 DEF Surjection
<1> QED BY <1>1, <1>2, <1>3, <1>6 DEF s, c

-----------------------------------------------------------------------------
(* Disk and chain *)

FileOK ==
  /\ chain \in Chains
  /\ fileSize \in (Len(chain) - 1) * bytesPerCluster + 1 .. Len(chain) * bytesPerCluster

(* The sizes and the chains, as DiskAssumption has them *)
LEMMA DiskIs ==
  /\ SECTOR \in Nat /\ SECTOR >= 1
  /\ sectorsPerCluster \in Nat /\ sectorsPerCluster >= 1
  /\ FATBLOCK \in Nat /\ FATBLOCK >= 1 /\ FATBLOCK <= bytesPerCluster
  /\ MaxRead \in Nat
  /\ bytesPerCluster \in Nat /\ bytesPerCluster >= 1
  /\ bytesPerCluster = sectorsPerCluster * SECTOR
  /\ SECTOR <= bytesPerCluster
<1>1. /\ SECTOR \in Nat /\ SECTOR >= 1
      /\ sectorsPerCluster \in Nat /\ sectorsPerCluster >= 1
      /\ FATBLOCK \in Nat /\ FATBLOCK >= 1 /\ FATBLOCK <= bytesPerCluster
      /\ MaxRead \in Nat
  BY DiskAssumption
<1>2. ASSUME NEW s \in Nat, s >= 1, NEW n \in Nat, n >= 1
      PROVE  s * n \in Nat /\ s * n >= 1 /\ s * n = n * s /\ s <= s * n
  <2>1. s * n = s + s * (n - 1) /\ s * (n - 1) \in Nat /\ s * n = n * s
    BY <1>2
  <2> QED BY <2>1, <1>2
<1> QED BY <1>1, <1>2 DEF bytesPerCluster

LEMMA ChainIs ==
  ASSUME chain \in Chains
  PROVE  /\ Len(chain) \in Nat /\ Len(chain) >= 1
         /\ \A ix \in 1 .. Len(chain) : chain[ix] \in Nat
         /\ \A ix, j \in 1 .. Len(chain) : chain[ix] = chain[j] => ix = j
<1>1. chain \in Seq(Nat \ {0, 1}) /\ chain # <<>>
  BY DiskAssumption
<1>2. \A ix, j \in DOMAIN chain : chain[ix] = chain[j] => ix = j
  BY DiskAssumption
<1>3. Len(chain) \in Nat /\ DOMAIN chain = 1 .. Len(chain) /\ Len(chain) # 0
  BY <1>1, EmptySeq
<1>4. \A ix \in 1 .. Len(chain) : chain[ix] \in Nat \ {0, 1}
  BY <1>1
<1> QED BY <1>2, <1>3, <1>4

(* Quotient and remainder *)
LEMMA QuotientIs ==
  ASSUME NEW x \in Int, NEW d \in Nat, d >= 1
  PROVE  /\ x \div d \in Int /\ x % d \in 0 .. d - 1
         /\ x = (x \div d) * d + (x % d)
<1> DEFINE q == x \div d
           r == x % d
<1>1. x = d * q + r /\ q \in Int /\ r \in 0 .. d - 1
  OBVIOUS
<1> HIDE DEF q, r
<1>2. d * q = q * d
  BY <1>1
<1>3. x = q * d + r
  BY <1>1, <1>2
<1> QED BY <1>1, <1>3 DEF q, r

LEMMA Below ==
  ASSUME NEW p \in Int, NEW q \in Int, NEW d \in Nat, p < q
  PROVE  p * d + d <= q * d
<1>1. (q - 1) * d = q * d - d /\ (q - 1 - p) * d >= 0 /\ (q - 1 - p) * d = (q - 1) * d - p * d
  OBVIOUS
<1> QED BY <1>1

LEMMA DivUnique ==
  ASSUME NEW d \in Nat, d >= 1, NEW q \in Int, NEW r \in 0 .. d - 1, NEW x \in Int,
         x = q * d + r
  PROVE  x \div d = q /\ x % d = r
<1> DEFINE p == x \div d
           s == x % d
<1>1. p \in Int /\ s \in 0 .. d - 1 /\ x = p * d + s
  BY QuotientIs
<1> HIDE DEF p, s
<1>2. ~(p < q)
  <2>1. SUFFICES ASSUME p < q PROVE FALSE
    OBVIOUS
  <2>2. p * d + d <= q * d
    BY <1>1, <2>1, Below
  <2>3. p * d \in Int /\ q * d \in Int
    BY <1>1
  <2> QED BY <1>1, <2>2, <2>3
<1>3. ~(q < p)
  <2>1. SUFFICES ASSUME q < p PROVE FALSE
    OBVIOUS
  <2>2. q * d + d <= p * d
    BY <1>1, <2>1, Below
  <2>3. p * d \in Int /\ q * d \in Int
    BY <1>1
  <2> QED BY <1>1, <2>2, <2>3
<1>4. p = q
  BY <1>1, <1>2, <1>3
<1>5. s = r
  BY <1>1, <1>4
<1> QED BY <1>4, <1>5 DEF p, s

-----------------------------------------------------------------------------
(* my_fopen finds every gap of the chain. *)

(* my_fopen makes as many rounds as there are clusters, at least. *)
LEMMA ScansEnough ==
  ASSUME FileOK
  PROVE  Scans \in Int /\ Len(chain) <= Scans
<1>1. Len(chain) \in Nat /\ Len(chain) >= 1
  BY ChainIs DEF FileOK
<1> DEFINE u == bytesPerCluster \div FATBLOCK
           q == fileSize \div u
           n == Len(chain) - 1
<1>2. n * bytesPerCluster + 1 <= fileSize /\ fileSize \in Int
  <2>1. n * bytesPerCluster \in Int /\ Len(chain) * bytesPerCluster \in Int
    BY <1>1, DiskIs
  <2>2. fileSize \in n * bytesPerCluster + 1 .. Len(chain) * bytesPerCluster
    BY DEF FileOK
  <2> HIDE DEF n
  <2> QED BY <2>1, <2>2
<1>3. u \in Int /\ 1 <= u /\ u <= bytesPerCluster
  <2>1. /\ u \in Int /\ bytesPerCluster % FATBLOCK \in 0 .. FATBLOCK - 1
        /\ bytesPerCluster = u * FATBLOCK + (bytesPerCluster % FATBLOCK)
    BY DiskIs, QuotientIs
  <2> HIDE DEF u
  <2>2. ~(u < 1)
    <3>1. SUFFICES ASSUME u < 1 PROVE FALSE
      OBVIOUS
    <3>2. u * FATBLOCK + FATBLOCK <= 1 * FATBLOCK
      BY <2>1, <3>1, DiskIs, Below
    <3>3. u * FATBLOCK \in Int /\ 1 * FATBLOCK = FATBLOCK
      BY <2>1, DiskIs
    <3> QED BY <2>1, <3>2, <3>3, DiskIs
  <2>3. u <= u * FATBLOCK
    <3>1. u * FATBLOCK = u + u * (FATBLOCK - 1) /\ u * (FATBLOCK - 1) \in Nat
      BY <2>1, <2>2, DiskIs
    <3> QED BY <2>1, <3>1
  <2>4. u * FATBLOCK \in Int
    BY <2>1, DiskIs
  <2> QED BY <2>1, <2>2, <2>3, <2>4, DiskIs
<1>4. q \in Int /\ fileSize % u \in 0 .. u - 1 /\ fileSize = q * u + (fileSize % u)
  <2> HIDE DEF u
  <2> QED BY <1>2, <1>3, QuotientIs
<1>5. Scans = q + 1
  BY DEF Scans
<1> HIDE DEF u, q, n
<1>6. n * u <= n * bytesPerCluster
  <2>1. n \in Nat
    BY <1>1 DEF n
  <2>2. n * (bytesPerCluster - u) >= 0 /\ n * (bytesPerCluster - u) = n * bytesPerCluster - n * u
    BY <2>1, <1>3, DiskIs
  <2>3. n * bytesPerCluster \in Int /\ n * u \in Int
    BY <2>1, <1>3, DiskIs
  <2> QED BY <2>2, <2>3
<1>7. ~(q < n)
  <2>1. SUFFICES ASSUME q < n PROVE FALSE
    OBVIOUS
  <2>2. n \in Int
    BY <1>1 DEF n
  <2>3. q * u + u <= n * u
    BY <1>3, <1>4, <2>1, <2>2, Below
  <2>4. q * u \in Int /\ n * u \in Int /\ n * bytesPerCluster \in Int
    BY <1>3, <1>4, <2>2, DiskIs
  <2> DEFINE r == fileSize % u
             a == q * u
             b == n * u
             c == n * bytesPerCluster
  <2>5. a \in Int /\ b \in Int /\ c \in Int
    BY <2>4
  <2>6. r \in 0 .. u - 1 /\ fileSize = a + r
    BY <1>4
  <2>7. a + u <= b /\ b <= c /\ c + 1 <= fileSize
    BY <1>2, <1>6, <2>3, Zenon
  <2> HIDE DEF r, a, b, c
  <2> QED BY <1>3, <2>5, <2>6, <2>7
<1> QED BY <1>1, <1>4, <1>5, <1>7 DEF n

LEMMA FoundAll ==
  ASSUME FileOK
  PROVE  Found = {ix \in 1 .. Len(chain) - 1 : Breaks(ix)}
<1>1. ASSUME NEW ix \in 1 .. Len(chain) - 1
      PROVE  RoundsBefore(ix) < Scans
  <2>1. Len(chain) \in Nat
    BY ChainIs DEF FileOK
  <2> DEFINE R == {k \in 1 .. ix - 1 : Breaks(k) \/ (chain[k] + 1) % FATBLOCK = 0}
  <2>a. ix \in Int /\ ix >= 1
    BY <2>1
  <2>2. IsFiniteSet(1 .. ix - 1) /\ Cardinality(1 .. ix - 1) = ix - 1
    <3>1. 1 \in Int /\ ix - 1 \in Int
      BY <2>a
    <3>2. /\ IsFiniteSet(1 .. ix - 1)
          /\ Cardinality(1 .. ix - 1) = IF 1 > ix - 1 THEN 0 ELSE ix - 1 - 1 + 1
      BY <3>1, FS_Interval
    <3> QED BY <2>a, <3>2
  <2>3. R \in SUBSET (1 .. ix - 1)
    OBVIOUS
  <2> HIDE DEF R
  <2>4. IsFiniteSet(R) /\ Cardinality(R) <= ix - 1
    BY <2>2, <2>3, FS_Subset
  <2>5. Cardinality(R) \in Nat
    BY <2>4, FS_CardinalityType
  <2>6. RoundsBefore(ix) = Cardinality(R)
    BY DEF RoundsBefore, R
  <2> QED BY <2>1, <2>4, <2>5, <2>6, ScansEnough
<1> QED BY <1>1 DEF Found

Gaps == Cardinality(Found)
Brk(ix) == Ascending(Found)[ix]

LEMMA GapsAre ==
  ASSUME FileOK
  PROVE  /\ Gaps \in Nat
         /\ \A ix \in 1 .. Gaps : Brk(ix) \in 1 .. Len(chain) - 1 /\ Breaks(Brk(ix))
         /\ \A ix, j \in 1 .. Gaps : ix < j => Brk(ix) < Brk(j)
         /\ \A x \in 1 .. Len(chain) - 1 : Breaks(x) => \E j \in 1 .. Gaps : Brk(j) = x
<1>1. Len(chain) - 1 \in Nat
  BY ChainIs DEF FileOK
<1>2. Found \in SUBSET (1 .. Len(chain) - 1) /\ \A x \in 1 .. Len(chain) - 1 : x \in Found <=> Breaks(x)
  BY FoundAll
<1>3. /\ Gaps \in Nat
      /\ Ascending(Found) \in [1 .. Gaps -> Found]
      /\ \A j, k \in 1 .. Gaps : j < k => Ascending(Found)[j] < Ascending(Found)[k]
      /\ \A x \in Found : \E j \in 1 .. Gaps : Ascending(Found)[j] = x
  BY <1>1, <1>2, AscendingIs DEF Gaps
<1>4. \A ix \in 1 .. Gaps : Brk(ix) \in Found
  BY <1>3 DEF Brk
<1>5. \A ix \in 1 .. Gaps : Brk(ix) \in 1 .. Len(chain) - 1 /\ Breaks(Brk(ix))
  BY <1>2, <1>4
<1> QED BY <1>2, <1>3, <1>5 DEF Brk

LEMMA GapIs ==
  ASSUME FileOK, gap = GapsFound
  PROVE  /\ Len(gap) = Gaps
         /\ gap = <<>> <=> Gaps = 0
         /\ \A ix \in 1 .. Gaps : gap[ix].pre = chain[Brk(ix)] /\ gap[ix].post = chain[Brk(ix) + 1]
<1>1. gap = [j \in 1 .. Gaps |-> [pre |-> chain[Brk(j)], post |-> chain[Brk(j) + 1]]]
  BY DEF GapsFound, Gaps, Brk
<1>2. Gaps \in Nat
  BY GapsAre
<1> DEFINE h(j) == [pre |-> chain[Brk(j)], post |-> chain[Brk(j) + 1]]
<1>3. gap = [j \in 1 .. Gaps |-> h(j)]
  BY <1>1
<1>4. \A ix \in 1 .. Gaps : gap[ix].pre = chain[Brk(ix)] /\ gap[ix].post = chain[Brk(ix) + 1]
  BY <1>1
<1> HIDE DEF h
<1>5. Len(gap) = Gaps /\ DOMAIN gap = 1 .. Gaps
  BY <1>2, <1>3
<1>6. gap = <<>> <=> Gaps = 0
  <2>1. CASE Gaps = 0
    BY <1>3, <2>1
  <2>2. CASE Gaps # 0
    BY <1>2, <1>5, <2>2
  <2> QED BY <2>1, <2>2
<1> QED BY <1>4, <1>5, <1>6

-----------------------------------------------------------------------------
(* Runs of clusters between two gaps *)

First(ix) == IF ix = 1 THEN 1 ELSE Brk(ix - 1) + 1
Last(ix) == IF ix = Gaps + 1 THEN Len(chain) ELSE Brk(ix)

(* Where no gap is, the clusters follow each other. *)
LEMMA Contiguous ==
  ASSUME chain \in Chains, NEW a \in 1 .. Len(chain), NEW e \in 1 .. Len(chain),
         \A x \in a .. e - 1 : ~Breaks(x)
  PROVE  \A p \in a .. e : chain[p] = chain[a] + (p - a)
<1>1. Len(chain) \in Nat /\ \A ix \in 1 .. Len(chain) : chain[ix] \in Nat
  BY ChainIs
<1> DEFINE T == {n \in Nat : a + n <= e /\ chain[a + n] # chain[a] + n}
<1>2. T = {}
  <2>1. SUFFICES ASSUME T # {} PROVE FALSE
    OBVIOUS
  <2>2. PICK n \in T : \A m \in T : n <= m
    BY <2>1, LeastNat
  <2>3. n # 0
    BY <1>1, <2>2
  <2>4. n \in Nat /\ n - 1 \in Nat /\ a + n <= e /\ chain[a + n] # chain[a] + n
    BY <2>2, <2>3
  <2>5. chain[a + (n - 1)] = chain[a] + (n - 1)
    BY <2>2, <2>4, <1>1
  <2>6. a + (n - 1) \in a .. e - 1 /\ a + (n - 1) + 1 = a + n
    BY <1>1, <2>4
  <2>7. chain[a + n] = chain[a + (n - 1)] + 1
    BY <2>6 DEF Breaks
  <2> QED BY <1>1, <2>4, <2>5, <2>7
<1>3. ASSUME NEW p \in a .. e
      PROVE  chain[p] = chain[a] + (p - a)
  <2>1. p - a \in Nat /\ a + (p - a) = p
    BY <1>1
  <2>2. p - a \notin T
    BY <1>2
  <2> QED BY <1>1, <2>1, <2>2
<1> QED BY <1>3

LEMMA Segment ==
  ASSUME FileOK, NEW ix \in 1 .. Gaps + 1
  PROVE  /\ First(ix) \in 1 .. Len(chain) /\ Last(ix) \in First(ix) .. Len(chain)
         /\ \A p \in First(ix) .. Last(ix) : chain[p] = chain[First(ix)] + (p - First(ix))
<1>1. /\ Gaps \in Nat
      /\ \A j \in 1 .. Gaps : Brk(j) \in 1 .. Len(chain) - 1 /\ Breaks(Brk(j))
      /\ \A j, k \in 1 .. Gaps : j < k => Brk(j) < Brk(k)
      /\ \A x \in 1 .. Len(chain) - 1 : Breaks(x) => \E j \in 1 .. Gaps : Brk(j) = x
  BY GapsAre
<1>2. Len(chain) \in Nat /\ Len(chain) >= 1
  BY ChainIs DEF FileOK
<1>3. ix # 1 => ix - 1 \in 1 .. Gaps
  BY <1>1
<1>4. ix # Gaps + 1 => ix \in 1 .. Gaps
  BY <1>1
<1>5. First(ix) \in 1 .. Len(chain)
  BY <1>1, <1>2, <1>3 DEF First
<1>6. Last(ix) \in 1 .. Len(chain)
  BY <1>1, <1>2, <1>4 DEF Last
<1>7. First(ix) <= Last(ix)
  <2>1. CASE ix = 1
    BY <1>6, <2>1, <1>2 DEF First
  <2>2. CASE ix # 1 /\ ix = Gaps + 1
    BY <1>1, <1>2, <1>3, <2>2 DEF First, Last
  <2>3. CASE ix # 1 /\ ix # Gaps + 1
    <3>1. Brk(ix - 1) < Brk(ix) /\ Brk(ix - 1) \in Int /\ Brk(ix) \in Int
      BY <1>1, <1>2, <1>3, <1>4, <2>3
    <3> QED BY <2>3, <3>1 DEF First, Last
  <2> QED BY <2>1, <2>2, <2>3
<1>8. ASSUME NEW x \in First(ix) .. Last(ix) - 1, Breaks(x)
      PROVE  FALSE
  <2>1. x \in 1 .. Len(chain) - 1
    BY <1>2, <1>5, <1>6
  <2>2. PICK j \in 1 .. Gaps : Brk(j) = x
    BY <1>1, <1>8, <2>1
  <2>3. CASE j < ix
    <3>1. ix # 1 /\ ix - 1 \in 1 .. Gaps /\ j <= ix - 1
      BY <1>1, <1>3, <2>3
    <3>2. j = ix - 1 \/ Brk(j) < Brk(ix - 1)
      BY <1>1, <3>1
    <3>3. Brk(j) \in Int /\ Brk(ix - 1) \in Int
      BY <1>1, <3>1
    <3>4. x < First(ix)
      BY <2>2, <3>1, <3>2, <3>3 DEF First
    <3> QED BY <3>4, <1>5, <1>6
  <2>4. CASE ~(j < ix)
    <3>1. ix # Gaps + 1 /\ ix \in 1 .. Gaps /\ ix <= j
      BY <1>1, <1>4, <2>4
    <3>2. j = ix \/ Brk(ix) < Brk(j)
      BY <1>1, <3>1
    <3>3. Brk(j) \in Int /\ Brk(ix) \in Int
      BY <1>1, <3>1
    <3>4. Last(ix) <= x
      BY <2>2, <3>1, <3>2, <3>3 DEF Last
    <3> QED BY <3>4, <1>5, <1>6
  <2> QED BY <2>3, <2>4
<1> DEFINE a == First(ix)
           e == Last(ix)
<1>9. \A p \in a .. e : chain[p] = chain[a] + (p - a)
  <2>1. a \in 1 .. Len(chain) /\ e \in 1 .. Len(chain) /\ \A x \in a .. e - 1 : ~Breaks(x)
    BY <1>5, <1>6, <1>8
  <2>2. chain \in Chains
    BY DEF FileOK
  <2> HIDE DEF a, e
  <2> QED BY <2>1, <2>2, Contiguous
<1> QED BY <1>2, <1>5, <1>6, <1>7, <1>9

(* Each cluster of the chain is in one run, and the runs are apart. *)
LEMMA SegmentsApart ==
  ASSUME FileOK, NEW ix \in 1 .. Gaps + 1, NEW j \in 1 .. Gaps + 1, ix < j
  PROVE  Last(ix) < First(j) /\ First(ix + 1) = Last(ix) + 1
<1>1. /\ Gaps \in Nat
      /\ \A h \in 1 .. Gaps : Brk(h) \in 1 .. Len(chain) - 1
      /\ \A h, k \in 1 .. Gaps : h < k => Brk(h) < Brk(k)
  BY GapsAre
<1>2. Len(chain) \in Nat
  BY ChainIs DEF FileOK
<1>3. ix \in 1 .. Gaps /\ j - 1 \in 1 .. Gaps /\ ix <= j - 1 /\ ix # Gaps + 1 /\ j # 1
  BY <1>1
<1>4. ix = j - 1 \/ Brk(ix) < Brk(j - 1)
  BY <1>1, <1>3
<1>5. Brk(ix) \in Int /\ Brk(j - 1) \in Int
  BY <1>1, <1>2, <1>3
<1>6. ix + 1 # 1 /\ ix + 1 - 1 = ix
  BY <1>3
<1> QED BY <1>3, <1>4, <1>5, <1>6 DEF First, Last

LEMMA SegmentOf ==
  ASSUME FileOK, NEW k \in 1 .. Len(chain)
  PROVE  \E ix \in 1 .. Gaps + 1 : k \in First(ix) .. Last(ix)
<1>1. Gaps \in Nat /\ Len(chain) \in Nat
  BY GapsAre, ChainIs DEF FileOK
<1> DEFINE T == {ix \in Nat : ix \in 1 .. Gaps + 1 /\ k <= Last(ix)}
<1>2. Gaps + 1 \in T
  BY <1>1 DEF Last
<1>3. PICK ix \in T : \A m \in T : ix <= m
  BY <1>2, LeastNat
<1>4. ix \in 1 .. Gaps + 1 /\ k <= Last(ix) /\ First(ix) \in Int /\ Last(ix) \in Int
  <2>1. ix \in 1 .. Gaps + 1 /\ k <= Last(ix)
    BY <1>3
  <2> QED BY <1>1, <2>1, Segment
<1>5. First(ix) <= k
  <2>1. CASE ix = 1
    BY <2>1 DEF First
  <2>2. CASE ix # 1
    <3>1. ix - 1 \in 1 .. Gaps + 1 /\ ix - 1 < ix /\ ix - 1 + 1 = ix
      BY <1>1, <1>4, <2>2
    <3>2. ix - 1 \notin T
      BY <1>3, <3>1
    <3>3. ~(k <= Last(ix - 1))
      BY <3>1, <3>2
    <3>4. First(ix) = Last(ix - 1) + 1 /\ Last(ix - 1) \in Int
      <4>1. Last(ix - 1) \in Int
        BY <1>1, <3>1, Segment
      <4>2. First(ix - 1 + 1) = Last(ix - 1) + 1
        BY <1>4, <3>1, SegmentsApart
      <4> QED BY <3>1, <4>1, <4>2
    <3> QED BY <1>1, <3>3, <3>4
  <2> QED BY <2>1, <2>2
<1> QED BY <1>1, <1>4, <1>5

LEMMA Shift ==
  ASSUME NEW f \in Int, NEW l \in Int, NEW w \in Int, NEW v \in Int, NEW z \in Int,
         z = w + (l - f), w <= v, v <= z
  PROVE  f + (v - w) \in f .. l
OBVIOUS

(* The values of a run belong to it alone. *)
LEMMA InSegment ==
  ASSUME FileOK, NEW k \in 1 .. Len(chain), NEW ix \in 1 .. Gaps + 1,
         k \in First(ix) .. Last(ix), NEW j \in 1 .. Gaps + 1
  PROVE  (chain[First(j)] <= chain[k] /\ chain[k] <= chain[Last(j)]) <=> ix = j
<1>1. /\ Len(chain) \in Nat /\ \A x \in 1 .. Len(chain) : chain[x] \in Nat
      /\ \A x, y \in 1 .. Len(chain) : chain[x] = chain[y] => x = y
  BY ChainIs DEF FileOK
<1>2. /\ First(ix) \in 1 .. Len(chain) /\ Last(ix) \in First(ix) .. Len(chain)
      /\ \A p \in First(ix) .. Last(ix) : chain[p] = chain[First(ix)] + (p - First(ix))
  BY Segment
<1>3. /\ First(j) \in 1 .. Len(chain) /\ Last(j) \in First(j) .. Len(chain)
      /\ \A p \in First(j) .. Last(j) : chain[p] = chain[First(j)] + (p - First(j))
  BY Segment
<1>4. ix = j => chain[First(j)] <= chain[k] /\ chain[k] <= chain[Last(j)]
  <2>1. /\ First(ix) \in Int /\ Last(ix) \in Int /\ First(ix) <= Last(ix)
        /\ chain[First(ix)] \in Int
    BY <1>1, <1>2
  <2>2. k \in Int /\ First(ix) <= k /\ k <= Last(ix)
    BY <1>1, <2>1
  <2>3. chain[k] = chain[First(ix)] + (k - First(ix))
    BY <1>2
  <2>4. chain[Last(ix)] = chain[First(ix)] + (Last(ix) - First(ix))
    <3>1. Last(ix) \in First(ix) .. Last(ix)
      BY <2>1
    <3> QED BY <1>2, <3>1
  <2>5. chain[First(ix)] <= chain[k] /\ chain[k] <= chain[Last(ix)]
    BY <2>1, <2>2, <2>3, <2>4
  <2> QED BY <2>5
<1>5. ASSUME chain[First(j)] <= chain[k], chain[k] <= chain[Last(j)]
      PROVE  ix = j
  <2> DEFINE p == First(j) + (chain[k] - chain[First(j)])
  <2>0. chain[Last(j)] = chain[First(j)] + (Last(j) - First(j))
    BY <1>1, <1>3
  <2>a. /\ First(j) \in Int /\ Last(j) \in Int /\ First(j) >= 1 /\ Last(j) <= Len(chain)
        /\ chain[First(j)] \in Int /\ chain[k] \in Int
    BY <1>1, <1>3
  <2>1. p \in First(j) .. Last(j) /\ p \in 1 .. Len(chain)
    <3>1. p \in First(j) .. Last(j)
      BY <1>5, <2>a, <2>0, Shift
    <3> HIDE DEF p
    <3> QED BY <1>1, <2>a, <3>1
  <2>2. chain[p] = chain[First(j)] + (p - First(j))
    BY <1>3, <2>1
  <2>3. chain[p] = chain[k]
    BY <1>1, <1>3, <2>2
  <2>4. p = k
    BY <1>1, <2>1, <2>3
  <2>5. k \in First(j) .. Last(j)
    BY <2>1, <2>4
  <2>6. ~(ix < j)
    <3>1. ix < j => Last(ix) < First(j)
      BY SegmentsApart
    <3> QED BY <1>1, <1>2, <1>3, <2>5, <3>1
  <2>7. ~(j < ix)
    <3>1. j < ix => Last(j) < First(ix)
      BY SegmentsApart
    <3> QED BY <1>1, <1>2, <1>3, <2>5, <3>1
  <2>8. Gaps \in Nat
    BY GapsAre
  <2> QED BY <2>6, <2>7, <2>8
<1> QED BY <1>4, <1>5

-----------------------------------------------------------------------------
(* getNClusterCache goes from gap to gap as the chain does. *)

(* FirstGap is the gap at the end of the run, or the last one. *)
LEMMA FirstGapIs ==
  ASSUME FileOK, gap = GapsFound, Gaps # 0, NEW k \in 1 .. Len(chain),
         NEW ix \in 1 .. Gaps + 1, k \in First(ix) .. Last(ix)
  PROVE  FirstGap(chain[k]) = IF ix = Gaps + 1 THEN Gaps ELSE ix
<1>1. Gaps \in Nat /\ Gaps >= 1 /\ Len(gap) = Gaps
  BY GapsAre, GapIs
<1> DEFINE start(j) == IF j = 1 THEN clusterOrg ELSE gap[j - 1].post
           In(j) == start(j) <= chain[k] /\ chain[k] <= gap[j].pre
           g == IF ix = Gaps + 1 THEN Gaps ELSE ix
<1>2. \A j \in 1 .. Gaps : In(j) <=> ix = j
  <2>1. TAKE j \in 1 .. Gaps
  <2>2. j \in 1 .. Gaps + 1 /\ j # Gaps + 1
    BY <1>1
  <2>3. start(j) = chain[First(j)]
    <3>1. CASE j = 1
      BY <3>1 DEF First, clusterOrg
    <3>2. CASE j # 1
      <4>1. j - 1 \in 1 .. Gaps
        BY <1>1, <3>2
      <4>2. gap[j - 1].post = chain[Brk(j - 1) + 1]
        BY <4>1, GapIs
      <4> QED BY <3>2, <4>2 DEF First
    <3> QED BY <3>1, <3>2
  <2>4. gap[j].pre = chain[Last(j)]
    BY <2>2, GapIs DEF Last
  <2>5. (chain[First(j)] <= chain[k] /\ chain[k] <= chain[Last(j)]) <=> ix = j
    BY <2>2, InSegment
  <2> QED BY <2>3, <2>4, <2>5
<1>3. FirstGap(chain[k]) =
        CHOOSE x \in 1 .. Gaps : (x = Gaps \/ In(x)) /\ \A j \in 1 .. x - 1 : ~In(j)
  BY <1>1 DEF FirstGap
<1>4. g \in 1 .. Gaps /\ (g = Gaps \/ In(g)) /\ \A j \in 1 .. g - 1 : ~In(j)
  <2> HIDE DEF In
  <2>1. g \in 1 .. Gaps /\ (g = Gaps \/ g = ix)
    BY <1>1
  <2>2. \A j \in 1 .. g - 1 : j \in 1 .. Gaps /\ ix # j
    BY <1>1
  <2> QED BY <1>2, <2>1, <2>2
<1>5. ASSUME NEW x \in 1 .. Gaps, x = Gaps \/ In(x), \A j \in 1 .. x - 1 : ~In(j)
      PROVE  x = g
  <2> HIDE DEF In
  <2>1. CASE x = ix
    BY <1>1, <2>1
  <2>2. CASE x # ix
    <3>1. x = Gaps
      BY <1>2, <1>5, <2>2
    <3>2. ~(ix < x)
      <4>1. SUFFICES ASSUME ix < x PROVE FALSE
        OBVIOUS
      <4>2. ix \in 1 .. x - 1 /\ ix \in 1 .. Gaps
        BY <1>1, <4>1
      <4> QED BY <1>2, <1>5, <4>2
    <3>3. ix = Gaps + 1
      BY <1>1, <2>2, <3>1, <3>2
    <3> QED BY <3>1, <3>3
  <2> QED BY <2>1, <2>2
<1> HIDE DEF In, g
<1>6. FirstGap(chain[k]) = g
  BY <1>3, <1>4, <1>5
<1> QED BY <1>6 DEF g

(* The parts of Walk, from gap f on. *)
Start(f, c, j) == IF j = f THEN c ELSE gap[j - 1].post
Avail(f, c, j) == gap[j].pre - Start(f, c, j) + 1
Left(f, c, n) ==
  CHOOSE w : w = [j \in f .. Gaps + 1 |-> IF j = f THEN n ELSE w[j - 1] - Avail(f, c, j - 1)]
Ends(f, c, n, j) == j > Gaps \/ Avail(f, c, j) < 0 \/ Left(f, c, n)[j] < Avail(f, c, j)

LEMMA AvailIs ==
  ASSUME FileOK, gap = GapsFound, NEW f \in 1 .. Gaps, NEW k \in 1 .. Len(chain)
  PROVE  /\ Start(f, chain[k], f) = chain[k]
         /\ \A j \in f + 1 .. Gaps + 1 : Start(f, chain[k], j) = chain[First(j)]
         /\ Avail(f, chain[k], f) = chain[Last(f)] - chain[k] + 1
         /\ \A j \in f + 1 .. Gaps : Avail(f, chain[k], j) = Last(j) - First(j) + 1
<1>1. Gaps \in Nat /\ Len(chain) \in Nat
  BY GapsAre, ChainIs DEF FileOK
<1>2. ASSUME NEW j \in f + 1 .. Gaps + 1
      PROVE  Start(f, chain[k], j) = chain[First(j)]
  <2>1. j # f /\ j # 1 /\ j - 1 \in 1 .. Gaps
    BY <1>1
  <2>2. gap[j - 1].post = chain[Brk(j - 1) + 1]
    BY <2>1, GapIs
  <2> QED BY <2>1, <2>2 DEF Start, First
<1>3. ASSUME NEW j \in 1 .. Gaps
      PROVE  gap[j].pre = chain[Last(j)]
  <2>1. j # Gaps + 1
    BY <1>1
  <2> QED BY <2>1, GapIs DEF Last
<1>4. ASSUME NEW j \in f + 1 .. Gaps
      PROVE  Avail(f, chain[k], j) = Last(j) - First(j) + 1
  <2>1. j \in f + 1 .. Gaps + 1 /\ j \in 1 .. Gaps /\ j \in 1 .. Gaps + 1
    BY <1>1
  <2>2. Avail(f, chain[k], j) = chain[Last(j)] - chain[First(j)] + 1
    BY <2>1, <1>2, <1>3 DEF Avail
  <2>3. /\ First(j) \in 1 .. Len(chain) /\ Last(j) \in First(j) .. Len(chain)
        /\ \A p \in First(j) .. Last(j) : chain[p] = chain[First(j)] + (p - First(j))
    BY <2>1, Segment
  <2>4. Last(j) \in First(j) .. Last(j) /\ First(j) \in Int /\ Last(j) \in Int
    BY <2>3, <1>1
  <2>5. chain[Last(j)] = chain[First(j)] + (Last(j) - First(j))
    BY <2>3, <2>4
  <2>6. chain[First(j)] \in Int
    BY <2>3, ChainIs DEF FileOK
  <2> QED BY <2>2, <2>4, <2>5, <2>6
<1> QED BY <1>2, <1>3, <1>4 DEF Start, Avail

(* What is left to go at a gap is what the chain has left behind it. *)
LEMMA LeftIs ==
  ASSUME FileOK, gap = GapsFound, NEW f \in 1 .. Gaps, NEW k \in 1 .. Len(chain),
         NEW n \in Nat
  PROVE  /\ Left(f, chain[k], n)[f] = n
         /\ \A j \in f + 1 .. Gaps + 1 :
              Left(f, chain[k], n)[j]
                = n - Avail(f, chain[k], f) - (First(j) - First(f + 1))
<1> DEFINE a(j) == Avail(f, chain[k], j)
           w == [j \in f .. Gaps + 1 |->
                   IF j = f THEN n ELSE n - a(f) - (First(j) - First(f + 1))]
           l == Left(f, chain[k], n)
<1>1. Gaps \in Nat /\ Len(chain) \in Nat
  BY GapsAre, ChainIs DEF FileOK
<1>2. \A j \in 1 .. Gaps + 1 : First(j) \in Int /\ Last(j) \in Int
  <2>1. TAKE j \in 1 .. Gaps + 1
  <2>2. First(j) \in 1 .. Len(chain) /\ Last(j) \in First(j) .. Len(chain)
    BY Segment
  <2> QED BY <1>1, <2>2
<1>3. a(f) \in Int
  <2>1. a(f) = chain[Last(f)] - chain[k] + 1
    BY AvailIs
  <2>2. f \in 1 .. Gaps + 1
    BY <1>1
  <2>3. First(f) \in 1 .. Len(chain) /\ Last(f) \in First(f) .. Len(chain)
    BY <2>2, Segment
  <2>4. Last(f) \in 1 .. Len(chain)
    BY <1>1, <2>3
  <2>5. chain[Last(f)] \in Int /\ chain[k] \in Int
    BY <2>4, ChainIs DEF FileOK
  <2> QED BY <2>1, <2>5
<1>4. ASSUME NEW j \in f + 1 .. Gaps
      PROVE  a(j) = First(j + 1) - First(j)
  <2>1. j \in 1 .. Gaps + 1 /\ j + 1 \in 1 .. Gaps + 1 /\ j < j + 1
    BY <1>1
  <2>2. First(j + 1) = Last(j) + 1
    BY <2>1, SegmentsApart
  <2>3. a(j) = Last(j) - First(j) + 1
    BY AvailIs
  <2> QED BY <1>2, <2>1, <2>2, <2>3
<1> HIDE DEF a
<1>5. w = [j \in f .. Gaps + 1 |-> IF j = f THEN n ELSE w[j - 1] - a(j - 1)]
  <2>1. ASSUME NEW j \in f .. Gaps + 1, j # f
        PROVE  w[j] = w[j - 1] - a(j - 1)
    <3>1. j \in Int /\ f \in Int /\ j - 1 \in f .. Gaps + 1 /\ j \in 1 .. Gaps + 1
          /\ f + 1 \in 1 .. Gaps + 1
      BY <1>1, <2>1
    <3>2. w[j] = n - a(f) - (First(j) - First(f + 1))
      BY <2>1
    <3>3. CASE j - 1 = f
      <4>1. w[j - 1] = n /\ j = f + 1
        BY <3>1, <3>3
      <4>2. First(j) \in Int /\ First(j) = First(f + 1)
        BY <1>2, <3>1, <4>1
      <4> QED BY <1>3, <3>2, <3>3, <4>1, <4>2
    <3>4. CASE j - 1 # f
      <4>1. j - 1 \in f + 1 .. Gaps /\ j - 1 \in 1 .. Gaps + 1 /\ j - 1 + 1 = j
        BY <1>1, <3>1, <3>4, <2>1
      <4>2. a(j - 1) = First(j) - First(j - 1)
        BY <1>4, <4>1
      <4>3. w[j - 1] = n - a(f) - (First(j - 1) - First(f + 1))
        BY <3>1, <3>4
      <4>4. First(j) \in Int /\ First(j - 1) \in Int /\ First(f + 1) \in Int
        BY <1>2, <3>1, <4>1
      <4> HIDE DEF w
      <4> QED BY <1>3, <3>2, <4>2, <4>3, <4>4
    <3> QED BY <3>3, <3>4
  <2>2. \A j \in f .. Gaps + 1 :
          (IF j = f THEN n ELSE n - a(f) - (First(j) - First(f + 1)))
            = (IF j = f THEN n ELSE w[j - 1] - a(j - 1))
    <3>1. TAKE j \in f .. Gaps + 1
    <3>2. CASE j = f
      BY <3>2
    <3>3. CASE j # f
      BY <3>3, <2>1
    <3> QED BY <3>2, <3>3
  <2> DEFINE b(j) == IF j = f THEN n ELSE n - a(f) - (First(j) - First(f + 1))
             c(j) == IF j = f THEN n ELSE w[j - 1] - a(j - 1)
  <2>3. w = [j \in f .. Gaps + 1 |-> b(j)]
    OBVIOUS
  <2>4. \A j \in f .. Gaps + 1 : b(j) = c(j)
    BY <2>2
  <2>5. [j \in f .. Gaps + 1 |-> b(j)] = [j \in f .. Gaps + 1 |-> c(j)]
    <3> HIDE DEF b, c
    <3> QED BY <2>4
  <2> QED BY <2>3, <2>5
<1>6. l = [j \in f .. Gaps + 1 |-> IF j = f THEN n ELSE l[j - 1] - a(j - 1)]
  <2>1. l = CHOOSE x : x = [j \in f .. Gaps + 1 |-> IF j = f THEN n ELSE x[j - 1] - a(j - 1)]
    BY DEF Left, a
  <2> HIDE DEF w, l
  <2>2. \E x : x = [j \in f .. Gaps + 1 |-> IF j = f THEN n ELSE x[j - 1] - a(j - 1)]
    BY <1>5
  <2> QED BY <2>1, <2>2
<1>7. ASSUME NEW j \in f .. Gaps + 1
      PROVE  (j = f => l[j] = n) /\ (j # f => l[j] = l[j - 1] - a(j - 1))
  <2> HIDE DEF l
  <2> QED BY <1>6
<1> DEFINE T == {j \in Nat : j \in f .. Gaps + 1 /\ l[j] # w[j]}
<1>8. T = {}
  <2>1. SUFFICES ASSUME T # {} PROVE FALSE
    OBVIOUS
  <2>2. PICK j \in T : \A m \in T : j <= m
    <3> HIDE DEF l, w
    <3> QED BY <2>1, LeastNat
  <2>a. j \in Nat /\ j \in f .. Gaps + 1 /\ l[j] # w[j]
    BY <2>2
  <2>3. j # f
    BY <2>a, <1>7
  <2>4. j - 1 \in f .. Gaps + 1 /\ j - 1 \in Nat /\ j - 1 < j
    BY <1>1, <2>a, <2>3
  <2>5. l[j - 1] = w[j - 1]
    <3>1. j - 1 \notin T
      BY <2>2, <2>4, <2>a
    <3> HIDE DEF l, w
    <3> QED BY <3>1, <2>4
  <2>6. w[j] = w[j - 1] - a(j - 1)
    <3> DEFINE c(x) == IF x = f THEN n ELSE w[x - 1] - a(x - 1)
    <3>1. w = [x \in f .. Gaps + 1 |-> c(x)]
      BY <1>5
    <3>2. w[j] = c(j)
      <4> HIDE DEF w, c
      <4> QED BY <3>1, <2>a
    <3> QED BY <3>2, <2>3
  <2>7. l[j] = l[j - 1] - a(j - 1)
    BY <1>7, <2>a, <2>3
  <2> HIDE DEF l, w
  <2> QED BY <2>a, <2>5, <2>6, <2>7
<1>9. ASSUME NEW j \in f .. Gaps + 1
      PROVE  l[j] = w[j]
  <2> HIDE DEF l, w
  <2>1. j \in Nat
    BY <1>1
  <2> QED BY <1>8, <2>1
<1>10. f \in f .. Gaps + 1 /\ \A j \in f + 1 .. Gaps + 1 : j \in f .. Gaps + 1 /\ j # f
  BY <1>1
<1>11. l[f] = n
  BY <1>7, <1>10
<1>12. ASSUME NEW j \in f + 1 .. Gaps + 1
       PROVE  l[j] = n - a(f) - (First(j) - First(f + 1))
  <2>1. j \in f .. Gaps + 1 /\ j # f
    BY <1>10
  <2>2. w[j] = n - a(f) - (First(j) - First(f + 1))
    BY <2>1
  <2> HIDE DEF l, w
  <2> QED BY <1>9, <2>1, <2>2
<1> QED BY <1>11, <1>12 DEF a

(* A walk stops at the first gap that is not behind its end. *)
LEMMA WalkStops ==
  ASSUME FileOK, gap = GapsFound, NEW f \in 1 .. Gaps, NEW c, FirstGap(c) = f, NEW n
  PROVE  \E s \in f .. Gaps + 1 :
           /\ Ends(f, c, n, s) /\ \A j \in f .. s - 1 : ~Ends(f, c, n, j)
           /\ Walk(c, n) = Start(f, c, s) + Left(f, c, n)[s]
<1>1. Gaps \in Nat /\ Len(gap) = Gaps
  BY GapsAre, GapIs
<1> DEFINE P(s) == Ends(f, c, n, s) /\ \A j \in f .. s - 1 : ~Ends(f, c, n, j)
           T == {j \in Nat : j \in f .. Gaps + 1 /\ Ends(f, c, n, j)}
           stop == CHOOSE s \in f .. Gaps + 1 : P(s)
<1>2. Gaps + 1 \in T
  BY <1>1 DEF Ends
<1>3. PICK s \in T : \A m \in T : s <= m
  BY <1>2, LeastNat
<1>4. s \in f .. Gaps + 1 /\ P(s)
  <2>1. s \in Nat /\ s \in f .. Gaps + 1 /\ Ends(f, c, n, s)
    BY <1>3
  <2>2. ASSUME NEW j \in f .. s - 1, Ends(f, c, n, j) PROVE FALSE
    <3>1. j \in Nat /\ j \in f .. Gaps + 1 /\ ~(s <= j)
      BY <1>1, <2>1
    <3>2. j \in T
      BY <2>2, <3>1
    <3> QED BY <1>3, <3>1, <3>2
  <2> QED BY <2>1, <2>2
<1>5. stop \in f .. Gaps + 1 /\ P(stop)
  <2> HIDE DEF P
  <2> QED BY <1>4
<1>6. Walk(c, n) = Start(f, c, stop) + Left(f, c, n)[stop]
  BY <1>1 DEF Walk, Start, Avail, Left, Ends
<1> HIDE DEF stop
<1> QED BY <1>5, <1>6

LEMMA Further ==
  ASSUME NEW x \in Int, NEW k \in Int, NEW a \in Int, NEW n \in Int
  PROVE  x + (k - a) + n = x + (k + n - a) /\ x + (k - a) + n \in Int
OBVIOUS

(* From a cluster before the last gap *)
LEMMA WalkInRun ==
  ASSUME FileOK, gap = GapsFound, NEW k \in 1 .. Len(chain), NEW f \in 1 .. Gaps,
         k \in First(f) .. Last(f), NEW n \in Nat
  PROVE  /\ Walk(chain[k], n) \in Int
         /\ k + n <= Len(chain) => Walk(chain[k], n) = chain[k + n]
<1> DEFINE c == chain[k]
           l == Left(f, c, n)
<1>1. Gaps \in Nat /\ Len(chain) \in Nat /\ f \in Int /\ k \in Int /\ n \in Int
  BY GapsAre, ChainIs DEF FileOK
<1>2. FirstGap(c) = f
  <2>1. f \in 1 .. Gaps + 1 /\ f # Gaps + 1 /\ Gaps # 0
    BY <1>1
  <2> QED BY <2>1, FirstGapIs
<1>3. \A j \in 1 .. Gaps + 1 :
        /\ First(j) \in 1 .. Len(chain) /\ Last(j) \in First(j) .. Len(chain)
        /\ chain[First(j)] \in Int
        /\ \A p \in First(j) .. Last(j) : chain[p] = chain[First(j)] + (p - First(j))
  BY Segment, ChainIs DEF FileOK
<1>4. PICK s \in f .. Gaps + 1 :
        /\ Ends(f, c, n, s) /\ \A j \in f .. s - 1 : ~Ends(f, c, n, j)
        /\ Walk(c, n) = Start(f, c, s) + l[s]
  BY <1>2, WalkStops
<1>5. s \in 1 .. Gaps + 1 /\ f \in 1 .. Gaps + 1 /\ f + 1 \in 1 .. Gaps + 1 /\ s \in Int
  BY <1>1
<1>6. /\ First(f) \in Int /\ Last(f) \in Int /\ chain[First(f)] \in Int
      /\ First(f) <= k /\ k <= Last(f)
  BY <1>1, <1>3, <1>5
<1>7. c = chain[First(f)] + (k - First(f)) /\ c \in Int
  BY <1>1, <1>3, <1>5, <1>6
<1>8. chain[Last(f)] = chain[First(f)] + (Last(f) - First(f))
  <2>1. Last(f) \in First(f) .. Last(f)
    BY <1>6
  <2> QED BY <2>1, <1>3, <1>5
<1>9. Avail(f, c, f) = Last(f) - k + 1
  <2>1. Avail(f, c, f) = chain[Last(f)] - c + 1
    BY AvailIs
  <2> HIDE DEF c
  <2> QED BY <2>1, <1>6, <1>7, <1>8, <1>1
<1>10. First(f + 1) = Last(f) + 1
  BY <1>1, <1>5, SegmentsApart
<1>11. CASE s = f
  <2>1. Start(f, c, s) = c /\ l[s] = n
    BY <1>11, AvailIs, LeftIs
  <2>2. ~(f > Gaps)
    BY <1>1
  <2>3. n < Avail(f, c, f)
    <3>1. ~(Avail(f, c, f) < 0)
      BY <1>6, <1>9, <1>1
    <3>2. l[f] = n
      BY <2>1, <1>11
    <3> QED BY <1>4, <1>11, <2>2, <3>1, <3>2 DEF Ends
  <2>4. k + n \in First(f) .. Last(f)
    BY <1>1, <1>6, <1>9, <2>3
  <2>5. chain[k + n] = chain[First(f)] + (k + n - First(f))
    BY <1>3, <1>5, <2>4
  <2>6. Walk(c, n) = c + n
    BY <1>4, <2>1
  <2> HIDE DEF c, l
  <2>7. Walk(c, n) \in Int /\ Walk(c, n) = chain[k + n]
    <3>1. /\ chain[First(f)] + (k - First(f)) + n = chain[First(f)] + (k + n - First(f))
          /\ chain[First(f)] + (k - First(f)) + n \in Int
      BY <1>1, <1>6, Further
    <3> QED BY <1>7, <2>5, <2>6, <3>1, Zenon
  <2> QED BY <2>7 DEF c
<1>12. CASE s # f
  <2>1. s \in f + 1 .. Gaps + 1 /\ s - 1 \in f .. s - 1 /\ s - 1 \in f .. Gaps /\ s - 1 \in 1 .. Gaps
    BY <1>1, <1>12
  <2>2. Start(f, c, s) = chain[First(s)]
    BY <2>1, AvailIs
  <2>3. l[s] = n - Avail(f, c, f) - (First(s) - First(f + 1))
    BY <2>1, LeftIs
  <2>4. First(s) \in Int /\ Last(s) \in Int /\ chain[First(s)] \in Int
    BY <1>1, <1>3, <1>5
  <2>5. l[s] = k + n - First(s)
    <3> HIDE DEF l, c
    <3> QED BY <1>1, <1>6, <1>9, <1>10, <2>3, <2>4
  <2>6. Walk(c, n) = chain[First(s)] + (k + n - First(s))
    BY <1>4, <2>2, <2>5
  <2>7. First(s) <= k + n
    <3>1. ~Ends(f, c, n, s - 1)
      BY <1>4, <2>1
    <3>2. ~(l[s - 1] < Avail(f, c, s - 1))
      BY <3>1 DEF Ends
    <3>3. First(s) = Last(s - 1) + 1 /\ Last(s - 1) \in Int /\ First(s - 1) \in Int
      <4>1. s - 1 \in 1 .. Gaps + 1 /\ s - 1 < s /\ s - 1 + 1 = s
        BY <1>1, <2>1
      <4>2. First(s - 1 + 1) = Last(s - 1) + 1
        BY <1>5, <4>1, SegmentsApart
      <4> QED BY <1>1, <1>3, <4>1, <4>2
    <3>4. CASE s - 1 = f
      <4>1. l[s - 1] = n
        BY <3>4, LeftIs
      <4> HIDE DEF l, c
      <4> QED BY <1>1, <1>6, <1>9, <3>2, <3>3, <3>4, <4>1
    <3>5. CASE s - 1 # f
      <4>1. s - 1 \in f + 1 .. Gaps /\ s - 1 \in f + 1 .. Gaps + 1
        BY <1>1, <2>1, <3>5
      <4>2. Avail(f, c, s - 1) = Last(s - 1) - First(s - 1) + 1
        BY <4>1, AvailIs
      <4>3. l[s - 1] = n - Avail(f, c, f) - (First(s - 1) - First(f + 1))
        BY <4>1, LeftIs
      <4> HIDE DEF l, c
      <4> QED BY <1>1, <1>6, <1>9, <1>10, <3>2, <3>3, <4>2, <4>3
    <3> QED BY <3>4, <3>5
  <2>8. ASSUME k + n <= Len(chain)
        PROVE  k + n <= Last(s)
    <3>1. CASE s = Gaps + 1
      BY <2>8, <3>1 DEF Last
    <3>2. CASE s # Gaps + 1
      <4>1. s \in f + 1 .. Gaps /\ ~(s > Gaps)
        BY <1>1, <2>1, <3>2
      <4>2. Avail(f, c, s) = Last(s) - First(s) + 1
        BY <4>1, AvailIs
      <4>3. Last(s) >= First(s)
        BY <1>1, <1>3, <1>5
      <4>4. ~(Avail(f, c, s) < 0)
        BY <4>2, <4>3, <2>4
      <4>5. l[s] < Avail(f, c, s)
        BY <1>4, <4>1, <4>4 DEF Ends
      <4> HIDE DEF l, c
      <4> QED BY <1>1, <2>4, <2>5, <4>2, <4>5
    <3> QED BY <3>1, <3>2
  <2>9. ASSUME k + n <= Len(chain)
        PROVE  chain[k + n] = chain[First(s)] + (k + n - First(s))
    <3>1. k + n \in First(s) .. Last(s)
      BY <1>1, <2>4, <2>7, <2>8, <2>9
    <3> QED BY <1>3, <1>5, <3>1
  <2>10. Walk(c, n) \in Int
    <3> HIDE DEF c
    <3> QED BY <1>1, <2>4, <2>6
  <2> QED BY <2>6, <2>9, <2>10
<1> QED BY <1>11, <1>12

LEMMA JustBefore ==
  ASSUME NEW a \in Int, NEW k \in Int, NEW x \in Int, NEW c \in Int,
         a <= k, k - 1 <= k + (x - c), ~(k + (x - c) >= a)
  PROVE  k = a /\ x - c = -1
OBVIOUS

(* From a cluster behind the last gap: the room before the gap, as far as  *)
(* it is not negative, is more than what is left to go, for else the       *)
(* clusters behind it would reach the one before the gap.                  *)
LEMMA WalkBehind ==
  ASSUME FileOK, gap = GapsFound, Gaps # 0, NEW k \in 1 .. Len(chain),
         k \in First(Gaps + 1) .. Last(Gaps + 1), NEW n \in Nat,
         k + n <= Len(chain) + 1
  PROVE  Walk(chain[k], n) = chain[k] + n
<1> DEFINE f == Gaps
           c == chain[k]
           b == Brk(Gaps)
           a == First(Gaps + 1)
<1>1. Gaps \in Nat /\ Len(chain) \in Nat /\ f \in 1 .. Gaps /\ k \in Int /\ n \in Int
      /\ Gaps + 1 \in 1 .. Gaps + 1
  BY GapsAre, ChainIs DEF FileOK
<1>2. FirstGap(c) = f
  BY <1>1, FirstGapIs
<1>3. b \in 1 .. Len(chain) - 1 /\ Breaks(b) /\ a = b + 1 /\ Last(Gaps + 1) = Len(chain)
  <2>1. Gaps + 1 # 1 /\ Gaps + 1 - 1 = Gaps
    BY <1>1
  <2> QED BY <1>1, <2>1, GapsAre DEF First, Last
<1>4. /\ \A x \in 1 .. Len(chain) : chain[x] \in Nat
      /\ \A x, y \in 1 .. Len(chain) : chain[x] = chain[y] => x = y
  BY ChainIs DEF FileOK
<1>5. \A p \in a .. Len(chain) : chain[p] = chain[a] + (p - a)
  BY <1>1, <1>3, Segment
<1>6. /\ a \in Int /\ b \in Int /\ a <= k /\ k <= Len(chain) /\ b >= 1
      /\ c \in Int /\ chain[a] \in Int /\ chain[b] \in Int
  <2>1. a \in Int /\ b \in Int /\ b >= 1 /\ a <= k /\ k <= Len(chain)
    BY <1>1, <1>3
  <2>2. a \in 1 .. Len(chain) /\ b \in 1 .. Len(chain)
    BY <1>1, <1>3, <2>1
  <2>3. c \in Int /\ chain[a] \in Int /\ chain[b] \in Int
    BY <1>4, <2>2
  <2> QED BY <2>1, <2>3
<1>7. Avail(f, c, f) = chain[b] - c + 1
  <2>1. Avail(f, c, f) = chain[Last(f)] - c + 1
    BY <1>1, AvailIs
  <2>2. Gaps # Gaps + 1
    BY <1>1
  <2> QED BY <2>1, <2>2 DEF Last
<1>8. chain[k] = chain[a] + (k - a)
  <2>1. k \in a .. Len(chain)
    BY <1>1, <1>6
  <2> QED BY <1>5, <2>1
<1>9. chain[b + 1] # chain[b] + 1
  BY <1>3 DEF Breaks
<1> HIDE DEF a, b, f
<1>10. ASSUME ~(Avail(f, c, f) < 0), ~(n < Avail(f, c, f))
       PROVE  FALSE
  <2> DEFINE p == k + (chain[b] - c)
  <2>1. p <= Len(chain) /\ k - 1 <= p
    <3> HIDE DEF c
    <3> QED BY <1>1, <1>6, <1>7, <1>10
  <2>2. CASE p >= a
    <3>1. p \in a .. Len(chain) /\ p \in 1 .. Len(chain) /\ b \in 1 .. Len(chain)
      <4> HIDE DEF c
      <4> QED BY <1>1, <1>3, <1>6, <2>1, <2>2
    <3>2. chain[p] = chain[a] + (p - a)
      BY <1>5, <3>1
    <3>3. chain[a] + (p - a) = chain[b]
      <4>1. c = chain[a] + (k - a)
        BY <1>8
      <4> DEFINE v == chain[a]
                 x == chain[b]
      <4>2. v \in Int /\ x \in Int /\ c \in Int /\ a \in Int /\ k \in Int
        BY <1>1, <1>6
      <4>3. c = v + (k - a)
        BY <4>1
      <4> HIDE DEF c, v, x
      <4>4. v + ((k + (x - c)) - a) = x
        BY <4>2, <4>3
      <4> QED BY <4>4 DEF v, x
    <3>4. p = b
      BY <1>4, <3>1, <3>2, <3>3
    <3> HIDE DEF p
    <3> QED BY <1>3, <1>6, <2>2, <3>4
  <2>3. CASE ~(p >= a)
    <3>1. k = a /\ chain[b] - c = -1
      <4> HIDE DEF c
      <4>1. k - 1 <= k + (chain[b] - c) /\ ~(k + (chain[b] - c) >= a)
        BY <2>1, <2>3
      <4> QED BY <1>1, <1>6, <4>1, JustBefore
    <3>2. chain[b + 1] = c
      BY <1>3, <3>1
    <3> HIDE DEF c
    <3> QED BY <1>6, <1>9, <3>1, <3>2
  <2> QED BY <2>2, <2>3
<1> DEFINE l == Left(f, c, n)
<1>11. l[f] = n /\ Start(f, c, f) = c
  BY <1>1, AvailIs, LeftIs DEF f
<1>12. Ends(f, c, n, f)
  BY <1>10, <1>11 DEF Ends
<1>13. PICK s \in f .. Gaps + 1 :
         /\ Ends(f, c, n, s) /\ \A j \in f .. s - 1 : ~Ends(f, c, n, j)
         /\ Walk(c, n) = Start(f, c, s) + l[s]
  BY <1>1, <1>2, WalkStops
<1>14. s = f
  <2>1. SUFFICES ASSUME s # f PROVE FALSE
    OBVIOUS
  <2>2. f \in f .. s - 1
    BY <1>1, <2>1
  <2> QED BY <1>12, <1>13, <2>2
<1> QED BY <1>11, <1>13, <1>14 DEF c

(* The cluster that is n clusters behind the k-th of the file. *)
LEMMA ClusterIs ==
  ASSUME FileOK, gap = GapsFound, NEW k \in 1 .. Len(chain), NEW n \in Nat,
         k + n <= Len(chain) + 1
  PROVE  /\ getNClusterCache(chain[k], n) \in Int
         /\ k + n <= Len(chain) => getNClusterCache(chain[k], n) = chain[k + n]
<1>1. /\ Gaps \in Nat /\ Len(chain) \in Nat /\ k \in Int /\ n \in Int
      /\ \A x \in 1 .. Len(chain) : chain[x] \in Nat
  BY GapsAre, ChainIs DEF FileOK
<1>2. chain[k] \in Int
  BY <1>1
<1>3. PICK ix \in 1 .. Gaps + 1 : k \in First(ix) .. Last(ix)
  BY SegmentOf
<1>4. /\ First(ix) \in 1 .. Len(chain) /\ Last(ix) \in First(ix) .. Len(chain)
      /\ \A p \in First(ix) .. Last(ix) : chain[p] = chain[First(ix)] + (p - First(ix))
  BY Segment
<1>5. ASSUME ix = Gaps + 1, k + n <= Len(chain)
      PROVE  chain[k] + n = chain[k + n]
  <2>1. Last(ix) = Len(chain)
    BY <1>5 DEF Last
  <2>2. First(ix) \in Int /\ chain[First(ix)] \in Int
    BY <1>1, <1>4
  <2>3. k \in First(ix) .. Last(ix) /\ k + n \in First(ix) .. Last(ix)
    BY <1>1, <1>3, <1>5, <2>1, <2>2
  <2>4. /\ chain[k] = chain[First(ix)] + (k - First(ix))
        /\ chain[k + n] = chain[First(ix)] + (k + n - First(ix))
    BY <1>4, <2>3
  <2>5. chain[First(ix)] + (k - First(ix)) + n = chain[First(ix)] + (k + n - First(ix))
    BY <1>1, <2>2, Further
  <2> QED BY <2>4, <2>5, Zenon
<1>6. CASE gap = <<>> \/ n = 0
  <2>1. getNClusterCache(chain[k], n) = chain[k] + n
    BY <1>6 DEF getNClusterCache
  <2>2. CASE n = 0
    BY <1>1, <1>2, <2>1, <2>2
  <2>3. CASE n # 0
    <3>1. ix = Gaps + 1
      BY <1>1, <1>6, <2>3, GapIs
    <3> QED BY <1>1, <1>2, <1>5, <2>1, <3>1
  <2> QED BY <2>2, <2>3
<1>7. CASE ~(gap = <<>> \/ n = 0)
  <2>1. getNClusterCache(chain[k], n) = Walk(chain[k], n) /\ Gaps # 0
    BY <1>7, GapIs DEF getNClusterCache
  <2>2. CASE ix = Gaps + 1
    <3>1. Walk(chain[k], n) = chain[k] + n
      BY <1>3, <2>1, <2>2, WalkBehind
    <3> QED BY <1>1, <1>2, <1>5, <2>1, <2>2, <3>1
  <2>3. CASE ix # Gaps + 1
    <3>1. ix \in 1 .. Gaps
      BY <1>1, <2>3
    <3> QED BY <1>3, <2>1, <3>1, WalkInRun
  <2> QED BY <2>2, <2>3
<1> QED BY <1>6, <1>7

-----------------------------------------------------------------------------
(* Positions *)

Files == [cluster : Int, clusterCnt : Nat, seekSector : Nat, seekBytes : Nat,
          dataSector : Int]

(* f is at its position seekBytes. *)
At(f) ==
  /\ f \in Files
  /\ f.seekBytes <= fileSize
  /\ f.clusterCnt = f.seekBytes \div bytesPerCluster
  /\ f.seekSector = (f.seekBytes \div SECTOR) % sectorsPerCluster
  /\ f.dataSector = DataSector(f.cluster)
  /\ f.clusterCnt < Len(chain) => f.cluster = chain[f.clusterCnt + 1]

LEMMA SizeIs ==
  ASSUME FileOK
  PROVE  /\ Len(chain) \in Nat /\ fileSize \in Nat /\ fileSize >= 1
         /\ Len(chain) * bytesPerCluster \in Nat
         /\ fileSize <= Len(chain) * bytesPerCluster
<1>1. Len(chain) \in Nat /\ Len(chain) - 1 \in Nat
  BY ChainIs DEF FileOK
<1>2. (Len(chain) - 1) * bytesPerCluster \in Nat /\ Len(chain) * bytesPerCluster \in Nat
  BY <1>1, DiskIs
<1> DEFINE a == (Len(chain) - 1) * bytesPerCluster
           e == Len(chain) * bytesPerCluster
<1>3. a \in Nat /\ e \in Nat /\ fileSize \in a + 1 .. e
  BY <1>2 DEF FileOK
<1> HIDE DEF a, e
<1>4. fileSize \in Nat /\ fileSize >= 1 /\ fileSize <= e
  BY <1>3
<1> QED BY <1>1, <1>2, <1>4 DEF e

LEMMA ClusterOf ==
  ASSUME FileOK, NEW b \in 0 .. fileSize
  PROVE  /\ b \div bytesPerCluster \in Nat /\ b \div bytesPerCluster <= Len(chain)
         /\ b < fileSize => b \div bytesPerCluster < Len(chain)
<1> DEFINE q == b \div bytesPerCluster
           r == b % bytesPerCluster
           e == Len(chain) * bytesPerCluster
<1>1. Len(chain) \in Nat /\ fileSize \in Nat /\ e \in Nat /\ fileSize <= e
  BY SizeIs
<1>2. b \in Int /\ b >= 0 /\ b <= fileSize
  BY <1>1
<1>3. q \in Int /\ r \in 0 .. bytesPerCluster - 1 /\ b = q * bytesPerCluster + r
  BY <1>2, DiskIs, QuotientIs
<1> HIDE DEF q, r
<1>4. q * bytesPerCluster \in Int
  BY <1>3, DiskIs
<1>5. ~(q < 0)
  <2>1. SUFFICES ASSUME q < 0 PROVE FALSE
    OBVIOUS
  <2>2. q * bytesPerCluster + bytesPerCluster <= 0 * bytesPerCluster
    BY <1>3, <2>1, DiskIs, Below
  <2>3. 0 * bytesPerCluster = 0
    BY DiskIs
  <2> QED BY <1>2, <1>3, <1>4, <2>2, <2>3, DiskIs
<1>6. ~(Len(chain) < q)
  <2>1. SUFFICES ASSUME Len(chain) < q PROVE FALSE
    OBVIOUS
  <2>2. e + bytesPerCluster <= q * bytesPerCluster
    BY <1>1, <1>3, <2>1, DiskIs, Below
  <2> HIDE DEF e
  <2> QED BY <1>1, <1>2, <1>3, <1>4, <2>2, DiskIs
<1>7. b < fileSize => q # Len(chain)
  <2>1. SUFFICES ASSUME b < fileSize, q = Len(chain) PROVE FALSE
    OBVIOUS
  <2>2. q * bytesPerCluster = e
    BY <2>1
  <2> HIDE DEF e
  <2> QED BY <1>1, <1>2, <1>3, <1>4, <2>1, <2>2
<1>8. q \in Nat /\ q <= Len(chain) /\ (b < fileSize => q < Len(chain))
  BY <1>1, <1>3, <1>5, <1>6, <1>7
<1> QED BY <1>8 DEF q

LEMMA SectorIs ==
  ASSUME NEW c \in Int
  PROVE  DataSector(c) \in Int
BY DiskIs DEF DataSector

(* Settle leaves f at the position it was asked for, whatever cluster      *)
(* before it f was at.                                                     *)
LEMMA SettleIs ==
  ASSUME FileOK, gap = GapsFound, NEW b \in 0 .. fileSize, NEW f \in Files,
         f.clusterCnt <= b \div bytesPerCluster,
         f.clusterCnt < Len(chain) => f.cluster = chain[f.clusterCnt + 1]
  PROVE  At(Settle(f, b)) /\ Settle(f, b).seekBytes = b
<1> DEFINE q == b \div bytesPerCluster
           s == (b \div SECTOR) % sectorsPerCluster
           cluster == getNClusterCache(f.cluster, q - f.clusterCnt)
           g == [f EXCEPT !.seekBytes = b, !.seekSector = s, !.cluster = cluster,
                          !.clusterCnt = q, !.dataSector = DataSector(cluster)]
<1>1. /\ Len(chain) \in Nat /\ fileSize \in Nat /\ b \in Nat /\ b <= fileSize
      /\ q \in Nat /\ q <= Len(chain)
  BY SizeIs, ClusterOf
<1>2. s \in Nat
  <2>1. b \div SECTOR \in Int
    BY <1>1, DiskIs, QuotientIs
  <2>2. s \in 0 .. sectorsPerCluster - 1
    BY <2>1, DiskIs, QuotientIs
  <2> QED BY <2>2, DiskIs
<1>3. f.cluster \in Int /\ f.clusterCnt \in Nat
  BY DEF Files
<1>4. cluster \in Int /\ (q < Len(chain) => cluster = chain[q + 1])
  <2>1. CASE f.clusterCnt < Len(chain)
    <3>1. /\ f.clusterCnt + 1 \in 1 .. Len(chain) /\ q - f.clusterCnt \in Nat
          /\ f.clusterCnt + 1 + (q - f.clusterCnt) = q + 1
      BY <1>1, <1>3, <2>1
    <3>2. f.cluster = chain[f.clusterCnt + 1]
      BY <2>1
    <3> HIDE DEF q
    <3>3. /\ cluster \in Int
          /\ f.clusterCnt + 1 + (q - f.clusterCnt) <= Len(chain)
               => cluster = chain[f.clusterCnt + 1 + (q - f.clusterCnt)]
      BY <1>1, <3>1, <3>2, ClusterIs
    <3> QED BY <1>1, <3>1, <3>3
  <2>2. CASE ~(f.clusterCnt < Len(chain))
    <3>1. q - f.clusterCnt = 0 /\ ~(q < Len(chain))
      BY <1>1, <1>3, <2>2
    <3>2. cluster = f.cluster + 0
      BY <3>1 DEF getNClusterCache
    <3> QED BY <1>3, <3>1, <3>2
  <2> QED BY <2>1, <2>2
<1>5. Settle(f, b) = g
  <2>1. Settle(f, b) = [[f EXCEPT !.seekBytes = b, !.seekSector = s]
                          EXCEPT !.cluster = cluster, !.clusterCnt = q,
                                 !.dataSector = DataSector(cluster)]
    <3> HIDE DEF cluster
    <3> QED BY <1>1, <1>3 DEF Settle, cluster
  <2> HIDE DEF cluster, q, s
  <2> QED BY <2>1 DEF Files
<1>6. DataSector(cluster) \in Int
  BY <1>4, SectorIs
<1> HIDE DEF cluster, q, s
<1>7. /\ g \in Files /\ g.seekBytes = b /\ g.clusterCnt = q /\ g.seekSector = s
      /\ g.cluster = cluster /\ g.dataSector = DataSector(cluster)
  BY <1>1, <1>2, <1>4, <1>6 DEF Files
<1> HIDE DEF g
<1> QED BY <1>1, <1>4, <1>5, <1>7 DEF At, q, s

LEMMA RewoundIs ==
  ASSUME FileOK, NEW f \in Files
  PROVE  /\ Rewound(f) \in Files /\ Rewound(f).seekBytes = f.seekBytes
         /\ Rewound(f).clusterCnt = 0 /\ Rewound(f).cluster = chain[1]
<1>1. chain[1] \in Int
  BY ChainIs DEF FileOK
<1> QED BY <1>1 DEF Files, Rewound, clusterOrg

LEMMA RewoundSettles ==
  ASSUME FileOK, gap = GapsFound, NEW b \in 0 .. fileSize, NEW f \in Files
  PROVE  At(Settle(Rewound(f), b)) /\ Settle(Rewound(f), b).seekBytes = b
<1>1. b \div bytesPerCluster \in Nat
  BY ClusterOf
<1>2. /\ Rewound(f) \in Files /\ Rewound(f).clusterCnt = 0
      /\ Rewound(f).cluster = chain[0 + 1]
  BY RewoundIs
<1> DEFINE g == Rewound(f)
<1>3. g \in Files /\ g.clusterCnt <= b \div bytesPerCluster
      /\ (g.clusterCnt < Len(chain) => g.cluster = chain[g.clusterCnt + 1])
  BY <1>1, <1>2
<1> HIDE DEF g
<1>4. At(Settle(g, b)) /\ Settle(g, b).seekBytes = b
  BY <1>3, SettleIs
<1> QED BY <1>4 DEF g

LEMMA QuotientGrows ==
  ASSUME NEW x \in Int, NEW y \in Int, x <= y, NEW d \in Nat, d >= 1
  PROVE  x \div d <= y \div d
<1> DEFINE p == x \div d
           q == y \div d
           r == x % d
           s == y % d
<1>1. /\ p \in Int /\ r \in 0 .. d - 1 /\ x = p * d + r
      /\ q \in Int /\ s \in 0 .. d - 1 /\ y = q * d + s
  BY QuotientIs
<1> HIDE DEF p, q, r, s
<1>2. SUFFICES ASSUME q < p PROVE FALSE
  BY <1>1 DEF p, q
<1>3. q * d + d <= p * d
  BY <1>1, <1>2, Below
<1>4. q * d \in Int /\ p * d \in Int
  BY <1>1
<1> QED BY <1>1, <1>3, <1>4

(* The three kinds of seek leave f at the position asked for. *)
LEMMA SeekCurIs ==
  ASSUME FileOK, gap = GapsFound, NEW f, At(f), NEW n \in Int,
         0 <= f.seekBytes + n, f.seekBytes + n <= fileSize
  PROVE  At(SEEK_CUR(f, n)) /\ SEEK_CUR(f, n).seekBytes = f.seekBytes + n
<1> DEFINE b == f.seekBytes + n
<1>1. f \in Files /\ f.seekBytes \in Nat /\ fileSize \in Nat
  BY SizeIs DEF At, Files
<1>2. b \in 0 .. fileSize
  BY <1>1
<1>3. CASE n < 0
  <2>1. SEEK_CUR(f, n) = Settle(Rewound(f), b)
    BY <1>3 DEF SEEK_CUR
  <2> HIDE DEF b
  <2>2. At(Settle(Rewound(f), b)) /\ Settle(Rewound(f), b).seekBytes = b
    BY <1>1, <1>2, RewoundSettles
  <2> QED BY <2>1, <2>2 DEF b
<1>4. CASE ~(n < 0)
  <2>1. SEEK_CUR(f, n) = Settle(f, b)
    BY <1>4 DEF SEEK_CUR
  <2>2. f.seekBytes \div bytesPerCluster <= b \div bytesPerCluster
    BY <1>1, <1>2, <1>4, DiskIs, QuotientGrows
  <2>3. /\ f.clusterCnt <= b \div bytesPerCluster
        /\ f.clusterCnt < Len(chain) => f.cluster = chain[f.clusterCnt + 1]
    BY <2>2 DEF At
  <2> HIDE DEF b
  <2>4. At(Settle(f, b)) /\ Settle(f, b).seekBytes = b
    BY <1>1, <1>2, <2>3, SettleIs
  <2> QED BY <2>1, <2>4 DEF b
<1> QED BY <1>3, <1>4

LEMMA ZeroIs ==
  /\ 0 \div bytesPerCluster = 0
  /\ (0 \div SECTOR) % sectorsPerCluster = 0
<1>1. /\ 0 \in 0 .. bytesPerCluster - 1 /\ 0 \in 0 .. SECTOR - 1
      /\ 0 \in 0 .. sectorsPerCluster - 1
  BY DiskIs
<1>2. /\ 0 = 0 * bytesPerCluster + 0 /\ 0 = 0 * SECTOR + 0
      /\ 0 = 0 * sectorsPerCluster + 0
  BY DiskIs
<1>3. 0 \div bytesPerCluster = 0
  BY <1>1, <1>2, DiskIs, DivUnique
<1>4. 0 \div SECTOR = 0
  BY <1>1, <1>2, DiskIs, DivUnique
<1>5. 0 % sectorsPerCluster = 0
  BY <1>1, <1>2, DiskIs, DivUnique
<1> QED BY <1>3, <1>4, <1>5

(* The first byte of the file *)
LEMMA FirstByte ==
  ASSUME FileOK, NEW f \in Files, f.cluster = chain[1], f.clusterCnt = 0,
         f.seekSector = 0, f.seekBytes = 0, f.dataSector = DataSector(chain[1])
  PROVE  At(f)
<1>1. 0 <= fileSize
  BY SizeIs
<1>2. f.clusterCnt + 1 = 1
  OBVIOUS
<1> QED BY <1>1, <1>2, ZeroIs DEF At

LEMMA SeekSetIs ==
  ASSUME FileOK, gap = GapsFound, NEW f \in Files, NEW b \in 0 .. fileSize
  PROVE  At(SEEK_SET(f, b)) /\ SEEK_SET(f, b).seekBytes = b
<1>1. CASE b = 0
  <2> DEFINE g == [Rewound(f) EXCEPT !.seekBytes = 0, !.seekSector = 0,
                                     !.dataSector = DataSector(clusterOrg)]
  <2>1. SEEK_SET(f, b) = g
    BY <1>1 DEF SEEK_SET
  <2>2. /\ Rewound(f) \in Files
        /\ Rewound(f).clusterCnt = 0 /\ Rewound(f).cluster = chain[1]
    BY RewoundIs
  <2>3. chain[1] \in Int
    BY ChainIs DEF FileOK
  <2>4. DataSector(clusterOrg) = DataSector(chain[1]) /\ DataSector(clusterOrg) \in Int
    BY <2>3, SectorIs DEF clusterOrg
  <2>5. /\ g \in Files /\ g.cluster = chain[1] /\ g.clusterCnt = 0
        /\ g.seekSector = 0 /\ g.seekBytes = 0 /\ g.dataSector = DataSector(chain[1])
    BY <2>2, <2>4 DEF Files
  <2> HIDE DEF g
  <2>6. At(g)
    BY <2>5, FirstByte
  <2> QED BY <1>1, <2>1, <2>5, <2>6
<1>2. CASE b # 0
  <2>1. SEEK_SET(f, b) = Settle(Rewound(f), b)
    BY <1>2 DEF SEEK_SET
  <2> QED BY <2>1, RewoundSettles
<1> QED BY <1>1, <1>2

LEMMA SeekEndIs ==
  ASSUME FileOK, gap = GapsFound, NEW f \in Files, NEW b \in 0 .. fileSize
  PROVE  /\ At(SEEK_END(f, b - (fileSize - 1)))
         /\ SEEK_END(f, b - (fileSize - 1)).seekBytes = b
<1>1. fileSize \in Nat
  BY SizeIs
<1>2. fileSize + (b - (fileSize - 1)) - 1 = b
  BY <1>1
<1>3. SEEK_END(f, b - (fileSize - 1)) = Settle(Rewound(f), b)
  BY <1>2 DEF SEEK_END
<1> QED BY <1>3, RewoundSettles

-----------------------------------------------------------------------------
(* Places *)

(* The parts of a position *)
LEMMA PartsOf ==
  ASSUME NEW x \in Nat
  PROVE  /\ x \div bytesPerCluster \in Nat
         /\ (x \div SECTOR) % sectorsPerCluster \in 0 .. sectorsPerCluster - 1
         /\ x % SECTOR \in 0 .. SECTOR - 1
         /\ x % bytesPerCluster \in 0 .. bytesPerCluster - 1
         /\ x % bytesPerCluster
              = ((x \div SECTOR) % sectorsPerCluster) * SECTOR + (x % SECTOR)
         /\ x = (x \div bytesPerCluster) * bytesPerCluster + (x % bytesPerCluster)
<1> DEFINE q == x \div SECTOR
           o == x % SECTOR
           c == q \div sectorsPerCluster
           s == q % sectorsPerCluster
           r == s * SECTOR + o
           d == x \div bytesPerCluster
<1>1. q \in Int /\ o \in 0 .. SECTOR - 1 /\ x = q * SECTOR + o
  BY DiskIs, QuotientIs
<1>2. c \in Int /\ s \in 0 .. sectorsPerCluster - 1 /\ q = c * sectorsPerCluster + s
  <2> HIDE DEF q
  <2> QED BY <1>1, DiskIs, QuotientIs
<1>a. x \in Int /\ bytesPerCluster \in Nat /\ bytesPerCluster >= 1
  BY DiskIs
<1>3. d \in Int /\ x % bytesPerCluster \in 0 .. bytesPerCluster - 1
      /\ x = d * bytesPerCluster + (x % bytesPerCluster)
  BY <1>a, QuotientIs
<1>4. ~(d < 0)
  <2> DEFINE t == x % bytesPerCluster
  <2>0. t \in 0 .. bytesPerCluster - 1 /\ x = d * bytesPerCluster + t
    BY <1>3
  <2> HIDE DEF d, t
  <2>1. SUFFICES ASSUME d < 0 PROVE FALSE
    OBVIOUS
  <2>2. d * bytesPerCluster + bytesPerCluster <= 0 * bytesPerCluster
    BY <1>3, <2>1, DiskIs, Below
  <2>3. 0 * bytesPerCluster = 0 /\ d * bytesPerCluster \in Int
    BY <1>3, DiskIs
  <2> QED BY <2>0, <2>2, <2>3, DiskIs
<1> HIDE DEF q, o, c, s, d
<1>5. r \in 0 .. bytesPerCluster - 1
  <2>1. s * SECTOR \in Nat /\ sectorsPerCluster * SECTOR = bytesPerCluster
    BY <1>2, DiskIs
  <2>2. s * SECTOR + SECTOR <= sectorsPerCluster * SECTOR
    BY <1>2, DiskIs, Below
  <2> DEFINE a == s * SECTOR
             e == sectorsPerCluster * SECTOR
  <2>3. a \in Nat /\ e = bytesPerCluster /\ a + SECTOR <= e /\ r = a + o
    BY <2>1, <2>2
  <2> HIDE DEF a, e, r
  <2> QED BY <1>1, <2>3, DiskIs
<1>6. x = c * bytesPerCluster + r
  <2>1. c * (sectorsPerCluster * SECTOR) = (c * sectorsPerCluster) * SECTOR
    BY <1>2, DiskIs
  <2> DEFINE a == c * sectorsPerCluster
  <2>2. a \in Int /\ q = a + s /\ s \in Int
    BY <1>2, DiskIs
  <2> HIDE DEF a
  <2>3. q * SECTOR = a * SECTOR + s * SECTOR
    BY <2>2, DiskIs
  <2>4. a * SECTOR = c * bytesPerCluster
    BY <2>1, DiskIs DEF a
  <2>5. a * SECTOR \in Int /\ s * SECTOR \in Int
    BY <2>2, DiskIs
  <2> DEFINE u == a * SECTOR
             v == s * SECTOR
             w == q * SECTOR
  <2>6. u \in Int /\ v \in Int /\ w = u + v /\ x = w + o /\ u = c * bytesPerCluster /\ r = v + o
    BY <1>1, <2>3, <2>4, <2>5
  <2> HIDE DEF u, v, w, r
  <2> QED BY <1>1, <2>6
<1> HIDE DEF r
<1>7. x % bytesPerCluster = r
  BY <1>a, <1>2, <1>5, <1>6, DivUnique
<1>8. d \in Nat
  BY <1>3, <1>4
<1> QED BY <1>1, <1>2, <1>3, <1>7, <1>8 DEF q, o, s, d, r

LEMMA PlaceAt ==
  ASSUME NEW x \in Int, NEW q \in Int, NEW r \in 0 .. bytesPerCluster - 1,
         x = q * bytesPerCluster + r
  PROVE  Place(x) = DataSector(chain[q + 1]) * SECTOR + r
<1>1. x \div bytesPerCluster = q /\ x % bytesPerCluster = r
  BY DiskIs, DivUnique
<1> QED BY <1>1 DEF Place

(* The place of a position in the file *)
LEMMA AtIs ==
  ASSUME FileOK, NEW f, At(f)
  PROVE  /\ f \in Files /\ f.seekBytes \in Nat /\ f.seekBytes <= fileSize
         /\ f.clusterCnt \in Nat /\ f.seekSector \in 0 .. sectorsPerCluster - 1
         /\ f.seekBytes % SECTOR \in 0 .. SECTOR - 1
         /\ f.seekSector * SECTOR + (f.seekBytes % SECTOR) \in 0 .. bytesPerCluster - 1
         /\ f.seekBytes = f.clusterCnt * bytesPerCluster
                            + (f.seekSector * SECTOR + (f.seekBytes % SECTOR))
         /\ f.dataSector = DataSector(f.cluster) /\ f.dataSector \in Int
         /\ f.seekBytes < fileSize =>
              /\ f.clusterCnt < Len(chain)
              /\ f.cluster = chain[f.clusterCnt + 1]
<1> DEFINE x == f.seekBytes
<1>1. f \in Files /\ x \in Nat /\ x <= fileSize /\ fileSize \in Nat /\ f.dataSector \in Int
      /\ f.clusterCnt \in Nat
  BY SizeIs DEF At, Files
<1>2. /\ f.clusterCnt = x \div bytesPerCluster
      /\ f.seekSector = (x \div SECTOR) % sectorsPerCluster
      /\ f.dataSector = DataSector(f.cluster)
      /\ f.clusterCnt < Len(chain) => f.cluster = chain[f.clusterCnt + 1]
  BY DEF At
<1>3. x \in 0 .. fileSize
  BY <1>1
<1> HIDE DEF x
<1>4. x < fileSize => x \div bytesPerCluster < Len(chain)
  BY <1>3, ClusterOf
<1>5. /\ (x \div SECTOR) % sectorsPerCluster \in 0 .. sectorsPerCluster - 1
      /\ x % SECTOR \in 0 .. SECTOR - 1
      /\ x % bytesPerCluster \in 0 .. bytesPerCluster - 1
      /\ x % bytesPerCluster
           = ((x \div SECTOR) % sectorsPerCluster) * SECTOR + (x % SECTOR)
      /\ x = (x \div bytesPerCluster) * bytesPerCluster + (x % bytesPerCluster)
  BY <1>1, PartsOf
<1>6. /\ f.seekSector * SECTOR + (x % SECTOR) \in 0 .. bytesPerCluster - 1
      /\ x = f.clusterCnt * bytesPerCluster + (f.seekSector * SECTOR + (x % SECTOR))
  BY <1>2, <1>5, Zenon
<1>7. f.seekSector \in 0 .. sectorsPerCluster - 1 /\ x % SECTOR \in 0 .. SECTOR - 1
  BY <1>2, <1>5, Zenon
<1>8. x < fileSize => f.clusterCnt < Len(chain) /\ f.cluster = chain[f.clusterCnt + 1]
  BY <1>2, <1>4
<1> QED BY <1>1, <1>2, <1>6, <1>7, <1>8, Zenon DEF x

LEMMA PlaceOf ==
  ASSUME FileOK, NEW f, At(f), f.seekBytes < fileSize
  PROVE  (f.dataSector + f.seekSector) * SECTOR + (f.seekBytes % SECTOR)
           = Place(f.seekBytes)
<1> DEFINE r == f.seekSector * SECTOR + (f.seekBytes % SECTOR)
           d == f.dataSector
           s == f.seekSector
           o == f.seekBytes % SECTOR
<1>1. /\ f.seekBytes \in Int /\ f.clusterCnt \in Int /\ r \in 0 .. bytesPerCluster - 1
      /\ f.seekBytes = f.clusterCnt * bytesPerCluster + r
      /\ f.cluster = chain[f.clusterCnt + 1] /\ d = DataSector(f.cluster)
  BY AtIs
<1>2. d \in Int /\ s \in Int /\ o \in Int
  BY AtIs
<1>3. Place(f.seekBytes) = DataSector(chain[f.clusterCnt + 1]) * SECTOR + r
  <2> HIDE DEF r
  <2> QED BY <1>1, PlaceAt
<1>4. Place(f.seekBytes) = d * SECTOR + (s * SECTOR + o)
  BY <1>1, <1>3, Zenon
<1> HIDE DEF d, s, o
<1>5. (d + s) * SECTOR + o = d * SECTOR + (s * SECTOR + o)
  BY <1>2, DiskIs
<1> QED BY <1>4, <1>5 DEF d, s, o

-----------------------------------------------------------------------------
(* Reading *)

(* s holds the bytes of the file from b on. *)
Reads(b, s) == s \in Seq(Int) /\ \A ix \in 1 .. Len(s) : s[ix] = Place(b + ix - 1)

(* r is what reading k bytes from b on gives. *)
Did(b, r, k) ==
  /\ At(r[1]) /\ r[1].seekBytes = b + k
  /\ Reads(b, r[2]) /\ Len(r[2]) = k

LEMMA NoBytes ==
  ASSUME NEW sector, NEW first, NEW b
  PROVE  Bytes(sector, first, 0) = <<>> /\ Reads(b, <<>>) /\ Len(<<>>) = 0
<1>1. Bytes(sector, first, 0) = <<>>
  BY DEF Bytes
<1> QED BY <1>1 DEF Reads

(* One read behind the other reads both. *)
LEMMA Joined ==
  ASSUME NEW b \in Int, NEW s, NEW t, Reads(b, s), Reads(b + Len(s), t)
  PROVE  Reads(b, s \o t) /\ Len(s \o t) = Len(s) + Len(t)
<1>1. s \in Seq(Int) /\ t \in Seq(Int) /\ Len(s) \in Nat /\ Len(t) \in Nat
  BY DEF Reads
<1>2. s \o t \in Seq(Int) /\ Len(s \o t) = Len(s) + Len(t)
  BY <1>1
<1>3. ASSUME NEW ix \in 1 .. Len(s) + Len(t)
      PROVE  (s \o t)[ix] = Place(b + ix - 1)
  <2>1. CASE ix <= Len(s)
    <3>1. ix \in 1 .. Len(s) /\ (s \o t)[ix] = s[ix]
      BY <1>1, <2>1
    <3> QED BY <3>1 DEF Reads
  <2>2. CASE ~(ix <= Len(s))
    <3>1. ix - Len(s) \in 1 .. Len(t) /\ (s \o t)[ix] = t[ix - Len(s)]
      BY <1>1, <2>2
    <3>2. t[ix - Len(s)] = Place(b + Len(s) + (ix - Len(s)) - 1)
      BY <3>1 DEF Reads
    <3>3. b + Len(s) + (ix - Len(s)) - 1 = b + ix - 1
      BY <1>1
    <3> QED BY <3>1, <3>2, <3>3
  <2> QED BY <2>1, <2>2
<1> QED BY <1>2, <1>3 DEF Reads

LEMMA BytesRead ==
  ASSUME FileOK, NEW sector \in Int, NEW first \in Int, NEW n \in Nat, NEW b \in Int,
         NEW q \in Nat, q < Len(chain), NEW r \in Nat, r + n <= bytesPerCluster,
         b = q * bytesPerCluster + r,
         sector * SECTOR + first = DataSector(chain[q + 1]) * SECTOR + r
  PROVE  Reads(b, Bytes(sector, first, n)) /\ Len(Bytes(sector, first, n)) = n
<1> DEFINE s == Bytes(sector, first, n)
           a == sector * SECTOR
           d == DataSector(chain[q + 1]) * SECTOR
           e == q * bytesPerCluster
<1>1. a \in Int /\ e \in Int /\ d \in Int
  <2>1. q + 1 \in 1 .. Len(chain)
    BY SizeIs
  <2>2. chain[q + 1] \in Int
    BY <2>1, ChainIs DEF FileOK
  <2>3. DataSector(chain[q + 1]) \in Int
    BY <2>2, SectorIs
  <2> QED BY <2>3, DiskIs
<1>2. s = [ix \in 1 .. n |-> a + first + ix - 1]
  BY DEF Bytes
<1>3. a + first = d + r /\ b = e + r
  OBVIOUS
<1> HIDE DEF s, a, d
<1>4. s \in Seq(Int) /\ Len(s) = n /\ \A ix \in 1 .. n : s[ix] = a + first + ix - 1
  BY <1>1, <1>2
<1>5. ASSUME NEW ix \in 1 .. n
      PROVE  s[ix] = Place(b + ix - 1)
  <2> DEFINE x == b + ix - 1
             o == r + ix - 1
  <2> HIDE DEF e
  <2>1. /\ x \in Int /\ o \in 0 .. bytesPerCluster - 1 /\ x = e + o
    BY <1>1, <1>3, DiskIs
  <2>2. Place(x) = d + o
    <3>1. x = q * bytesPerCluster + o
      BY <2>1 DEF e
    <3> HIDE DEF x, o
    <3>2. Place(x) = DataSector(chain[q + 1]) * SECTOR + o
      BY <2>1, <3>1, PlaceAt
    <3> QED BY <3>2 DEF d
  <2>3. s[ix] = a + first + ix - 1
    BY <1>4
  <2> DEFINE z == a + first
  <2>4. z \in Int /\ z = d + r
    BY <1>1, <1>3
  <2>5. a + first + ix - 1 = z + (ix - 1)
    BY <1>1
  <2>6. z + (ix - 1) = d + o
    <3>1. (d + r) + (ix - 1) = d + (r + (ix - 1))
      BY <1>1
    <3> QED BY <2>4, <3>1
  <2> QED BY <2>2, <2>3, <2>5, <2>6
<1> QED BY <1>4, <1>5 DEF Reads, s

(* Sectors from the beginning of one on, in a cluster and at its beginning *)
LEMMA SectorsRead ==
  ASSUME FileOK, NEW sector \in Int, NEW n \in Nat, NEW b \in Int,
         NEW q \in Nat, q < Len(chain), NEW r \in Nat, r + n <= bytesPerCluster,
         b = q * bytesPerCluster + r,
         sector * SECTOR = DataSector(chain[q + 1]) * SECTOR + r
  PROVE  Reads(b, Bytes(sector, 0, n)) /\ Len(Bytes(sector, 0, n)) = n
<1> DEFINE z == 0
<1>1. z \in Int /\ sector * SECTOR + z = DataSector(chain[q + 1]) * SECTOR + r
  BY DiskIs
<1> HIDE DEF z
<1>2. Reads(b, Bytes(sector, z, n)) /\ Len(Bytes(sector, z, n)) = n
  BY <1>1, BytesRead
<1> QED BY <1>2 DEF z

LEMMA ClusterRead ==
  ASSUME FileOK, NEW n \in Nat, n <= bytesPerCluster, NEW q \in Nat, q < Len(chain)
  PROVE  LET b == q * bytesPerCluster
             s == Bytes(DataSector(chain[q + 1]), 0, n)
         IN  Reads(b, s) /\ Len(s) = n
<1> DEFINE b == q * bytesPerCluster
           sector == DataSector(chain[q + 1])
           r == 0
<1>1. sector \in Int
  <2>1. q + 1 \in 1 .. Len(chain)
    BY SizeIs
  <2>2. chain[q + 1] \in Int
    BY <2>1, ChainIs DEF FileOK
  <2> QED BY <2>2, SectorIs
<1>2. b \in Int
  BY DiskIs
<1>3. r \in Nat /\ r + n <= bytesPerCluster
  OBVIOUS
<1>4. b = q * bytesPerCluster + r /\ sector * SECTOR = DataSector(chain[q + 1]) * SECTOR + r
  BY <1>1, DiskIs
<1> HIDE DEF b, sector, r
<1>5. Reads(b, Bytes(sector, 0, n)) /\ Len(Bytes(sector, 0, n)) = n
  BY <1>1, <1>2, <1>3, <1>4, SectorsRead
<1> QED BY <1>5 DEF b, sector

LEMMA DivExact ==
  ASSUME NEW d \in Nat, d >= 1, NEW q \in Int
  PROVE  (q * d) \div d = q /\ (q * d) % d = 0
<1> DEFINE x == q * d
           r == 0
<1>1. x \in Int /\ r \in 0 .. d - 1 /\ x = q * d + r
  OBVIOUS
<1> HIDE DEF x, r
<1>2. x \div d = q /\ x % d = r
  BY <1>1, DivUnique
<1> QED BY <1>2 DEF x, r

LEMMA DivSmall ==
  ASSUME NEW d \in Nat, d >= 1, NEW r \in 0 .. d - 1
  PROVE  r \div d = 0 /\ r % d = r
<1> DEFINE q == 0
<1>1. q \in Int /\ r \in Int /\ r = q * d + r
  OBVIOUS
<1> HIDE DEF q
<1>2. r \div d = q /\ r % d = r
  BY <1>1, DivUnique
<1> QED BY <1>2 DEF q

(* Up to the end of the sector *)
LEMMA InSectorReads ==
  ASSUME FileOK, gap = GapsFound, NEW f, At(f), NEW n \in Nat,
         n <= LeftInSector(f), f.seekBytes + n <= fileSize
  PROVE  Did(f.seekBytes, InSector(f, n), n)
<1> DEFINE x == f.seekBytes
           o == f.seekBytes % SECTOR
           s == f.seekSector * SECTOR
           B == Bytes(f.dataSector + f.seekSector, o, n)
<1>1. /\ x \in Nat /\ o \in 0 .. SECTOR - 1 /\ f.seekSector \in 0 .. sectorsPerCluster - 1
      /\ f.clusterCnt \in Nat /\ s + o \in 0 .. bytesPerCluster - 1
      /\ x = f.clusterCnt * bytesPerCluster + (s + o)
      /\ f.dataSector = DataSector(f.cluster) /\ f.dataSector \in Int
      /\ x < fileSize => f.clusterCnt < Len(chain) /\ f.cluster = chain[f.clusterCnt + 1]
  BY AtIs, Zenon
<1>2. At(SEEK_CUR(f, n)) /\ SEEK_CUR(f, n).seekBytes = x + n
  BY <1>1, SeekCurIs
<1>3. InSector(f, n) = <<SEEK_CUR(f, n), B>>
  BY DEF InSector
<1>4. CASE n = 0
  BY <1>2, <1>3, <1>4, NoBytes DEF Did
<1>5. CASE n # 0
  <2>1. x < fileSize
    BY <1>1, <1>5, SizeIs
  <2>2. s \in Nat
    <3>1. f.seekSector \in Nat
      BY <1>1, DiskIs
    <3> QED BY <3>1, DiskIs
  <2>3. n <= SECTOR - o
    BY DEF LeftInSector
  <2>4. s + SECTOR <= bytesPerCluster
    <3> DEFINE g == f.seekSector
    <3>1. g \in Int /\ sectorsPerCluster \in Int /\ g < sectorsPerCluster /\ SECTOR \in Nat
      BY <1>1, DiskIs
    <3> HIDE DEF g
    <3>2. g * SECTOR + SECTOR <= sectorsPerCluster * SECTOR
      BY <3>1, Below
    <3> QED BY <3>2, DiskIs DEF g
  <2> DEFINE r == s + o
  <2>5. r \in Nat /\ r + n <= bytesPerCluster
    <3> HIDE DEF s, o
    <3> QED BY <1>1, <2>2, <2>3, <2>4, DiskIs
  <2> DEFINE d == f.dataSector
             w == d + f.seekSector
  <2>6. w \in Int /\ o \in Int
    BY <1>1, DiskIs
  <2>7. w * SECTOR + o = d * SECTOR + r
    <3> DEFINE g == f.seekSector
    <3>1. g \in Int /\ d \in Int /\ o \in Int
      BY <1>1, DiskIs
    <3> HIDE DEF g, d, o
    <3>2. (d + g) * SECTOR + o = d * SECTOR + (g * SECTOR + o)
      BY <3>1, DiskIs
    <3> QED BY <3>2 DEF g, d, o
  <2>8. d = DataSector(chain[f.clusterCnt + 1]) /\ f.clusterCnt < Len(chain)
    BY <1>1, <2>1, Zenon
  <2>9. x = f.clusterCnt * bytesPerCluster + r
    BY <1>1
  <2>10. w * SECTOR + o = DataSector(chain[f.clusterCnt + 1]) * SECTOR + r
    BY <2>7, <2>8, Zenon
  <2>11. x \in Int /\ f.clusterCnt \in Nat
    BY <1>1
  <2>12. B = Bytes(w, o, n)
    OBVIOUS
  <2> HIDE DEF w, o, r, x, d, B
  <2>13. Reads(x, B) /\ Len(B) = n
    BY <2>5, <2>6, <2>8, <2>9, <2>10, <2>11, <2>12, BytesRead
  <2>14. InSector(f, n)[1] = SEEK_CUR(f, n) /\ InSector(f, n)[2] = B
    BY <1>3
  <2>15. Did(x, InSector(f, n), n)
    BY <1>2, <2>13, <2>14 DEF Did
  <2> QED BY <2>15 DEF x
<1> QED BY <1>4, <1>5

(* At most a cluster of sectors *)
LEMMA FileSectorsRead ==
  ASSUME FileOK, gap = GapsFound, NEW f, At(f), f.seekBytes % SECTOR = 0,
         NEW m \in Nat, m <= sectorsPerCluster, f.seekBytes + m * SECTOR <= fileSize
  PROVE  Did(f.seekBytes, readFileSectors(f, m), m * SECTOR)
<1> DEFINE x == f.seekBytes
           g == f.seekSector
           q == f.clusterCnt
           here == Least(m, sectorsPerCluster - (g % sectorsPerCluster))
           next == DataSector(getNClusterCache(f.cluster, 1))
           B == Bytes(DataSector(f.cluster) + g, 0, here * SECTOR)
           C == Bytes(next, 0, (m - here) * SECTOR)
           R == readFileSectors(f, m)
<1>1. /\ x \in Nat /\ g \in 0 .. sectorsPerCluster - 1 /\ q \in Nat
      /\ g * SECTOR + 0 \in 0 .. bytesPerCluster - 1
      /\ x = q * bytesPerCluster + (g * SECTOR + 0)
      /\ f.dataSector = DataSector(f.cluster) /\ f.dataSector \in Int
      /\ x < fileSize => q < Len(chain) /\ f.cluster = chain[q + 1]
  <2>1. /\ f.seekBytes \in Nat /\ f.seekSector \in 0 .. sectorsPerCluster - 1
        /\ f.clusterCnt \in Nat
        /\ f.seekSector * SECTOR + (f.seekBytes % SECTOR) \in 0 .. bytesPerCluster - 1
        /\ f.seekBytes = f.clusterCnt * bytesPerCluster
                           + (f.seekSector * SECTOR + (f.seekBytes % SECTOR))
        /\ f.dataSector = DataSector(f.cluster) /\ f.dataSector \in Int
        /\ f.seekBytes < fileSize =>
             f.clusterCnt < Len(chain) /\ f.cluster = chain[f.clusterCnt + 1]
    BY AtIs, Zenon
  <2>2. f.seekBytes % SECTOR = 0
    OBVIOUS
  <2> QED BY <2>1, <2>2, Zenon
<1>2. m * SECTOR \in Nat
  BY DiskIs
<1>3. At(SEEK_CUR(f, m * SECTOR)) /\ SEEK_CUR(f, m * SECTOR).seekBytes = x + m * SECTOR
  <2> DEFINE n == m * SECTOR
  <2>1. n \in Int /\ 0 <= x + n /\ x + n <= fileSize
    BY <1>1, <1>2
  <2> HIDE DEF n
  <2>2. At(SEEK_CUR(f, n)) /\ SEEK_CUR(f, n).seekBytes = x + n
    BY <2>1, SeekCurIs
  <2> QED BY <2>2 DEF n
<1>4. R = <<SEEK_CUR(f, m * SECTOR), B \o C>>
  BY DEF readFileSectors
<1>5. g % sectorsPerCluster = g
  <2> HIDE DEF g
  <2> QED BY <1>1, DiskIs, DivSmall
<1>6. /\ here \in Nat /\ here <= m /\ g + here <= sectorsPerCluster
      /\ here = m \/ here = sectorsPerCluster - g
      /\ m # 0 => here # 0
  <2>1. here = Least(m, sectorsPerCluster - g)
    BY <1>5
  <2> HIDE DEF here, g
  <2> QED BY <1>1, <2>1, DiskIs DEF Least
<1>a. here * SECTOR \in Nat /\ (m - here) * SECTOR \in Nat
      /\ here * SECTOR + (m - here) * SECTOR = m * SECTOR
  <2>1. here \in Nat /\ m - here \in Nat
    BY <1>6
  <2> HIDE DEF here
  <2>2. here * SECTOR \in Nat /\ (m - here) * SECTOR \in Nat
    BY <2>1, DiskIs
  <2>3. here * SECTOR + (m - here) * SECTOR = m * SECTOR
    BY <2>1, DiskIs
  <2> QED BY <2>2, <2>3
<1>7. CASE m = 0
  <2>1. here = 0 /\ here * SECTOR = 0 /\ (m - here) * SECTOR = 0 /\ m * SECTOR = 0
    BY <1>6, <1>7, DiskIs
  <2>2. B = <<>> /\ C = <<>>
    BY <2>1, NoBytes
  <2>3. B \o C = <<>>
    BY <2>2
  <2>4. Reads(x, <<>>) /\ Len(<<>>) = 0
    BY NoBytes
  <2>5. R[1] = SEEK_CUR(f, m * SECTOR) /\ R[2] = <<>>
    <3> HIDE DEF R, B, C
    <3> QED BY <1>4, <2>3
  <2> HIDE DEF R, x
  <2>6. Did(x, R, m * SECTOR)
    BY <1>3, <2>1, <2>4, <2>5 DEF Did
  <2> QED BY <2>6 DEF x, R
<1>8. CASE m # 0
  <2>1. x < fileSize
    <3>1. m * SECTOR >= 1
      <4>1. m * SECTOR = SECTOR + (m - 1) * SECTOR /\ (m - 1) * SECTOR \in Nat
        BY <1>8, DiskIs
      <4> QED BY <4>1, DiskIs
    <3> QED BY <1>1, <1>2, <3>1, SizeIs
  <2>2. q < Len(chain) /\ f.cluster = chain[q + 1]
    BY <1>1, <2>1
  <2>3. Reads(x, B) /\ Len(B) = here * SECTOR
    <3> DEFINE d == DataSector(f.cluster)
               w == d + g
               r == g * SECTOR
               n == here * SECTOR
    <3>1. w \in Int /\ g \in Int /\ d \in Int
      BY <1>1, DiskIs
    <3>2. r \in Nat
      <4>1. g \in Nat
        BY <1>1, DiskIs
      <4> HIDE DEF g
      <4> QED BY <4>1, DiskIs
    <3>3. n \in Nat
      BY <1>a
    <3>4. r + n <= bytesPerCluster
      <4> HIDE DEF here, g
      <4>1. r + n = (g + here) * SECTOR
        BY <1>6, <3>1, DiskIs
      <4>2. (g + here) * SECTOR <= sectorsPerCluster * SECTOR
        <5>1. (sectorsPerCluster - (g + here)) * SECTOR >= 0
          BY <1>6, <3>1, DiskIs
        <5>2. (sectorsPerCluster - (g + here)) * SECTOR
                = sectorsPerCluster * SECTOR - (g + here) * SECTOR
          BY <1>6, <3>1, DiskIs
        <5>3. (g + here) * SECTOR \in Int /\ sectorsPerCluster * SECTOR \in Int
          BY <1>6, <3>1, DiskIs
        <5> QED BY <5>1, <5>2, <5>3
      <4> QED BY <4>1, <4>2, DiskIs
    <3>5. x = q * bytesPerCluster + r
      BY <1>1, <3>2
    <3>6. w * SECTOR = d * SECTOR + r
      <4> HIDE DEF g, d
      <4>1. (d + g) * SECTOR = d * SECTOR + g * SECTOR /\ (d + g) * SECTOR \in Int
        BY <3>1, DiskIs
      <4> QED BY <4>1
    <3>7. w * SECTOR = DataSector(chain[q + 1]) * SECTOR + r
      BY <2>2, <3>6
    <3>8. B = Bytes(w, 0, n) /\ x \in Int /\ q \in Nat /\ q < Len(chain)
      BY <1>1, <2>2
    <3> HIDE DEF w, r, n, x, q, B
    <3>9. Reads(x, B) /\ Len(B) = n
      BY <3>1, <3>2, <3>3, <3>4, <3>5, <3>7, <3>8, SectorsRead
    <3> QED BY <3>9 DEF n
  <2>4. Reads(x + here * SECTOR, C) /\ Len(C) = (m - here) * SECTOR
    <3>1. CASE here = m
      <4>1. (m - here) * SECTOR = 0
        BY <3>1, DiskIs
      <4>2. C = <<>>
        BY <4>1, NoBytes
      <4> HIDE DEF here, C
      <4> QED BY <4>1, <4>2, NoBytes
    <3>2. CASE here # m
      <4> DEFINE n == (m - here) * SECTOR
                 y == x + here * SECTOR
      <4>1. here = sectorsPerCluster - g
        BY <1>6, <3>2
      <4>2. y = (q + 1) * bytesPerCluster
        <5>1. g * SECTOR + here * SECTOR = sectorsPerCluster * SECTOR
          <6>1. g \in Int
            BY <1>1
          <6> HIDE DEF g, here
          <6> QED BY <4>1, <6>1, DiskIs
        <5>2. (q + 1) * bytesPerCluster = q * bytesPerCluster + bytesPerCluster
          BY <1>1, DiskIs
        <5> DEFINE a == q * bytesPerCluster
                   b == g * SECTOR
                   e == here * SECTOR
        <5>3. /\ x = a + (b + 0) /\ b + e = bytesPerCluster
              /\ (q + 1) * bytesPerCluster = a + bytesPerCluster /\ y = x + e
          BY <1>1, <5>1, <5>2, DiskIs
        <5>4. a \in Int /\ b \in Int /\ e \in Int
          <6>1. q \in Int /\ g \in Int /\ here \in Int
            BY <1>1, <1>6
          <6> HIDE DEF q, g, here
          <6> QED BY <6>1, DiskIs
        <5> HIDE DEF a, b, e, x, y
        <5> QED BY <5>3, <5>4, DiskIs
      <4>3. n \in Nat /\ n >= 1 /\ n <= bytesPerCluster
        <5> DEFINE j == m - here
        <5>1. j \in Nat /\ j >= 1 /\ j <= sectorsPerCluster
          <6> HIDE DEF here
          <6> QED BY <1>6, <3>2, DiskIs
        <5> HIDE DEF j
        <5>2. j * SECTOR = SECTOR + (j - 1) * SECTOR /\ (j - 1) * SECTOR \in Nat
          BY <5>1, DiskIs
        <5>3. (sectorsPerCluster - j) * SECTOR >= 0
              /\ (sectorsPerCluster - j) * SECTOR = sectorsPerCluster * SECTOR - j * SECTOR
          BY <5>1, DiskIs
        <5>4. j * SECTOR \in Int /\ sectorsPerCluster * SECTOR \in Int
          BY <5>1, DiskIs
        <5> QED BY <5>2, <5>3, <5>4, DiskIs DEF j
      <4>4. y \in Nat /\ y + n <= fileSize
        <5> DEFINE h == here * SECTOR
                   l == m * SECTOR
        <5>1. h \in Nat /\ l \in Nat /\ h + n = l /\ x + l <= fileSize /\ y = x + h
          BY <1>2, <1>a
        <5> HIDE DEF h, l, n, y, x
        <5>2. x \in Nat
          BY <1>1
        <5> QED BY <4>3, <5>1, <5>2, SizeIs
      <4>5. q + 1 < Len(chain)
        <5>1. y \in 0 .. fileSize /\ y < fileSize
          BY <4>3, <4>4, SizeIs
        <5>2. y \div bytesPerCluster < Len(chain)
          <6> HIDE DEF y
          <6> QED BY <5>1, ClusterOf
        <5>3. q + 1 \in Int
          BY <1>1
        <5>4. y \div bytesPerCluster = q + 1
          <6> HIDE DEF y, q
          <6> QED BY <4>2, <5>3, DiskIs, DivExact
        <5> QED BY <5>2, <5>4
      <4>6. getNClusterCache(f.cluster, 1) = chain[q + 1 + 1]
        <5>1. q + 1 \in 1 .. Len(chain) /\ q + 1 + 1 <= Len(chain) /\ 1 \in Nat
              /\ q + 1 + 1 <= Len(chain) + 1
          BY <1>1, <4>5, SizeIs
        <5>2. getNClusterCache(chain[q + 1], 1) = chain[q + 1 + 1]
          <6> HIDE DEF q
          <6> QED BY <5>1, ClusterIs
        <5> QED BY <2>2, <5>2
      <4>7. next = DataSector(chain[q + 1 + 1]) /\ C = Bytes(next, 0, n)
        BY <4>6
      <4> DEFINE ix == q + 1
      <4>8. ix \in Nat /\ ix < Len(chain) /\ y = ix * bytesPerCluster
            /\ C = Bytes(DataSector(chain[ix + 1]), 0, n)
        BY <1>1, <4>2, <4>5, <4>7
      <4> HIDE DEF ix, y, n, C
      <4>9. Reads(y, C) /\ Len(C) = n
        BY <4>3, <4>8, ClusterRead
      <4> QED BY <4>9 DEF y, n
    <3> QED BY <3>1, <3>2
  <2> DEFINE h == here * SECTOR
             j == (m - here) * SECTOR
             n == m * SECTOR
  <2>5. /\ x \in Int /\ Reads(x, B) /\ Len(B) = h /\ Reads(x + h, C) /\ Len(C) = j
        /\ h + j = n
    BY <1>1, <1>a, <2>3, <2>4
  <2>6. R[1] = SEEK_CUR(f, n) /\ R[2] = B \o C /\ At(SEEK_CUR(f, n))
        /\ SEEK_CUR(f, n).seekBytes = x + n
    <3> HIDE DEF B, C, R
    <3> QED BY <1>3, <1>4
  <2> HIDE DEF h, j, n, B, C, R, x
  <2>7. Reads(x, B \o C) /\ Len(B \o C) = n
    BY <2>5, Joined
  <2>8. Did(x, R, n)
    BY <2>6, <2>7 DEF Did
  <2> QED BY <2>8 DEF x, R, n
<1> QED BY <1>7, <1>8

LEMMA ThenDid ==
  ASSUME NEW b \in Int, NEW r, NEW s, NEW j \in Nat, NEW k \in Nat,
         Did(b, r, j), Did(b + j, s, k)
  PROVE  Did(b, Then(r, s), j + k)
<1>1. /\ Reads(b, r[2]) /\ Len(r[2]) = j /\ Reads(b + j, s[2]) /\ Len(s[2]) = k
      /\ At(s[1]) /\ s[1].seekBytes = (b + j) + k
  BY DEF Did
<1>2. Reads(b, r[2] \o s[2]) /\ Len(r[2] \o s[2]) = j + k
  BY <1>1, Joined
<1>3. Then(r, s)[1] = s[1] /\ Then(r, s)[2] = r[2] \o s[2]
  BY DEF Then
<1>4. (b + j) + k = b + (j + k)
  OBVIOUS
<1> QED BY <1>1, <1>2, <1>3, <1>4 DEF Did

(* The whole clusters of a read, one after the other *)
Cluster(r) == Then(r, readFileSectors(r[1], sectorsPerCluster))

Clusters(head, cnt) ==
  CHOOSE c : c = [k \in 0 .. cnt |-> IF k = 0 THEN head ELSE Cluster(c[k - 1])]

LEMMA ClustersExist ==
  ASSUME NEW head, NEW cnt \in Nat
  PROVE  \E c : c = [k \in 0 .. cnt |-> IF k = 0 THEN head ELSE Cluster(c[k - 1])]
<1> DEFINE Has(n) == \E c : c = [k \in 0 .. n |-> IF k = 0 THEN head ELSE Cluster(c[k - 1])]
           T == {n \in Nat : ~Has(n)}
<1>1. SUFFICES T = {}
  <2> HIDE DEF Has
  <2>1. T = {} => Has(cnt)
    OBVIOUS
  <2> QED BY <2>1 DEF Has
<1>2. SUFFICES ASSUME T # {} PROVE FALSE
  OBVIOUS
<1>3. PICK n \in T : \A m \in T : n <= m
  <2> HIDE DEF Has
  <2> QED BY <1>2, LeastNat
<1>4. n \in Nat /\ ~Has(n)
  BY <1>3
<1>5. CASE n = 0
  <2> DEFINE c == [k \in 0 .. n |-> head]
  <2>1. \A k \in 0 .. n : (IF k = 0 THEN head ELSE Cluster(c[k - 1])) = head
    BY <1>5
  <2>2. c = [k \in 0 .. n |-> IF k = 0 THEN head ELSE Cluster(c[k - 1])]
    BY <2>1
  <2> QED BY <1>4, <2>2
<1>6. CASE n # 0
  <2>1. n - 1 \in Nat /\ n - 1 \notin T
    BY <1>3, <1>4, <1>6
  <2>2. Has(n - 1)
    <3> HIDE DEF Has
    <3> QED BY <2>1
  <2>3. PICK c : c = [k \in 0 .. n - 1 |-> IF k = 0 THEN head ELSE Cluster(c[k - 1])]
    BY <2>2
  <2>4. \A k \in 0 .. n - 1 : c[k] = IF k = 0 THEN head ELSE Cluster(c[k - 1])
    BY <2>3
  <2> DEFINE d == [k \in 0 .. n |-> IF k = n THEN Cluster(c[n - 1]) ELSE c[k]]
             e == [k \in 0 .. n |-> IF k = 0 THEN head ELSE Cluster(d[k - 1])]
  <2>5. ASSUME NEW k \in 0 .. n
        PROVE  d[k] = e[k]
    <3>1. k \in Int /\ d[k] = (IF k = n THEN Cluster(c[n - 1]) ELSE c[k])
          /\ e[k] = (IF k = 0 THEN head ELSE Cluster(d[k - 1]))
      BY <1>4
    <3>2. k # 0 => d[k - 1] = c[k - 1]
      <4>1. SUFFICES ASSUME k # 0 PROVE d[k - 1] = c[k - 1]
        OBVIOUS
      <4>2. k - 1 \in 0 .. n /\ k - 1 # n
        BY <1>4, <3>1, <4>1
      <4> QED BY <4>2
    <3> HIDE DEF d, e
    <3>3. CASE k = n
      BY <1>6, <3>1, <3>2, <3>3
    <3>4. CASE k # n
      <4>1. k \in 0 .. n - 1
        BY <1>4, <3>1, <3>4
      <4>2. c[k] = IF k = 0 THEN head ELSE Cluster(c[k - 1])
        BY <2>4, <4>1
      <4> QED BY <3>1, <3>2, <3>4, <4>2
    <3> QED BY <3>3, <3>4
  <2>6. d = e
    <3>1. d = [k \in 0 .. n |-> d[k]] /\ e = [k \in 0 .. n |-> e[k]]
      OBVIOUS
    <3> HIDE DEF d, e
    <3>2. [k \in 0 .. n |-> d[k]] = [k \in 0 .. n |-> e[k]]
      BY <2>5
    <3> QED BY <3>1, <3>2
  <2>7. d = [k \in 0 .. n |-> IF k = 0 THEN head ELSE Cluster(d[k - 1])]
    <3> HIDE DEF d
    <3> QED BY <2>6
  <2> HIDE DEF d
  <2>8. Has(n)
    BY <2>7
  <2> QED BY <1>4, <2>8
<1> QED BY <1>5, <1>6

LEMMA ClustersAre ==
  ASSUME NEW head, NEW cnt \in Nat
  PROVE  /\ Clusters(head, cnt)[0] = head
         /\ \A k \in 1 .. cnt :
              Clusters(head, cnt)[k] = Cluster(Clusters(head, cnt)[k - 1])
<1> DEFINE c == Clusters(head, cnt)
<1>1. c = [k \in 0 .. cnt |-> IF k = 0 THEN head ELSE Cluster(c[k - 1])]
  BY ClustersExist DEF Clusters
<1> HIDE DEF c
<1>2. \A k \in 0 .. cnt : c[k] = IF k = 0 THEN head ELSE Cluster(c[k - 1])
  BY <1>1
<1>3. c[0] = head /\ \A k \in 1 .. cnt : c[k] = Cluster(c[k - 1])
  BY <1>2
<1> QED BY <1>3 DEF c

LEMMA Aligned ==
  ASSUME NEW x \in Int, x % SECTOR = 0, NEW m \in Int
  PROVE  (x + m * SECTOR) % SECTOR = 0
<1> DEFINE q == x \div SECTOR
<1>1. q \in Int /\ x = q * SECTOR + (x % SECTOR)
  BY DiskIs, QuotientIs
<1> HIDE DEF q
<1>2. x = q * SECTOR
  BY <1>1, DiskIs
<1> DEFINE p == q + m
<1>3. x + m * SECTOR = p * SECTOR /\ p \in Int
  BY <1>1, <1>2, DiskIs
<1> HIDE DEF p
<1>4. (p * SECTOR) % SECTOR = 0
  BY <1>3, DiskIs, DivExact
<1> QED BY <1>3, <1>4

LEMMA ClustersDid ==
  ASSUME FileOK, gap = GapsFound, NEW b \in Nat, NEW head, NEW j \in Nat,
         Did(b, head, j), (b + j) % SECTOR = 0, NEW cnt \in Nat,
         b + j + cnt * bytesPerCluster <= fileSize
  PROVE  Did(b, Clusters(head, cnt)[cnt], j + cnt * bytesPerCluster)
<1> DEFINE c == Clusters(head, cnt)
           T == {k \in Nat : k <= cnt /\ ~Did(b, c[k], j + k * bytesPerCluster)}
<1>1. c[0] = head /\ \A k \in 1 .. cnt : c[k] = Cluster(c[k - 1])
  BY ClustersAre
<1>2. T = {}
  <2>1. SUFFICES ASSUME T # {} PROVE FALSE
    OBVIOUS
  <2> HIDE DEF c
  <2>2. PICK k \in T : \A m \in T : k <= m
    BY <2>1, LeastNat
  <2>3. k \in Nat /\ k <= cnt /\ ~Did(b, c[k], j + k * bytesPerCluster)
    BY <2>2
  <2>4. k # 0
    <3>1. SUFFICES ASSUME k = 0 PROVE FALSE
      OBVIOUS
    <3>2. j + k * bytesPerCluster = j
      BY <3>1, DiskIs
    <3> QED BY <1>1, <2>3, <3>1, <3>2
  <2>5. k - 1 \in Nat /\ k - 1 <= cnt /\ k \in 1 .. cnt
    BY <2>3, <2>4
  <2> DEFINE ix == k - 1
             n == j + ix * bytesPerCluster
  <2>6. Did(b, c[ix], n)
    <3>1. ix \notin T
      BY <2>2, <2>3, <2>5
    <3> QED BY <2>5, <3>1
  <2>7. ix \in Nat /\ ix + 1 = k
    BY <2>5
  <2> HIDE DEF ix
  <2>8. ix * bytesPerCluster \in Nat /\ n \in Nat
    BY <2>7, DiskIs
  <2>9. n + bytesPerCluster = j + k * bytesPerCluster
    <3>1. (ix + 1) * bytesPerCluster = ix * bytesPerCluster + bytesPerCluster
      BY <2>7, DiskIs
    <3> QED BY <2>7, <2>8, <3>1, DiskIs
  <2>10. b + n + bytesPerCluster <= fileSize
    <3>1. (cnt - k) * bytesPerCluster >= 0
          /\ (cnt - k) * bytesPerCluster = cnt * bytesPerCluster - k * bytesPerCluster
      BY <2>3, DiskIs
    <3>2. cnt * bytesPerCluster \in Int /\ k * bytesPerCluster \in Int
      BY <2>3, DiskIs
    <3> DEFINE u == cnt * bytesPerCluster
               v == k * bytesPerCluster
    <3>3. u \in Int /\ v \in Int /\ v <= u /\ b + j + u <= fileSize
          /\ n + bytesPerCluster = j + v
      BY <2>9, <3>1, <3>2
    <3> HIDE DEF u, v, n
    <3> QED BY <2>8, <3>3, DiskIs, SizeIs
  <2> DEFINE f == c[ix][1]
  <2>11. At(f) /\ f.seekBytes = b + n
    BY <2>6 DEF Did
  <2>12. (b + n) % SECTOR = 0
    <3> DEFINE m == ix * sectorsPerCluster
    <3>1. m \in Int /\ m * SECTOR = ix * bytesPerCluster
      BY <2>7, DiskIs
    <3> HIDE DEF m
    <3>2. ((b + j) + m * SECTOR) % SECTOR = 0
      BY <3>1, Aligned
    <3>3. (b + j) + m * SECTOR = b + n
      BY <2>8, <3>1
    <3> QED BY <3>2, <3>3
  <2> HIDE DEF f, n
  <2>13. Did(f.seekBytes, readFileSectors(f, sectorsPerCluster), sectorsPerCluster * SECTOR)
    <3>1. /\ f.seekBytes % SECTOR = 0
          /\ f.seekBytes + sectorsPerCluster * SECTOR <= fileSize
      BY <2>10, <2>11, <2>12, DiskIs
    <3>2. sectorsPerCluster \in Nat /\ sectorsPerCluster <= sectorsPerCluster
      BY DiskIs
    <3> QED BY <2>11, <3>1, <3>2, FileSectorsRead
  <2>14. Did(b + n, readFileSectors(f, sectorsPerCluster), bytesPerCluster)
    BY <2>11, <2>13, DiskIs
  <2>15. Did(b, Then(c[ix], readFileSectors(f, sectorsPerCluster)), n + bytesPerCluster)
    BY <2>6, <2>8, <2>14, DiskIs, ThenDid
  <2>16. c[k] = Then(c[ix], readFileSectors(f, sectorsPerCluster))
    BY <1>1, <2>5 DEF Cluster, f, ix
  <2> QED BY <2>3, <2>9, <2>15, <2>16
<1>3. cnt \notin T
  BY <1>2
<1> HIDE DEF c
<1>4. Did(b, c[cnt], j + cnt * bytesPerCluster)
  BY <1>3
<1> QED BY <1>4 DEF c

LEMMA WholeDid ==
  ASSUME FileOK, gap = GapsFound, NEW b \in Nat, NEW head, NEW j \in Nat,
         Did(b, head, j), (b + j) % SECTOR = 0,
         NEW n \in Nat, j <= n, b + n <= fileSize
  PROVE  Did(b, Whole(head, n), n)
<1> DEFINE cnt == (n - j) \div bytesPerCluster
           rest == (n - j) % bytesPerCluster
           m == rest \div SECTOR
           o == rest % SECTOR
           cl == Clusters(head, cnt)[cnt]
           sectors == Then(cl, readFileSectors(cl[1], m))
           k == j + cnt * bytesPerCluster
           l == k + m * SECTOR
<1>1. n - j \in Nat /\ b \in Int /\ j \in Int /\ n \in Int /\ fileSize \in Nat
  BY SizeIs
<1>2. cnt \in Nat /\ rest \in 0 .. bytesPerCluster - 1 /\ n - j = cnt * bytesPerCluster + rest
  BY <1>1, PartsOf
<1>3. Len(head[2]) = j
  BY DEF Did
<1>4. Whole(head, n) = IF o = 0 THEN sectors ELSE Then(sectors, InSector(sectors[1], o))
  BY <1>3 DEF Whole, Clusters, Cluster
<1> HIDE DEF cnt, rest
<1>5. m \in Nat /\ o \in 0 .. SECTOR - 1 /\ rest = m * SECTOR + o /\ m <= sectorsPerCluster
      /\ m * SECTOR \in Nat
  <2>1. rest \in Int /\ rest >= 0 /\ rest < bytesPerCluster
    BY <1>2, DiskIs
  <2>2. m \in Int /\ o \in 0 .. SECTOR - 1 /\ rest = m * SECTOR + o
    BY <2>1, DiskIs, QuotientIs
  <2> HIDE DEF m, o
  <2>3. m * SECTOR \in Int
    BY <2>2, DiskIs
  <2>4. ~(m < 0)
    <3>1. SUFFICES ASSUME m < 0 PROVE FALSE
      OBVIOUS
    <3>2. m * SECTOR + SECTOR <= 0 * SECTOR
      BY <2>2, <3>1, DiskIs, Below
    <3>3. 0 * SECTOR = 0
      BY DiskIs
    <3> QED BY <2>1, <2>2, <2>3, <3>2, <3>3, DiskIs
  <2>5. ~(sectorsPerCluster < m)
    <3>1. SUFFICES ASSUME sectorsPerCluster < m PROVE FALSE
      OBVIOUS
    <3>2. sectorsPerCluster * SECTOR + SECTOR <= m * SECTOR
      BY <2>2, <3>1, DiskIs, Below
    <3>3. bytesPerCluster + SECTOR <= m * SECTOR
      BY <3>2, DiskIs
    <3> QED BY <2>1, <2>2, <2>3, <3>3, DiskIs
  <2>6. m \in Nat /\ m <= sectorsPerCluster
    BY <2>2, <2>4, <2>5, DiskIs
  <2>7. m * SECTOR \in Nat
    BY <2>6, DiskIs
  <2> QED BY <2>2, <2>6, <2>7
<1> HIDE DEF m, o
<1>6. cnt * bytesPerCluster \in Nat /\ k \in Nat /\ l \in Nat /\ n = l + o /\ k = j + cnt * bytesPerCluster
      /\ l = k + m * SECTOR
  <2>1. cnt * bytesPerCluster \in Nat
    BY <1>2, DiskIs
  <2> DEFINE u == cnt * bytesPerCluster
             v == m * SECTOR
  <2>2. u \in Nat /\ v \in Nat /\ n - j = u + rest /\ rest = v + o /\ o \in Int /\ rest \in Int
    BY <2>1, <1>2, <1>5, DiskIs
  <2>3. k = j + u /\ l = (j + u) + v
    OBVIOUS
  <2> HIDE DEF u, v, k, l
  <2>4. k \in Nat /\ l \in Nat /\ n = l + o
    BY <2>2, <2>3, <1>1
  <2> QED BY <2>1, <2>4 DEF k, l
<1>7. o \in Nat /\ l <= n /\ k + m * SECTOR <= n /\ k <= n
  BY <1>5, <1>6, DiskIs
<1> HIDE DEF k, l
<1>8. Did(b, cl, k)
  <2>1. b + j + cnt * bytesPerCluster <= fileSize
    <3>1. b + j + cnt * bytesPerCluster = b + k
      BY <1>6
    <3> QED BY <1>1, <1>6, <1>7, <3>1
  <2>2. Did(b, Clusters(head, cnt)[cnt], j + cnt * bytesPerCluster)
    BY <1>2, <2>1, ClustersDid
  <2> QED BY <2>2 DEF k
<1> HIDE DEF cl
<1>9. At(cl[1]) /\ cl[1].seekBytes = b + k /\ (b + k) % SECTOR = 0
  <2> DEFINE ix == cnt * sectorsPerCluster
  <2>1. ix \in Int /\ ix * SECTOR = cnt * bytesPerCluster
    BY <1>2, DiskIs
  <2> HIDE DEF ix
  <2>2. ((b + j) + ix * SECTOR) % SECTOR = 0
    BY <2>1, <1>1, Aligned
  <2>3. (b + j) + ix * SECTOR = b + k
    BY <1>6, <2>1
  <2> QED BY <1>8, <2>2, <2>3 DEF Did
<1>10. Did(b + k, readFileSectors(cl[1], m), m * SECTOR)
  <2> DEFINE f == cl[1]
  <2>1. At(f) /\ f.seekBytes = b + k /\ f.seekBytes % SECTOR = 0
        /\ f.seekBytes + m * SECTOR <= fileSize
    BY <1>1, <1>5, <1>6, <1>7, <1>9
  <2> HIDE DEF f
  <2>2. Did(f.seekBytes, readFileSectors(f, m), m * SECTOR)
    BY <1>5, <2>1, FileSectorsRead
  <2> QED BY <2>1, <2>2 DEF f
<1>11. Did(b, sectors, l)
  <2> DEFINE w == m * SECTOR
  <2>1. w \in Nat /\ Did(b + k, readFileSectors(cl[1], m), w) /\ k + w = l
    BY <1>5, <1>6, <1>10
  <2> HIDE DEF w
  <2>2. Did(b, sectors, k + w)
    BY <1>1, <1>6, <1>8, <2>1, ThenDid
  <2> QED BY <2>1, <2>2
<1> HIDE DEF sectors
<1>12. CASE o = 0
  BY <1>4, <1>6, <1>11, <1>12
<1>13. CASE o # 0
  <2> DEFINE f == sectors[1]
  <2>1. At(f) /\ f.seekBytes = b + l
    BY <1>11 DEF Did
  <2>2. (b + l) % SECTOR = 0
    <3>1. ((b + k) + m * SECTOR) % SECTOR = 0
      BY <1>1, <1>5, <1>6, <1>9, Aligned
    <3>2. (b + k) + m * SECTOR = b + l
      BY <1>5, <1>6
    <3> QED BY <3>1, <3>2
  <2> HIDE DEF f
  <2>3. o <= LeftInSector(f) /\ f.seekBytes + o <= fileSize
    <3>1. LeftInSector(f) = SECTOR - 0
      BY <2>1, <2>2 DEF LeftInSector
    <3> QED BY <1>1, <1>5, <1>6, <2>1, <3>1, DiskIs
  <2>4. Did(f.seekBytes, InSector(f, o), o)
    BY <1>7, <2>1, <2>3, InSectorReads
  <2>5. Did(b, Then(sectors, InSector(f, o)), l + o)
    BY <1>1, <1>6, <1>7, <1>11, <2>1, <2>4, ThenDid
  <2> QED BY <1>4, <1>6, <1>13, <2>5 DEF f
<1> QED BY <1>12, <1>13

LEMMA ManySectorsDid ==
  ASSUME FileOK, gap = GapsFound, NEW f, At(f), NEW n \in Nat,
         n > SECTOR, f.seekBytes + n <= fileSize
  PROVE  Did(f.seekBytes, ManySectors(f, n), n)
<1> DEFINE b == f.seekBytes
           o == b % SECTOR
           j == LeftInSector(f)
<1>1. b \in Nat /\ o \in 0 .. SECTOR - 1 /\ fileSize \in Nat
  BY AtIs, SizeIs
<1>2. j = SECTOR - o /\ j \in Nat /\ j <= SECTOR /\ j <= n
  <2>1. j = SECTOR - o
    BY DEF LeftInSector
  <2> HIDE DEF j, o
  <2> QED BY <1>1, <2>1, DiskIs
<1>3. CASE j = SECTOR
  <2> DEFINE head == <<f, <<>>>>
  <2>1. ManySectors(f, n) = Whole(head, n)
    BY <1>3 DEF ManySectors
  <2>2. Did(b, head, 0)
    <3>1. b + 0 = b
      BY <1>1
    <3> QED BY <3>1, NoBytes DEF Did
  <2>3. (b + 0) % SECTOR = 0
    <3>1. o = 0
      <4> HIDE DEF o, j
      <4> QED BY <1>1, <1>2, <1>3, DiskIs
    <3>2. b + 0 = b
      BY <1>1
    <3> QED BY <3>1, <3>2
  <2> HIDE DEF head, b
  <2>4. 0 \in Nat /\ 0 <= n /\ b + n <= fileSize
    BY DEF b
  <2>5. Did(b, Whole(head, n), n)
    BY <1>1, <2>2, <2>3, <2>4, WholeDid
  <2> QED BY <2>1, <2>5 DEF b
<1>4. CASE j # SECTOR
  <2> DEFINE head == InSector(f, j)
  <2>1. ManySectors(f, n) = Whole(head, n)
    BY <1>4 DEF ManySectors
  <2>2. b + j <= fileSize
    <3> HIDE DEF j
    <3> QED BY <1>1, <1>2
  <2>3. Did(b, head, j)
    BY <1>1, <1>2, <2>2, InSectorReads
  <2>4. (b + j) % SECTOR = 0
    <3> DEFINE q == b \div SECTOR
    <3>0. b \in Int /\ SECTOR \in Nat /\ SECTOR >= 1
      BY <1>1, DiskIs
    <3> HIDE DEF b
    <3>1. q \in Int /\ b = q * SECTOR + o
      BY <3>0, QuotientIs
    <3> HIDE DEF q, o, j
    <3>2. b + j = (q + 1) * SECTOR
      <4>1. (q + 1) * SECTOR = q * SECTOR + SECTOR /\ q * SECTOR \in Int
        BY <3>1, DiskIs
      <4> QED BY <1>1, <1>2, <3>1, <4>1, DiskIs
    <3> DEFINE p == q + 1
    <3>3. p \in Int /\ b + j = p * SECTOR
      BY <3>1, <3>2
    <3> HIDE DEF p
    <3>4. (p * SECTOR) % SECTOR = 0
      BY <3>3, DiskIs, DivExact
    <3> QED BY <3>3, <3>4
  <2> HIDE DEF head, j
  <2>5. Did(b, Whole(head, n), n)
    BY <1>1, <1>2, <2>3, <2>4, WholeDid
  <2> QED BY <2>1, <2>5
<1> QED BY <1>3, <1>4

(* Two sectors.  The bytes of the second are those of the file, but for a  *)
(* gap behind the cluster of the first.                                    *)
LEMMA TwoSectorsRead ==
  ASSUME FileOK, gap = GapsFound, NEW f, At(f), NEW n \in Nat,
         n > LeftInSector(f), n <= SECTOR, f.seekBytes + n <= fileSize
  PROVE  LET r == TwoSectors(f, n)
             b == f.seekBytes
             c == b \div bytesPerCluster + 1
         IN  /\ At(r[1]) /\ r[1].seekBytes = b + n /\ Len(r[2]) = n
             /\ Reads(b, r[2]) \/ ((b + n - 1) \div bytesPerCluster = c /\ Breaks(c))
<1> DEFINE r == TwoSectors(f, n)
           b == f.seekBytes
           o == b % SECTOR
           g == f.seekSector
           q == f.clusterCnt
           j == LeftInSector(f)
           ix == n - j
           second == f.dataSector + g + 1
           A == InSector(f, j)[2]
           C == Bytes(second, 0, ix)
           d == f.dataSector
           s == g * SECTOR
           e == q * bytesPerCluster
<1>1. /\ b \in Nat /\ o \in 0 .. SECTOR - 1 /\ g \in 0 .. sectorsPerCluster - 1
      /\ q \in Nat
      /\ b = e + (s + o)
      /\ d = DataSector(f.cluster) /\ d \in Int
      /\ b < fileSize => q < Len(chain) /\ f.cluster = chain[q + 1]
  <2>1. /\ f.seekBytes \in Nat /\ f.seekBytes % SECTOR \in 0 .. SECTOR - 1
        /\ f.seekSector \in 0 .. sectorsPerCluster - 1
        /\ f.clusterCnt \in Nat
        /\ f.seekBytes = f.clusterCnt * bytesPerCluster
                           + (f.seekSector * SECTOR + (f.seekBytes % SECTOR))
        /\ f.dataSector = DataSector(f.cluster) /\ f.dataSector \in Int
        /\ f.seekBytes < fileSize =>
             f.clusterCnt < Len(chain) /\ f.cluster = chain[f.clusterCnt + 1]
    BY AtIs, Zenon
  <2> QED BY <2>1, Zenon
<1>2. q = b \div bytesPerCluster
  BY DEF At
<1>3. j = SECTOR - o /\ j \in Nat /\ ix \in Nat /\ ix >= 1 /\ ix <= SECTOR /\ j + ix = n
  <2>1. j = SECTOR - o
    BY DEF LeftInSector
  <2>2. n > j /\ n <= SECTOR
    OBVIOUS
  <2> HIDE DEF j, o
  <2> QED BY <1>1, <2>1, <2>2, DiskIs
<1>4. r = <<SEEK_CUR(f, n), A \o C>>
  <2>1. ~(f.seekSector + 1 > sectorsPerCluster)
    BY <1>1, DiskIs
  <2>2. TwoSectors(f, n) = <<SEEK_CUR(f, n), InSector(f, LeftInSector(f))[2]
           \o Bytes(f.dataSector + f.seekSector + 1, 0, n - LeftInSector(f))>>
    BY <2>1 DEF TwoSectors
  <2> QED BY <2>2
<1>5. b + n <= fileSize /\ fileSize \in Nat /\ b < fileSize /\ b + j <= fileSize /\ b + j < fileSize
  <2>1. b + n <= fileSize
    OBVIOUS
  <2> HIDE DEF b, j, ix
  <2> QED BY <1>1, <1>3, <2>1, SizeIs
<1>6. At(SEEK_CUR(f, n)) /\ SEEK_CUR(f, n).seekBytes = b + n
  BY <1>1, <1>5, SeekCurIs
<1>7. Reads(b, A) /\ Len(A) = j
  <2>1. j <= LeftInSector(f)
    BY <1>3
  <2>2. Did(b, InSector(f, j), j)
    <3>1. f.seekBytes + j <= fileSize
      BY <1>5
    <3> HIDE DEF j
    <3> QED BY <1>3, <2>1, <3>1, InSectorReads
  <2> QED BY <2>2 DEF Did
<1>8. C \in Seq(Int) /\ Len(C) = ix
  <2>1. second \in Int
    BY <1>1, DiskIs
  <2> HIDE DEF second, ix
  <2>2. second * SECTOR \in Int
    BY <2>1, DiskIs
  <2> DEFINE w == second * SECTOR
  <2>3. w \in Int /\ C = [x \in 1 .. ix |-> w + 0 + x - 1]
    BY <2>2 DEF Bytes
  <2> HIDE DEF w, C
  <2> QED BY <1>3, <2>3
<1>9. Len(A \o C) = n
  <2>1. A \in Seq(Int)
    BY <1>7 DEF Reads
  <2> HIDE DEF A, C, j, ix
  <2>2. Len(A \o C) = Len(A) + Len(C)
    BY <1>8, <2>1
  <2> QED BY <1>3, <1>7, <1>8, <2>2
<1>10. s \in Nat /\ e \in Nat /\ s + SECTOR = (g + 1) * SECTOR /\ b + j = e + (g + 1) * SECTOR
  <2>1. g \in Nat
    BY <1>1, DiskIs
  <2> HIDE DEF g, q
  <2>2. s \in Nat /\ e \in Nat
    BY <1>1, <2>1, DiskIs
  <2>3. s + SECTOR = (g + 1) * SECTOR
    BY <2>1, DiskIs
  <2> DEFINE t == (g + 1) * SECTOR
  <2>4. s + SECTOR = t
    BY <2>3
  <2> HIDE DEF s, e, t, j, o, b
  <2>5. b + j = e + t
    BY <1>1, <1>3, <2>2, <2>4, DiskIs
  <2> QED BY <2>2, <2>3, <2>5 DEF t
<1>11. ASSUME Reads(b + j, C)
       PROVE  Reads(b, A \o C)
  <2> HIDE DEF A, C, j, b
  <2> QED BY <1>1, <1>7, <1>11, Joined
<1>12. ASSUME g + 1 # sectorsPerCluster
       PROVE  Reads(b + j, C)
  <2> DEFINE t == (g + 1) * SECTOR
             y == b + j
  <2>1. t \in Nat /\ y = e + t /\ y \in Int
    <3>1. s + SECTOR \in Nat
      BY <1>10, DiskIs
    <3> QED BY <1>1, <1>3, <1>10, <3>1
  <2>2. t + ix <= bytesPerCluster
    <3>1. g + 1 \in Int /\ g + 1 < sectorsPerCluster
      <4>1. g \in 0 .. sectorsPerCluster - 1 /\ g + 1 # sectorsPerCluster
        BY <1>1, <1>12
      <4> HIDE DEF g
      <4> QED BY <4>1, DiskIs
    <3> DEFINE h == g + 1
    <3> HIDE DEF h
    <3>2. h * SECTOR + SECTOR <= sectorsPerCluster * SECTOR
      BY <3>1, DiskIs, Below DEF h
    <3>3. t + SECTOR <= bytesPerCluster
      BY <3>2, DiskIs DEF h
    <3> HIDE DEF t, ix
    <3> QED BY <1>3, <2>1, <3>3, DiskIs
  <2>3. second * SECTOR = DataSector(chain[q + 1]) * SECTOR + t
    <3>1. d = DataSector(chain[q + 1])
      BY <1>1, <1>5
    <3>2. second = d + (g + 1)
      BY <1>1, DiskIs
    <3> DEFINE h == g + 1
    <3>3. h \in Int /\ d \in Int
      BY <1>1, DiskIs
    <3> HIDE DEF h, d
    <3>4. (d + h) * SECTOR = d * SECTOR + h * SECTOR
      BY <3>3, DiskIs
    <3>5. second * SECTOR = d * SECTOR + t
      BY <3>2, <3>4 DEF h
    <3> QED BY <3>1, <3>5
  <2>4. second \in Int /\ q < Len(chain)
    BY <1>1, <1>5, DiskIs
  <2>5. y = q * bytesPerCluster + t
    BY <2>1
  <2> HIDE DEF second, t, y, ix, q
  <2>6. Reads(y, C)
    BY <1>1, <1>3, <2>1, <2>2, <2>3, <2>4, <2>5, SectorsRead
  <2> QED BY <2>6 DEF y
<1>13. ASSUME g + 1 = sectorsPerCluster
       PROVE  Reads(b + j, C) \/ ((b + n - 1) \div bytesPerCluster = q + 1 /\ Breaks(q + 1))
  <2> DEFINE y == b + j
             p == q + 1
  <2>1. y = p * bytesPerCluster /\ p \in Nat /\ y \in Nat
    <3>1. (q + 1) * bytesPerCluster = e + bytesPerCluster
      <4>1. q \in Int
        BY <1>1
      <4> HIDE DEF q
      <4> QED BY <4>1, DiskIs
    <3>2. (g + 1) * SECTOR = bytesPerCluster
      BY <1>13, DiskIs
    <3>3. y = e + bytesPerCluster
      BY <1>10, <3>2
    <3> QED BY <1>1, <1>3, <3>1, <3>3
  <2>2. p < Len(chain) /\ y \in 0 .. fileSize
    <3>1. y \in 0 .. fileSize /\ y < fileSize
      BY <1>5, <2>1
    <3>2. y \div bytesPerCluster < Len(chain)
      <4> HIDE DEF y
      <4> QED BY <3>1, ClusterOf
    <3>3. (p * bytesPerCluster) \div bytesPerCluster = p
      <4>1. p \in Int
        BY <2>1
      <4> HIDE DEF p
      <4> QED BY <4>1, DiskIs, DivExact
    <3> QED BY <2>1, <3>1, <3>2, <3>3
  <2>3. CASE Breaks(p)
    <3> DEFINE v == ix - 1
               x == b + n - 1
    <3>1. v \in 0 .. bytesPerCluster - 1 /\ v \in Int
      BY <1>3, DiskIs
    <3>2. x = y + v
      <4>1. b \in Int /\ j \in Int /\ ix \in Int /\ j + ix = n
        BY <1>1, <1>3
      <4> HIDE DEF b, j, ix
      <4> QED BY <4>1
    <3>3. x = p * bytesPerCluster + v /\ x \in Int /\ p \in Int
      BY <2>1, <3>1, <3>2
    <3> HIDE DEF x, v, p
    <3>4. x \div bytesPerCluster = p
      BY <3>1, <3>3, DiskIs, DivUnique
    <3> QED BY <2>3, <3>4 DEF x, p
  <2>4. CASE ~Breaks(p)
    <3>1. p \in 1 .. Len(chain) /\ p + 1 \in 1 .. Len(chain)
      BY <1>1, <2>1, <2>2, SizeIs
    <3>2. chain[p] \in Int /\ chain[p + 1] = chain[p] + 1
      <4>1. chain[p] \in Int
        BY <3>1, ChainIs DEF FileOK
      <4> QED BY <2>4, <4>1 DEF Breaks
    <3>3. second = DataSector(chain[p + 1])
      <4>1. d = DataSector(chain[p])
        BY <1>1, <1>5
      <4>2. second = d + sectorsPerCluster
        BY <1>1, <1>13, DiskIs
      <4> DEFINE u == chain[p]
      <4>3. u \in Int /\ d = (u - 2) * sectorsPerCluster
        BY <3>2, <4>1 DEF DataSector
      <4> HIDE DEF u
      <4>4. (u + 1 - 2) * sectorsPerCluster = (u - 2) * sectorsPerCluster + sectorsPerCluster
        BY <4>3, DiskIs
      <4>5. chain[p + 1] = u + 1
        BY <3>2 DEF u
      <4> QED BY <4>2, <4>3, <4>4, <4>5 DEF DataSector
    <3>4. C = Bytes(DataSector(chain[p + 1]), 0, ix)
      BY <3>3
    <3>5. ix <= bytesPerCluster
      BY <1>3, DiskIs
    <3> HIDE DEF C, p, ix, y
    <3>6. Reads(p * bytesPerCluster, C)
      BY <1>3, <2>1, <2>2, <3>4, <3>5, ClusterRead
    <3>7. Reads(y, C)
      BY <2>1, <3>6
    <3> QED BY <3>7 DEF y
  <2> QED BY <2>3, <2>4
<1>14. Reads(b, A \o C) \/ ((b + n - 1) \div bytesPerCluster = q + 1 /\ Breaks(q + 1))
  BY <1>11, <1>12, <1>13
<1>15. r[1] = SEEK_CUR(f, n) /\ r[2] = A \o C
  <2> HIDE DEF r, A, C
  <2> QED BY <1>4
<1> HIDE DEF r, A, C, b, q
<1>16. /\ At(r[1]) /\ r[1].seekBytes = b + n /\ Len(r[2]) = n
       /\ \/ Reads(b, r[2])
          \/ (b + n - 1) \div bytesPerCluster = b \div bytesPerCluster + 1
             /\ Breaks(b \div bytesPerCluster + 1)
  BY <1>2, <1>6, <1>9, <1>14, <1>15
<1> QED BY <1>16 DEF r, b

(* What a read leaves in the buffer is the file, or ReadsFile's exception. *)
ReadIs(b, s) ==
  \/ Reads(b, s)
  \/ LET c == b \div bytesPerCluster + 1
     IN  /\ Len(s) <= SECTOR
         /\ (b + Len(s) - 1) \div bytesPerCluster = c
         /\ Breaks(c)

LEMMA ReadDid ==
  ASSUME FileOK, gap = GapsFound, NEW f, At(f), NEW n \in Nat,
         f.seekBytes + n <= fileSize
  PROVE  /\ At(ReadParts(f, n)[1]) /\ ReadIs(f.seekBytes, ReadParts(f, n)[2])
         /\ ReadParts(f, n)[1].seekBytes = f.seekBytes + n
         /\ Len(ReadParts(f, n)[2]) = n
<1>1. LeftInSector(f) \in Int /\ SECTOR \in Nat /\ LeftInSector(f) <= SECTOR
  <2>1. f.seekBytes % SECTOR \in 0 .. SECTOR - 1
    BY AtIs
  <2> DEFINE o == f.seekBytes % SECTOR
  <2>2. o \in 0 .. SECTOR - 1 /\ LeftInSector(f) = SECTOR - o
    BY <2>1 DEF LeftInSector
  <2> HIDE DEF o
  <2> QED BY <2>2, DiskIs
<1>2. CASE n <= LeftInSector(f)
  <2>1. ReadParts(f, n) = InSector(f, n)
    BY <1>1, <1>2 DEF ReadParts
  <2>2. Did(f.seekBytes, InSector(f, n), n)
    BY <1>2, InSectorReads
  <2> QED BY <2>1, <2>2 DEF Did, ReadIs
<1>3. CASE n > LeftInSector(f) /\ n <= SECTOR
  <2>1. ReadParts(f, n) = TwoSectors(f, n)
    BY <1>1, <1>3 DEF ReadParts
  <2> DEFINE r == TwoSectors(f, n)
             b == f.seekBytes
             c == b \div bytesPerCluster + 1
  <2>2. /\ At(r[1]) /\ Len(r[2]) = n /\ r[1].seekBytes = b + n
        /\ Reads(b, r[2]) \/ ((b + n - 1) \div bytesPerCluster = c /\ Breaks(c))
    BY <1>3, TwoSectorsRead
  <2> HIDE DEF r
  <2>3. ReadIs(b, r[2])
    BY <1>3, <2>2 DEF ReadIs
  <2> QED BY <2>1, <2>2, <2>3 DEF r
<1>4. CASE ~(n <= LeftInSector(f)) /\ ~(n > LeftInSector(f) /\ n <= SECTOR)
  <2>1. ReadParts(f, n) = ManySectors(f, n)
    BY <1>4 DEF ReadParts
  <2>2. n > SECTOR
    BY <1>1, <1>4
  <2>3. Did(f.seekBytes, ManySectors(f, n), n)
    BY <2>2, ManySectorsDid
  <2> QED BY <2>1, <2>3 DEF Did, ReadIs
<1> QED BY <1>2, <1>3, <1>4

-----------------------------------------------------------------------------
(* The invariant: an open file is at its position, and the gaps kept for   *)
(* it are all that its chain has.                                          *)

AtPosition == IsOpen => gap = GapsFound /\ At(file)

FInv == FileOK /\ AtPosition /\ ReadIs(from, buf)

(* What is said of f, b and s holds in the next state too, if the disk is kept. *)
LEMMA KeptChain ==
  ASSUME UNCHANGED <<chain, fileSize>>
  PROVE  /\ FileOK' <=> FileOK
         /\ GapsFound' = GapsFound
         /\ \A f : At(f)' <=> At(f)
         /\ \A b, s : ReadIs(b, s)' <=> ReadIs(b, s)
<1>1. \A ix : Breaks(ix)' <=> Breaks(ix)
  BY DEF Breaks
<1>2. \A b : Place(b)' = Place(b)
  BY DEF Place
<1>3. GapsFound' = GapsFound
  BY DEF GapsFound, Found, Breaks, RoundsBefore, Scans, Ascending
<1>4. FileOK' <=> FileOK
  BY DEF FileOK
<1>5. \A f : At(f)' <=> At(f)
  BY DEF At
<1>6. \A b, s : ReadIs(b, s)' <=> ReadIs(b, s)
  BY DEF ReadIs, Reads, Breaks, Place
<1> QED BY <1>3, <1>4, <1>5, <1>6

(* FInv holds when nothing is open yet. *)
LEMMA InitInv == FileInit => FInv
<1> SUFFICES ASSUME FileInit PROVE FInv
  OBVIOUS
<1>1. FileOK
  BY DEF FileInit, FileOK
<1>2. AtPosition
  BY DEF FileInit, AtPosition, IsOpen
<1>3. ReadIs(from, buf)
  BY NoBytes DEF FileInit, ReadIs
<1> QED BY <1>1, <1>2, <1>3 DEF FInv

(* FInv is kept by every step of FatFile. *)
LEMMA NextInv == FInv /\ [FileNext]_fileVars => FInv'
<1> SUFFICES ASSUME FInv, [FileNext]_fileVars PROVE FInv'
  OBVIOUS
<1>1. FileOK /\ AtPosition /\ ReadIs(from, buf)
  BY DEF FInv
<1>2. fileSize \in Nat
  BY <1>1, SizeIs
<1>3. SUFFICES ASSUME NEW f, file' = f, UNCHANGED <<chain, fileSize>>,
                      f # Closed => gap' = GapsFound /\ At(f),
                      NEW b, from' = b, NEW s, buf' = s, ReadIs(b, s)
               PROVE  FInv'
  <2> DEFINE Kept == /\ UNCHANGED <<chain, fileSize>>
                     /\ file' # Closed => gap' = GapsFound /\ At(file')
                     /\ ReadIs(from', buf')
  <2>0. SUFFICES Kept
    BY <1>3
  <2>1. CASE UNCHANGED fileVars
    BY <1>1, <2>1 DEF fileVars, AtPosition, IsOpen
  <2>2. CASE my_fopen
    <3> DEFINE g == [cluster |-> clusterOrg, clusterCnt |-> 0, seekSector |-> 0,
                     seekBytes |-> 0, dataSector |-> DataSector(clusterOrg)]
    <3>1. UNCHANGED <<chain, fileSize>> /\ gap' = GapsFound /\ file' = g
          /\ from' = 0 /\ buf' = <<>>
      BY <2>2 DEF my_fopen
    <3>2. chain[1] \in Int /\ clusterOrg = chain[1]
      BY <1>1, ChainIs DEF FileOK, clusterOrg
    <3>3. DataSector(clusterOrg) \in Int
      BY <3>2, SectorIs
    <3>4. g \in Files /\ g.cluster = chain[1] /\ g.clusterCnt = 0 /\ g.seekSector = 0
          /\ g.seekBytes = 0 /\ g.dataSector = DataSector(chain[1])
      BY <3>2, <3>3 DEF Files
    <3> HIDE DEF g
    <3>5. At(g)
      BY <1>1, <3>4, FirstByte
    <3>6. ReadIs(from', buf')
      BY <3>1, NoBytes DEF ReadIs
    <3> QED BY <3>1, <3>5, <3>6
  <2>3. CASE my_fclose
    <3>1. ReadIs(from', buf')
      BY <2>3, NoBytes DEF my_fclose, ReadIs
    <3> QED BY <2>3, <3>1 DEF my_fclose
  <2>4. ASSUME NEW x \in 0 .. fileSize, my_fseek(x)
        PROVE  Kept
    <3>1. gap = GapsFound /\ At(file) /\ UNCHANGED <<chain, fileSize, gap>>
          /\ buf' = <<>>
      BY <1>1, <2>4 DEF my_fseek, AtPosition
    <3>2. file \in Files /\ file.seekBytes \in Nat /\ file.seekBytes <= fileSize
      BY <1>1, <3>1, AtIs
    <3>3. At(file')
      <4>1. CASE file' = SEEK_SET(file, x)
        BY <1>1, <3>1, <3>2, <4>1, SeekSetIs
      <4>2. CASE file' = SEEK_CUR(file, x - file.seekBytes)
        <5> DEFINE n == x - file.seekBytes
        <5>1. n \in Int /\ 0 <= file.seekBytes + n /\ file.seekBytes + n <= fileSize
          BY <1>2, <3>2
        <5> HIDE DEF n
        <5>2. At(SEEK_CUR(file, n))
          BY <1>1, <3>1, <5>1, SeekCurIs
        <5> QED BY <4>2, <5>2 DEF n
      <4>3. CASE file' = SEEK_END(file, x - (fileSize - 1))
        BY <1>1, <3>1, <3>2, <4>3, SeekEndIs
      <4> QED BY <2>4, <4>1, <4>2, <4>3 DEF my_fseek
    <3>4. ReadIs(from', buf')
      BY <3>1, NoBytes DEF ReadIs
    <3> QED BY <3>1, <3>3, <3>4
  <2>5. ASSUME NEW n \in 1 .. MaxRead, my_fread(n)
        PROVE  Kept
    <3> DEFINE m == Clamped(n)
    <3>1. gap = GapsFound /\ At(file) /\ UNCHANGED <<chain, fileSize, gap>>
      BY <1>1, <2>5 DEF my_fread, AtPosition
    <3>2. file.seekBytes \in Nat /\ file.seekBytes <= fileSize
      BY <1>1, <3>1, AtIs
    <3>3. m \in Nat /\ file.seekBytes + m <= fileSize
      <4>1. n \in Nat
        BY DiskIs
      <4> QED BY <1>2, <3>2, <4>1 DEF Clamped, Least
    <3>4. file' = ReadParts(file, m)[1] /\ buf' = ReadParts(file, m)[2] /\ from' = file.seekBytes
      BY <2>5 DEF my_fread
    <3> HIDE DEF m
    <3>5. At(ReadParts(file, m)[1]) /\ ReadIs(file.seekBytes, ReadParts(file, m)[2])
      BY <1>1, <3>1, <3>3, ReadDid
    <3> QED BY <3>1, <3>4, <3>5
  <2> QED BY <2>1, <2>2, <2>3, <2>4, <2>5 DEF FileNext
<1>4. FileOK' /\ GapsFound' = GapsFound /\ (f # Closed => At(f)') /\ ReadIs(b, s)'
  BY <1>1, <1>3, KeptChain
<1> QED BY <1>1, <1>3, <1>4, KeptChain DEF FInv, AtPosition, IsOpen

(* An open file is at its position and knows all gaps of its chain, and     *)
(* the last read gave what it should, whatever was opened, sought, read and *)
(* closed before (my_fopen, my_fseek, my_fread and my_fclose of fat.c).    *)
THEOREM FileInvariant == FileSpec => []FInv
BY InitInv, NextInv, PTL DEF FileSpec

(* Whatever seeks and reads came before, for every chain of clusters of    *)
(* any length and gaps, every size of sectors, clusters and blocks of the  *)
(* FAT: the cluster, sector and offset of an open file are those of its    *)
(* position (my_fseek and getNClusterCache of fat.c).                      *)
THEOREM PositionStaysTrue == FileSpec => []PositionIsTrue
<1>1. FInv => PositionIsTrue
  <2> SUFFICES ASSUME FInv, IsOpen, file.seekBytes < fileSize
               PROVE  /\ file.clusterCnt = file.seekBytes \div bytesPerCluster
                      /\ file.cluster = chain[file.clusterCnt + 1]
                      /\ (file.dataSector + file.seekSector) * SECTOR
                           + (file.seekBytes % SECTOR) = Place(file.seekBytes)
    BY DEF PositionIsTrue
  <2>1. FileOK /\ At(file)
    BY DEF FInv, AtPosition
  <2>2. file.cluster = chain[file.clusterCnt + 1]
    BY <2>1, AtIs
  <2>3. (file.dataSector + file.seekSector) * SECTOR + (file.seekBytes % SECTOR)
          = Place(file.seekBytes)
    BY <2>1, PlaceOf
  <2> QED BY <2>1, <2>2, <2>3 DEF At
<1> QED BY <1>1, FileInvariant, PTL

(* A read gives the bytes of the file in their order, but for the read of  *)
(* two sectors of which a gap lies between (my_fread of fat.c).            *)
THEOREM ReadsStayTrue == FileSpec => []ReadsFile
<1>1. FInv => ReadsFile
  BY DEF FInv, ReadIs, Reads, ReadsFile, Correct
<1> QED BY <1>1, FileInvariant, PTL

(* Each read gives as many bytes as it was asked for, or as the file has    *)
(* left, and the position moves on by as many: so reads one after the other *)
(* leave nothing out and repeat nothing (my_fread of fat.c).               *)
ReadsOn ==
  [][\A n \in 1 .. MaxRead :
       my_fread(n) => /\ Len(buf') = Clamped(n)
                      /\ file'.seekBytes = file.seekBytes + Clamped(n)]_fileVars

THEOREM ReadsFollowEachOther == FileSpec => ReadsOn
<1>1. ASSUME FInv, NEW n \in 1 .. MaxRead, my_fread(n)
      PROVE  /\ Len(buf') = Clamped(n)
             /\ file'.seekBytes = file.seekBytes + Clamped(n)
  <2> DEFINE m == Clamped(n)
  <2>1. FileOK /\ gap = GapsFound /\ At(file)
    BY <1>1 DEF FInv, AtPosition, my_fread
  <2>2. file.seekBytes \in Nat /\ file.seekBytes <= fileSize /\ fileSize \in Nat
    BY <2>1, AtIs, SizeIs
  <2>3. n \in Nat
    BY DiskIs
  <2>4. m \in Nat /\ file.seekBytes + m <= fileSize
    BY <2>2, <2>3 DEF Clamped, Least
  <2>5. file' = ReadParts(file, m)[1] /\ buf' = ReadParts(file, m)[2]
    BY <1>1 DEF my_fread
  <2> HIDE DEF m
  <2>6. /\ ReadParts(file, m)[1].seekBytes = file.seekBytes + m
        /\ Len(ReadParts(file, m)[2]) = m
    BY <2>1, <2>4, ReadDid
  <2> QED BY <2>5, <2>6 DEF m
<1>2. FInv => \A n \in 1 .. MaxRead :
        my_fread(n) => /\ Len(buf') = Clamped(n)
                       /\ file'.seekBytes = file.seekBytes + Clamped(n)
  BY <1>1
<1> QED BY <1>2, FileInvariant, PTL DEF ReadsOn
=============================================================================
