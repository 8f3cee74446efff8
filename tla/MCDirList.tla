----------------------------- MODULE MCDirList ------------------------------
(* Three kinds of cards: a root alone, of up to three items; a root and a   *)
(* directory of up to four, whose two clusters follow each other or do     *)
(* not; and one with two larger directories to go to and fro.  Items are   *)
(* of six kinds, with and without a long name, of one and of two parts.    *)
EXTENDS DirList

E(kind, name, ext) == [kind |-> kind, name |-> name, ext |-> ext, seq |-> 0, last |-> FALSE]
Lfn(name, seq, last) == [kind |-> "lfn", name |-> name, ext |-> 0, seq |-> seq, last |-> last]

Kind ==
  {<<E("file", 1, 2)>>, <<E("dir", 3, 0)>>, <<E("other", 0, 0)>>,
   <<Lfn(5, 1, TRUE), E("file", 0, 1)>>,
   <<Lfn(4, 2, TRUE), Lfn(4, 1, FALSE), E("file", 2, 2)>>,
   <<Lfn(2, 1, TRUE), E("dir", 4, 0)>>}

Dots == <<E("dir", 0, 0), E("dir", 0, 0)>>
UpTo3 == {<<>>} \union Kind \union {a \o b : a, b \in Kind}
           \union {a \o b \o c : a, b, c \in Kind}
Four ==
  LET few == {<<E("file", 1, 2)>>, <<Lfn(5, 1, TRUE), E("file", 0, 2)>>,
              <<Lfn(2, 1, TRUE), E("dir", 4, 0)>>}
      two == {c \o d : c, d \in few}
  IN {a \o b : a, b \in two}

Root(items) == [root |-> TRUE, chain |-> <<0>>, entries |-> items]
Sub(items, chain) == [root |-> FALSE, chain |-> chain, entries |-> Dots \o items]

ALong == <<Lfn(4, 2, TRUE), Lfn(4, 1, FALSE), E("file", 2, 2)>>
Larger == <<E("file", 1, 2), E("dir", 3, 0)>> \o ALong \o ALong \o ALong
ARoot == Root(<<E("dir", 3, 0), E("dir", 1, 0)>>)

MCCards ==
  {{Root(items)} : items \in {s \in UpTo3 : Len(s) < 6}}
    \union {{ARoot, Sub(items, chain)} :
               items \in {s \in UpTo3 \union Four : Len(s) < 10},
               chain \in {<<7, 8>>, <<9, 7>>}}
    \union {{ARoot, Sub(Larger, <<7, 9, 8>>), Sub(ALong \o ALong, <<4, 3>>)}}
=============================================================================
