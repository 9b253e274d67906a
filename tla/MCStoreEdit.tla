---------------------------- MODULE MCStoreEdit ----------------------------
(* Small stores for TLC.  idc is an identity no store holds at first. *)
EXTENDS StoreEdit

CONSTANTS ida, idb, idc

Record(id, pf) == [id |-> id, pf |-> pf, indent |-> FALSE]
Indented(l) == [l EXCEPT !.indent = TRUE]
One == CHOOSE p \in Pass : TRUE
A == Record(ida, One)
B == Record(idb, One)
Remark == Record(Comment, NoPass)

(* No store, an empty one, one and two records, a record twice, an empty    *)
(* pass-phrase, a line without separator; comments with blanks before them  *)
(* between two records, up to a blank line and up to a record; records with *)
(* blanks before them, in the second row, and in the first, with an         *)
(* identity of two characters and of one.                                   *)
AllStores ==
    { None, <<>>, <<A>>, <<A, B>>, <<A, Remark, B>>, <<A, B, A>>,
      <<Record(idb, NoPass), A>>, <<A, Record(Broken, NoPass), B>>,
      <<A, Indented(Remark), Remark, Indented(Record(Blank, NoPass)), B>>,
      <<A, Indented(Remark), Remark, B>>,
      <<A, Indented(B)>>, <<Indented(A), B>>, <<Indented(B), A>>,
      <<Indented(Record(idb, NoPass)), Indented(Remark)>>,
      <<Indented(Record(Broken, NoPass)), A>> }

(* ida is a character longer than idb, which is one character. *)
Beheaded ==
    [i \in Id \cup {Broken} |->
        IF i = ida THEN idb ELSE IF i = Broken THEN Broken ELSE Blank]

FewStores == {None, <<A>>}
BothRecords == {<<A, B>>}
NoStore == {None}

NotRelated == {}
APrefixesB == {<<ida, idb>>}
=============================================================================
