------------------------------ MODULE MCSession -------------------------------
(* A small instance of Session: files of one to four blocks, one of which is     *)
(* refused, a window of two blocks, three frames, two entities. Of the lists of  *)
(* three files the first lets both blocks of file 1, sent again, pass for file   *)
(* 2, whose name they get; what comes of file 2 is then taken for file 3.        *)
EXTENDS Session, TLC

MCSize == <<1, 3, 4, 1>>
MCLists == {<<>>, <<1, 2, 3>>, <<2, 3, 1>>, <<1, 4>>}
MCViews == {1 :> 0, (1 :> 1) @@ (2 :> 0)}
===============================================================================
