---------------------------- MODULE MCFileWatcher ----------------------------
(***************************************************************************)
(* Instances of FileWatcher for TLC.  From one content of a file to the    *)
(* other, one section changes its text and the other comes or goes.        *)
(***************************************************************************)
EXTENDS FileWatcher

CONSTANTS h1, h2, t1, t2

Both == [h \in Headings |-> IF h = h1 THEN t1 ELSE t2]
First == [h \in Headings |-> IF h = h1 THEN t2 ELSE None]

TwoContents == {Both, First}
=============================================================================
