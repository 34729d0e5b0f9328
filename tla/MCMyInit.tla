------------------------------ MODULE MCMyInit ------------------------------
(***************************************************************************)
(* myinit with two pids and a file that is empty or names two programs.    *)
(***************************************************************************)
EXTENDS MyInit, TLC

CONSTANTS p1, p2

Line(path) == <<path, "/null", "/null">>
MCFiles == {<<>>, <<Line("/a"), <<"# comment">>, Line("/b")>>}
MCAbsolute == {"/a", "/b", "/null"}
MCDisk == [existing |-> {"/null"}, readable |-> {"/null"}, writable |-> {"/null"}]
=============================================================================
