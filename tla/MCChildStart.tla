---------------------------- MODULE MCChildStart ----------------------------
(***************************************************************************)
(* Files of up to two lines with one argument at most, one entry at most,  *)
(* and five states of the disk.                                            *)
(***************************************************************************)
EXTENDS ChildStart, TLC

Lines == {<<>>, <<"#", "/e", "/i", "/o">>, <<"/e", "/i">>, <<"e", "/i", "/o">>,
          <<"/e", "/i", "/o">>, <<"/e", "x", "/i", "/o">>,
          <<"/e", "/i", "/o", "/i", "x">>, <<"/e", "x", "/i", "/o", "/i">>}
MCConfigFiles == BoundedSeq(Lines, 2)
MCAbsolute == {"/e", "/i", "/o"}
D(existing, readable, writable) ==
  [existing |-> existing, readable |-> readable, writable |-> writable]
MCDisks ==
  {D({"/e", "/i", "/o"}, {"/i", "/o"}, {"/i", "/o"}),   \* all is well
   D({"/e", "/i"}, {"/i"}, {"/o"}),                     \* no output yet
   D({"/e", "/i"}, {"/i"}, {}),                         \* and none can be made
   D({"/e", "/i", "/o"}, {"/o"}, {"/i", "/o"}),         \* input protected
   D({"/i", "/o"}, {"/i", "/o"}, {"/i", "/o"})}         \* no program
=============================================================================
