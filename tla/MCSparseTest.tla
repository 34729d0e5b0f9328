---------------------------- MODULE MCSparseTest ----------------------------
(***************************************************************************)
(* Inputs of up to eight bytes on blocks of two; buffers too small, too    *)
(* large, odd, and of size 0.                                              *)
(***************************************************************************)
EXTENDS SparseTest
=============================================================================
