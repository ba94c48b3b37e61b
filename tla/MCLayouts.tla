------------------------------ MODULE MCLayouts ------------------------------
(***************************************************************************)
(* Every structure of the header files, each in a buffer of its own.         *)
(***************************************************************************)
EXTENDS Generator, MpegDescLayouts, DvbDescLayouts, TableLayouts, StreamLayouts, ScteLayouts,
        NetLayouts

AllStructures ==
  MpegDescStructures \cup DvbDescStructures \cup TableStructures \cup StreamStructures
    \cup ScteStructures \cup NetStructures

=============================================================================
