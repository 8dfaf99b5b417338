------------------------------- MODULE MCKrlPool -------------------------------
(***************************************************************************)
(* A page is 8 units, the descriptor of a slab 4, that of an extension 2,  *)
(* so that what is left of a page is a multiple of the size of an object   *)
(* and its last object just does not fit.  Class 1 (2 units) has one       *)
(* object in its first page and two in an extension; class 2 (4 units)     *)
(* takes two pages at a time.  Five pages leave room for a slab with an    *)
(* extension and for page blocks beside it.                                *)
(***************************************************************************)
EXTENDS KrlPool

MCOlSz == <<2, 4>>
MCPagesOf == <<1, 2>>
(* Objects of both classes, blocks of two and of three pages.              *)
MCSize == {2, 3, 12, 20}
=============================================================================
