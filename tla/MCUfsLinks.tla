----------------------------- MODULE MCUfsLinks -----------------------------
(***************************************************************************)
(* UfsLinks on four elements, from one class and from four.                *)
(***************************************************************************)
EXTENDS UfsLinks

CONSTANTS e1, e2, e3, e4

MCContents == { << <<e1, e2>>, <<e3, e4>> >>, << <<e1>>, <<e2>>, <<e3>>, <<e4>> >> }

MCNameLen == [e \in {e1, e2, e3, e4} |-> 1]
=============================================================================
