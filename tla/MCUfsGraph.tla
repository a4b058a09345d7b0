----------------------------- MODULE MCUfsGraph -----------------------------
(***************************************************************************)
(* UfsGraph on four elements: the commands name every list of at most two  *)
(* elements, in either order; a client may also use a name e0 that is no   *)
(* element.                                                                *)
(***************************************************************************)
EXTENDS UfsGraph

CONSTANTS e0, e1, e2, e3, e4

MCElem == {e1, e2, e3, e4}

MCContents == { << <<e1, e2, e3>>, <<e4>> >>, << <<e1>>, <<e2>>, <<e3>>, <<e4>> >> }

MCArgv == {<<x>> : x \in MCElem} \cup {<<STAR>>}
            \cup ({<<x, y>> : x, y \in MCElem} \ {<<x, x>> : x \in MCElem})

MCUnknown == {<<e0>>, <<e0, e1>>, <<e1, e0>>}

MCNameLen == [e \in MCElem |-> 1]
=============================================================================
