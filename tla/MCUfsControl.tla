---------------------------- MODULE MCUfsControl ----------------------------
(***************************************************************************)
(* Instances of UfsControl for TLC: four elements, of which the runs of    *)
(* several operations per client use three.                                *)
(***************************************************************************)
EXTENDS UfsControl

CONSTANTS e1, e2, e3, e4

MCNameLen == (e1 :> 1) @@ (e2 :> 2) @@ (e3 :> 1) @@ (e4 :> 3)

Symmetry == Permutations(Client)

\* Every command with single arguments that checkArgv lets pass on the four
\* elements, union x x and union * x included.
AllContents == { << <<e1, e2, e4>>, <<e3>> >> }

SingleCommands ==
    {UnionOp(<<x>>, <<y>>) : x, y \in {e1, e2, e3, e4, STAR}}
        \cup {SplitOp(<<x>>) : x \in {e1, e2, e3, e4}}

\* Three elements, each pair united by one command.
ThreeContents == { << <<e1, e2>>, <<e3>> >> }

ThreeCommands ==
    {UnionOp(<<e1>>, <<e2>>), UnionOp(<<e2>>, <<e3>>), UnionOp(<<e3>>, <<e1>>)}
        \cup {SplitOp(<<x>>) : x \in {e1, e2, e3}}

\* For the temporal properties: one union and one split that meet.
LiveCommands == {UnionOp(<<e1>>, <<e3>>), SplitOp(<<e1>>)}

\* Commands that name a whole list of elements.
ListContents == { << <<e1, e2, e4>>, <<e3>> >> }

ListCommands == {UnionOp(<<e1>>, <<e3>>), SplitOp(<<e1, e2>>)}
=============================================================================
