------------------------------ MODULE UfsLinks ------------------------------
(***************************************************************************)
(* createLinks step by step.  Its two nested loops walk two linked lists   *)
(* while createEdge puts new nodes at the head of both: a cursor never     *)
(* meets a node added behind it, but the inner loop starts again from a    *)
(* head that has moved.  The cursors p and q are the rest of the list that *)
(* is still to be walked.  Between two calls an element may be split off.  *)
(***************************************************************************)
EXTENDS UfsOps

CONSTANTS
    Contents    \* the arguments of uinit

VARIABLES
    adj,        \* the adjacency lists
    pc,         \* "idle", or the loop test that comes next
    i, j,       \* the vertex whose list p walks, and the one whose list q walks
    p, q,       \* the cursors
    second,     \* in the second of the two outer loops?
    called      \* history: the lists and the arguments at the call

vars == <<adj, pc, i, j, p, q, second, called>>

Elem == DOMAIN adj

Init ==
    /\ adj \in {UinitGraph(c).adj : c \in Contents}
    /\ pc = "idle" /\ p = <<>> /\ q = <<>> /\ second = FALSE
    /\ i \in Elem /\ j = i
    /\ called = [adj |-> adj, i |-> i, j |-> i]

\* The call: createEdge(i, j), then p is set to the head of the list of i.
Call(v, w) ==
    /\ pc = "idle"
    /\ adj' = CreateEdge(adj, v, w)
    /\ i' = v /\ j' = w
    /\ p' = adj'[v]
    /\ pc' = "outer" /\ second' = FALSE
    /\ called' = [adj |-> adj, i |-> v, j |-> w]
    /\ UNCHANGED q

\* while (p != NULL): q is set to the head of the list of j.
OuterEnter ==
    /\ pc = "outer" /\ p # <<>>
    /\ q' = adj[j]
    /\ pc' = "inner"
    /\ UNCHANGED <<adj, i, j, p, second, called>>

\* while (q != NULL): link the neighbour p with j and with the neighbour q.
InnerStep ==
    /\ pc = "inner" /\ q # <<>>
    /\ adj' = CreateEdge(CreateEdge(adj, Head(p), j), Head(p), Head(q))
    /\ q' = Tail(q)
    /\ UNCHANGED <<pc, i, j, p, second, called>>

\* Mutant of InnerExit: the walk starts again from the head of the list.
InnerExitRestart ==
    /\ pc = "inner" /\ q = <<>>
    /\ p' = adj[i]
    /\ pc' = "outer"
    /\ UNCHANGED <<adj, i, j, q, second, called>>

InnerExit ==
    /\ pc = "inner" /\ q = <<>>
    /\ p' = Tail(p)
    /\ pc' = "outer"
    /\ UNCHANGED <<adj, i, j, q, second, called>>

\* Mutant of OuterExit: there is no second loop.
OuterExitOnce ==
    /\ pc = "outer" /\ p = <<>>
    /\ pc' = "idle"
    /\ UNCHANGED <<adj, i, j, p, q, second, called>>

\* The second outer loop is the first with i and j exchanged.
OuterExit ==
    /\ pc = "outer" /\ p = <<>>
    /\ IF second
       THEN pc' = "idle" /\ UNCHANGED <<i, j, p, second>>
       ELSE i' = j /\ j' = i /\ p' = adj[j] /\ second' = TRUE /\ UNCHANGED pc
    /\ UNCHANGED <<adj, q, called>>

\* A split of one element between two calls.
SplitOff(v) ==
    /\ pc = "idle"
    /\ adj' = RemoveAdjEdge(adj, v, <<>>)
    /\ called' = [adj |-> adj', i |-> v, j |-> v]
    /\ UNCHANGED <<pc, i, j, p, q, second>>

Loops == OuterEnter \/ InnerStep \/ InnerExit \/ OuterExit

Next ==
    \/ \E v, w \in Elem : Call(v, w)
    \/ \E v \in Elem : SplitOff(v)
    \/ Loops

\* The call runs to completion: nothing else runs in the process.
Spec == Init /\ [][Next]_vars /\ WF_vars(Loops)

-----------------------------------------------------------------------------
\* The cursors and the lists hold elements, and no list holds its own vertex.
TypeOK ==
    /\ pc \in {"idle", "outer", "inner"}
    /\ second \in BOOLEAN
    /\ {i, j} \subseteq Elem
    /\ \A e \in Elem : ToSet(adj[e]) \subseteq Elem \ {e}
    /\ ToSet(p) \subseteq Elem /\ ToSet(q) \subseteq Elem

\* When createLinks returns, the lists are those of the operator CreateLinks:
\* the loops leave no edge out, add none twice, and put the new nodes in that
\* order, which is the order updateVerticeUfs writes the class in.
LinksComputed ==
    pc = "idle" => adj = CreateLinks(called.adj, called.i, called.j)

\* The lists that the cursors walk grow at their heads only: what a cursor has
\* left to walk is always the tail of a list of the graph.
CursorsOnLists ==
    /\ pc # "idle" => \E k \in 0 .. Len(adj[i]) : p = SubSeq(adj[i], k + 1, Len(adj[i]))
    /\ pc = "inner" => \E k \in 0 .. Len(adj[j]) : q = SubSeq(adj[j], k + 1, Len(adj[j]))

\* createLinks returns, although the lists it walks grow while it walks them.
Returns == pc # "idle" ~> pc = "idle"
=============================================================================
