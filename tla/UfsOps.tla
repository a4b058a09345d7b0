------------------------------- MODULE UfsOps -------------------------------
(***************************************************************************)
(* The data operations of the union-find-set type, as pure operators.      *)
(*                                                                         *)
(* A comma separated list ("a,b") is a sequence of elements; a command     *)
(* argument is such a list, "*" being <<STAR>> and the empty string <<>>.  *)
(* The content of a vertex ("a,b/c") is a sequence of such lists, one per  *)
(* equivalence class.  A cudGraph is a record: dlist, the elements in the  *)
(* order of uinit, and adj, the adjacency list of every element, its head  *)
(* being firstedge.                                                        *)
(***************************************************************************)
EXTENDS Naturals, Sequences, SequencesExt

CONSTANTS
    STAR,       \* the argument "*" that otUfs writes for "nothing left"
    NameLen     \* NameLen[e]: number of characters of the name of e

(***************************************************************************)
(* Lists of names (ot.c).                                                  *)
(***************************************************************************)

\* strlen of a comma separated list of names.
StrLen(list) ==
    IF list = <<>> THEN 0
    ELSE FoldLeft(LAMBDA n, e : n + 1 + NameLen[e], 0, list) - 1

\* findstr: is the first element of v a member of the list buf?
FindStr(buf, v) == v # <<>> /\ Contains(buf, v[1])

\* sdsDel: the list without the elements of t.
SdsDel(list, t) == SelectSeq(list, LAMBDA e : ~Contains(t, e))

\* firstOfsdsDel: the first element that sdsDel leaves, "" if none is left.
FirstOfSdsDel(list, t) ==
    LET rest == SdsDel(list, t) IN IF rest = <<>> THEN <<>> ELSE <<rest[1]>>

\* Mutant of Rest: the first element of the class, which may be one of s.
RestAny(class, s) ==
    IF StrLen(class) = StrLen(s) THEN <<STAR>> ELSE <<class[1]>>

\* What is left of a class once s has been split off: one element of it, "*"
\* when s was the whole class.
Rest(class, s) ==
    IF StrLen(class) = StrLen(s) THEN <<STAR>> ELSE FirstOfSdsDel(class, s)

(***************************************************************************)
(* cpltClass with type 2: what stands for s in a union once s has been     *)
(* split off: the rest of its class, "" when no class is at least as long  *)
(* as s and holds its first element.                                       *)
(***************************************************************************)
CpltClass(content, s) ==
    LET fits(class) ==
            /\ \/ Len(s) < Len(class) /\ StrLen(s) < StrLen(class)
               \/ Len(s) = Len(class) /\ StrLen(s) = StrLen(class)
            /\ FindStr(class, s)
        fitting == SelectSeq(content, fits)
    IN  IF fitting = <<>> THEN <<>> ELSE Rest(Head(fitting), s)

(***************************************************************************)
(* Operations and their transformation (ot.c).                             *)
(***************************************************************************)
UnionOp(x, y) == [type |-> "union", argv1 |-> x, argv2 |-> y]
SplitOp(x)    == [type |-> "split", argv1 |-> x, argv2 |-> <<>>]

IsStar(op) == op.argv1 = <<STAR>> \/ op.argv2 = <<STAR>>

\* An argument of a union against a concurrent split of s, for which cplt
\* stands: a single name is compared with s as a string, a list is searched for
\* the first element of s.
OtArgv(x, s, cplt) ==
    IF (Len(x) <= 1 /\ x = s) \/ (Len(x) > 1 /\ FindStr(x, s)) THEN cplt ELSE x

\* Mutant of OtUnion: the union is left as it is.
OtUnionNone(u, s, cplt) == u

\* otUfs, union against split: only the union changes.
OtUnion(u, s, cplt) ==
    IF /\ Len(u.argv1) <= 1 /\ Len(u.argv2) <= 1
       /\ u.argv1 = u.argv2 \/ IsStar(u)
    THEN u
    ELSE UnionOp(OtArgv(u.argv1, s, cplt), OtArgv(u.argv2, s, cplt))

\* An operation after another one, generated in the same state.
After(content, op, other) ==
    IF op.type = "union" /\ other.type = "split"
    THEN OtUnion(op, other.argv1, CpltClass(content, other.argv1))
    ELSE op

\* Mutant of OtUfs: only the first operation is transformed.
OtUfsFirst(content, op1, op2) == <<After(content, op1, op2), op2>>

\* otUfs with flag OT_UNION: the pair <<op1 after op2, op2 after op1>>.
OtUfs(content, op1, op2) == <<After(content, op1, op2), After(content, op2, op1)>>

(***************************************************************************)
(* updateVerticeUfsFromState: the content that op makes of a content.      *)
(* A union whose argument is in no class reads elements[-1]: the content   *)
(* is then Garbage, which lists none of the elements.  The 0 of SelectInSeq *)
(* stands for the class -1 of the C code.                                  *)
(***************************************************************************)
Garbage == <<>>

\* Mutant of UnionContent: the class that was appended is not taken out.
UnionContentTwice(content, x, y) ==
    LET i == SelectInSeq(content, LAMBDA class : FindStr(class, x))
        j == SelectInSeq(content, LAMBDA class : FindStr(class, y))
    IN  IF i = j THEN content ELSE [content EXCEPT ![i] = @ \o content[j]]

UnionContent(content, x, y) ==
    LET i == SelectInSeq(content, LAMBDA class : FindStr(class, x))
        j == SelectInSeq(content, LAMBDA class : FindStr(class, y))
        low  == IF i < j THEN i ELSE j
        high == IF i < j THEN j ELSE i
    IN  IF i = j THEN content
        ELSE IF low = 0 THEN Garbage
        ELSE RemoveAt([content EXCEPT ![low] = @ \o content[high]], high)

SplitContent(content, s) ==
    LET k == SelectInSeq(content, LAMBDA class : FindStr(class, s))
    IN  IF k = 0 \/ StrLen(content[k]) = StrLen(s) THEN content
        ELSE InsertAt([content EXCEPT ![k] = SdsDel(@, s)], k + 1, s)

\* Mutant of FromState: "*" is looked up like a name.
FromStateNoStar(content, op) ==
    IF op.type = "union" THEN UnionContent(content, op.argv1, op.argv2)
    ELSE SplitContent(content, op.argv1)

FromState(content, op) ==
    IF IsStar(op) THEN content
    ELSE IF op.type = "union" THEN UnionContent(content, op.argv1, op.argv2)
    ELSE SplitContent(content, op.argv1)

(***************************************************************************)
(* The adjacency lists (ufs.c).                                            *)
(***************************************************************************)
ExistEdge(adj, v1, v2) == Contains(adj[v1], v2)

\* Mutants of CreateEdge: no test for v1 = v2; the new nodes at the tails.
CreateEdgeLoop(adj, v1, v2) ==
    IF ExistEdge(adj, v1, v2) THEN adj
    ELSE [adj EXCEPT ![v1] = <<v2>> \o @, ![v2] = <<v1>> \o @]

CreateEdgeTail(adj, v1, v2) ==
    IF v1 = v2 \/ ExistEdge(adj, v1, v2) THEN adj
    ELSE [adj EXCEPT ![v1] = Append(@, v2), ![v2] = Append(@, v1)]

CreateEdge(adj, v1, v2) ==
    IF v1 = v2 THEN adj
    ELSE LET a == IF ExistEdge(adj, v1, v2) THEN adj
                  ELSE [adj EXCEPT ![v1] = <<v2>> \o @]
         IN  IF ExistEdge(a, v2, v1) THEN a
             ELSE [a EXCEPT ![v2] = <<v1>> \o @]

\* Mutant of CreateLinks: no test for an edge that is there already.
CreateLinksAgain(adj, i, j) ==
    IF i = j THEN adj
    ELSE [adj EXCEPT ![i] = <<j>> \o @, ![j] = <<i>> \o @]

(***************************************************************************)
(* createLinks(i, j) as a whole (UfsLinks models its loops): nothing when  *)
(* i and j are linked already, else the class of i meets the class of j,   *)
(* every new edge being put at the head of two lists.                      *)
(***************************************************************************)
CreateLinks(adj, i, j) ==
    IF i = j \/ ExistEdge(adj, i, j) THEN adj
    ELSE [e \in DOMAIN adj |->
            IF e = i \/ ExistEdge(adj, i, e)
            THEN Reverse(adj[j]) \o <<j>> \o adj[e]
            ELSE IF e = j THEN Reverse(adj[i]) \o <<i>> \o adj[j]
            ELSE IF ExistEdge(adj, j, e) THEN <<i>> \o Reverse(adj[i]) \o adj[e]
            ELSE adj[e]]

\* removeAdjEdge: the edges between v and the elements outside the list.
RemoveAdjEdge(adj, v, list) ==
    IF adj[v] = <<>> THEN adj
    ELSE [e \in DOMAIN adj |->
            IF e = v THEN SelectSeq(adj[v], LAMBDA w : Contains(list, w))
            ELSE IF Contains(list, e) THEN adj[e]
            ELSE Remove(adj[e], v)]

\* Every element of x linked with every element of y.
LinkLists(adj, x, y) ==
    FoldLeft(LAMBDA a, e : FoldLeft(LAMBDA b, f : CreateLinks(b, e, f), a, y), adj, x)

\* Mutant of UnionProc: the edge between the first elements is not looked at.
UnionProcAlways(adj, x, y) ==
    IF x = <<STAR>> \/ y = <<STAR>> THEN adj ELSE LinkLists(adj, x, y)

\* unionProc: a list is looked at only through the edge of its first element.
UnionProc(adj, x, y) ==
    IF x = <<STAR>> \/ y = <<STAR>> THEN adj
    ELSE IF Len(x) = 1 /\ Len(y) = 1 THEN CreateLinks(adj, x[1], y[1])
    ELSE IF Len(x) = 1
         THEN IF ExistEdge(adj, y[1], x[1]) THEN adj ELSE LinkLists(adj, y, x)
         ELSE IF ExistEdge(adj, x[1], y[1]) THEN adj ELSE LinkLists(adj, x, y)

SplitProc(adj, s) ==
    IF s = <<STAR>> THEN adj
    ELSE IF Len(s) = 1 THEN RemoveAdjEdge(adj, s[1], <<>>)
    ELSE FoldLeft(LAMBDA a, e : RemoveAdjEdge(a, e, s), adj, s)

Exec(graph, op) ==
    [graph EXCEPT !.adj = IF op.type = "union"
                          THEN UnionProc(@, op.argv1, op.argv2)
                          ELSE SplitProc(@, op.argv1)]

\* Mutant of UpdateVerticeUfs: the element just before is not looked at.
UpdateVerticeUfsShort(graph) ==
    LET first(i) == \A j \in 1 .. i - 2 :
                        ~ExistEdge(graph.adj, graph.dlist[i], graph.dlist[j])
        class(i) == <<graph.dlist[i]>> \o graph.adj[graph.dlist[i]]
    IN  FoldLeftDomain(LAMBDA c, i : IF first(i) THEN Append(c, class(i)) ELSE c,
                       <<>>, graph.dlist)

\* updateVerticeUfs: one class per element that has no edge to an earlier one.
\* The last character is cut when the last element is skipped, a "/" then, but
\* also when there is only one element: its name is then written short.
UpdateVerticeUfs(graph) ==
    LET first(i) == \A j \in 1 .. i - 1 :
                        ~ExistEdge(graph.adj, graph.dlist[i], graph.dlist[j])
        class(i) == <<graph.dlist[i]>> \o graph.adj[graph.dlist[i]]
    IN  IF Len(graph.dlist) = 1 /\ NameLen[graph.dlist[1]] > 1 THEN Garbage
        ELSE FoldLeftDomain(LAMBDA c, i : IF first(i) THEN Append(c, class(i)) ELSE c,
                            <<>>, graph.dlist)

(***************************************************************************)
(* checkArgv: what a client may ask of its own graph.  A name that is no   *)
(* element is the vertex -1.  No list holds it, so isConnected ends at the *)
(* first pair with the vertex -1 in the second place; in the first place   *)
(* it makes existEdge read dlist[-1], before existElements is asked.       *)
(* Whatever that read answers, the command is rejected in the end.         *)
(***************************************************************************)
ExistElements(graph, list) == \A i \in 1 .. Len(list) : Contains(graph.dlist, list[i])

IsConnected(graph, list) ==
    \A i, j \in 1 .. Len(list) :
        i < j => /\ Contains(graph.dlist, list[i])
                 /\ ExistEdge(graph.adj, list[i], list[j])

\* isConnected reads dlist[-1].
ReadsOutside(graph, list) == Len(list) > 1 /\ ~Contains(graph.dlist, list[1])

\* Mutant of CheckUnionArgv: the second argument need not lie in one class.
CheckUnionArgvFirst(graph, x, y) ==
    IF x = <<STAR>> \/ y = <<STAR>>
    THEN \A z \in {x, y} : z # <<STAR>> => Len(z) = 1 /\ ExistElements(graph, z)
    ELSE IsConnected(graph, x) /\ \A z \in {x, y} : ExistElements(graph, z)

CheckUnionArgv(graph, x, y) ==
    IF x = <<STAR>> \/ y = <<STAR>>
    THEN \A z \in {x, y} : z # <<STAR>> => Len(z) = 1 /\ ExistElements(graph, z)
    ELSE /\ \A z \in {x, y} : IsConnected(graph, z)
         /\ \A z \in {x, y} : ExistElements(graph, z)

CheckSplitArgv(graph, s) ==
    IsConnected(graph, s) /\ ExistElements(graph, s)

CheckArgv(graph, op) ==
    IF op.type = "union" THEN CheckUnionArgv(graph, op.argv1, op.argv2)
    ELSE CheckSplitArgv(graph, op.argv1)

\* checkArgv reads outside the graph.  "*" in a union is tested first.
CheckReadsOutside(graph, op) ==
    ~IsStar(op) /\ (ReadsOutside(graph, op.argv1) \/ ReadsOutside(graph, op.argv2))

(***************************************************************************)
(* uinitCommand: the graph of "a,b/c": every class is linked pair by pair. *)
(***************************************************************************)
UinitGraph(content) ==
    LET dlist == FlattenSeq(content)
        linkClass(a, class) ==
            FoldLeft(LAMBDA b, e :
                       FoldLeft(LAMBDA g, f : IF e = f THEN g ELSE CreateLinks(g, e, f),
                                b, class),
                     a, class)
    IN  [dlist |-> dlist,
         adj   |-> FoldLeft(linkClass, [e \in ToSet(dlist) |-> <<>>], content)]

(***************************************************************************)
(* What the two representations mean: a set of classes.                    *)
(***************************************************************************)
ClassesOf(content) == {ToSet(content[i]) : i \in 1 .. Len(content)}

ClassesOfGraph(graph) == {ToSet(graph.adj[e]) \cup {e} : e \in DOMAIN graph.adj}

\* The content lists every element of S exactly once.
IsPartitionOf(content, S) ==
    LET all == FlattenSeq(content)
    IN  ToSet(all) = S /\ Len(all) = Cardinality(S)
=============================================================================
