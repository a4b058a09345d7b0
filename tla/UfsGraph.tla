------------------------------ MODULE UfsGraph ------------------------------
(***************************************************************************)
(* The cudGraph of one server: the adjacency lists that union and split    *)
(* edit in place.  A client's own command is checked against the graph     *)
(* first (checkArgv); a command executed on behalf of another client is    *)
(* not, and its arguments may be stale: their elements may have moved to   *)
(* other classes since the command was checked at its origin.  A server    *)
(* that goes down takes its sets with it (nothing saves them).             *)
(***************************************************************************)
EXTENDS UfsOps

CONSTANTS
    Contents,   \* the arguments of uinit
    Argv,       \* the lists of elements that a command may name
    Unknown     \* lists with names that are no elements

VARIABLES
    graph,      \* the cudGraph
    up          \* is the server running?

vars == <<graph, up>>

OpsOn(args) == {UnionOp(x, y) : x, y \in args} \cup {SplitOp(x) : x \in args \ {<<STAR>>}}

Ops == OpsOn(Argv)

Init == graph \in {UinitGraph(c) : c \in Contents} /\ up = TRUE

\* A command of a normal client: rejected with an error reply, and the graph
\* left alone, unless checkArgv accepts it.
LocalCommand(op) ==
    /\ up /\ CheckArgv(graph, op)
    /\ graph' = Exec(graph, op)
    /\ UNCHANGED up

\* A command of a normal client that makes checkArgv read outside the graph:
\* the server goes down with it, or rejects it.
LocalUndefined(op) ==
    /\ up /\ CheckReadsOutside(graph, op)
    /\ up' \in BOOLEAN
    /\ UNCHANGED graph

\* The transformed command of another client: not checked here, but it was
\* accepted there, so it names elements.
RemoteCommand(op) ==
    /\ up
    /\ graph' = Exec(graph, op)
    /\ UNCHANGED up

Next ==
    \/ \E op \in OpsOn(Argv \cup Unknown) : LocalCommand(op) \/ LocalUndefined(op)
    \/ \E op \in Ops : RemoteCommand(op)

Spec == Init /\ [][Next]_vars

-----------------------------------------------------------------------------
(***************************************************************************)
(* Properties.                                                             *)
(***************************************************************************)
Elements == ToSet(graph.dlist)

\* Every adjacency list is a duplicate-free list of other elements.
TypeOK ==
    /\ DOMAIN graph.adj = Elements
    /\ \A e \in Elements :
        /\ ToSet(graph.adj[e]) \subseteq Elements \ {e}
        /\ Len(graph.adj[e]) = Cardinality(ToSet(graph.adj[e]))

\* The content written from the graph after any sequence of commands lists
\* every element once, and its classes are those of the graph: no element is
\* lost or repeated by the walk of updateVerticeUfs.
ContentOfGraph ==
    LET content == UpdateVerticeUfs(graph)
    IN  /\ IsPartitionOf(content, Elements)
        /\ ClassesOf(content) = ClassesOfGraph(graph)

\* The graph with its lists read as sets.
AsSets(g) == [e \in DOMAIN g.adj |-> ToSet(g.adj[e])]

Adj == INSTANCE UfsAdj WITH
    Elem <- UNION {ToSet(FlattenSeq(c)) : c \in Contents},
    adj  <- AsSets(graph)

\* In every reachable graph, executing any command on the linked lists
\* (createLinks and removeAdjEdge edit them while they walk them) gives the
\* sets that the set level operation gives for the same arguments: the union
\* or the split of exactly these elements, and no change where unionProc does
\* nothing.  The arguments need not have passed checkArgv: they may be stale.
CommandsAsSets ==
    \A op \in Ops :
        AsSets(Exec(graph, op)) =
            CASE IsStar(op)          -> AsSets(graph)
              [] op.type = "split"   -> Adj!SplitProc(ToSet(op.argv1))
              [] OTHER               -> Adj!UnionProc(op.argv1[1], op.argv2[1],
                                            ToSet(op.argv1) \cup ToSet(op.argv2))

\* What checkArgv is for: a union that it accepts makes one class of all the
\* classes its arguments meet, although unionProc looks at one edge only, and
\* a split that it accepts makes a class of its argument.
AcceptedCommands ==
    \A op \in Ops :
        CheckArgv(graph, op) /\ ~IsStar(op) =>
            LET X     == ToSet(op.argv1) \cup ToSet(op.argv2)
                after == ClassesOfGraph(Exec(graph, op))
            IN  IF op.type = "union" THEN after = Adj!Partition!Merged(X)
                ELSE after = Adj!Partition!Divided(X) /\ X \in after
=============================================================================
