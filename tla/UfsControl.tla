----------------------------- MODULE UfsControl -----------------------------
(***************************************************************************)
(* The control algorithm (controlAlg) on one key.  Every client keeps the  *)
(* cudGraph and its own 2D state space; the server keeps one 2D state      *)
(* space per client.  A client executes its own operation at once and      *)
(* sends it, with the context it was generated in, to the server; the      *)
(* server transforms it against the operations the client had not seen and *)
(* sends the result to every other client, which transforms it against its *)
(* own operations the server had not seen.                                 *)
(*                                                                         *)
(* uinit has reached every process.  The links are the replication         *)
(* connections, in both directions, as long as they are up.                *)
(***************************************************************************)
EXTENDS UfsSpace

CONSTANTS
    Client,         \* the slaves ("Client servers")
    Contents,       \* the possible arguments of uinit
    Commands,       \* the union and split commands a normal client may issue;
                    \* they name elements of the key
    MaxOp,          \* bound: operations generated by one client
    ReplSlaveRo     \* server.repl_slave_ro at the clients

ASSUME ControlAssumption == MaxOp \in Nat /\ Radix \in Nat \ {0, 1} /\ ReplSlaveRo \in BOOLEAN

VARIABLES
    graph,          \* graph[c]: the cudGraph of client c
    cspace,         \* cspace[c]: the 2D state space at client c
    sspace,         \* sspace[c]: the 2D state space for c at the server
    op_num,         \* op_num[c]: operations generated by c
    toServer,       \* toServer[c]: commands on the link from c
    toClient        \* toClient[c]: commands on the link to c

vars == <<graph, cspace, sspace, op_num, toServer, toClient>>

\* union x y oid ctx key, split x oid ctx key
Command(op, oid, ctx) == [op |-> op, oid |-> oid, ctx |-> ctx]

\* After uinit: the same graph everywhere, and spaces of one vertex.
Init ==
    \E content \in Contents :
        LET g   == UinitGraph(content)
            top == <<Vertice(UpdateVerticeUfs(g))>>
        IN  /\ graph = [c \in Client |-> g]
            /\ cspace = [c \in Client |-> top]
            /\ sspace = [c \in Client |-> top]
            /\ op_num = [c \in Client |-> 0]
            /\ toServer = [c \in Client |-> <<>>]
            /\ toClient = [c \in Client |-> <<>>]

\* Mutant of PropagateToMaster: a command is dropped while another one waits.
PropagateToMasterIdle(c, command) ==
    toServer' = IF ReplSlaveRo \/ toServer[c] # <<>> THEN toServer
                ELSE [toServer EXCEPT ![c] = Append(@, command)]

\* call(), at a client and for a command of a normal client: the command goes
\* to the master only if the slave is not read only.
PropagateToMaster(c, command) ==
    toServer' = IF ReplSlaveRo THEN toServer
                ELSE [toServer EXCEPT ![c] = Append(@, command)]

\* Mutant of LocalProcessing: the context is read after the edge is added.
LocalProcessingLate(c, op) ==
    /\ op_num[c] < MaxOp
    /\ CheckArgv(graph[c], op)
    /\ LET oid == <<c, op_num[c] + 1>>
           g   == Exec(graph[c], op)
       IN  /\ op_num' = [op_num EXCEPT ![c] = @ + 1]
           /\ graph' = [graph EXCEPT ![c] = g]
           /\ cspace' = [cspace EXCEPT ![c] =
                            AppendLast(@, "ledge", op, oid, UpdateVerticeUfs(g))]
           /\ PropagateToMaster(c, Command(op, oid, CalculateOids(cspace'[c])))
    /\ UNCHANGED <<sspace, toClient>>

\* controlAlg, local processing: an operation of a normal client of c.
LocalProcessing(c, op) ==
    /\ op_num[c] < MaxOp
    /\ CheckArgv(graph[c], op)
    /\ LET oid == <<c, op_num[c] + 1>>
           ctx == CalculateOids(cspace[c])
           g   == Exec(graph[c], op)
       IN  /\ op_num' = [op_num EXCEPT ![c] = @ + 1]
           /\ graph' = [graph EXCEPT ![c] = g]
           /\ cspace' = [cspace EXCEPT ![c] =
                            AppendLast(@, "ledge", op, oid, UpdateVerticeUfs(g))]
           /\ PropagateToMaster(c, Command(op, oid, ctx))
    /\ UNCHANGED <<sspace, toClient>>

\* There is a command on the link, and a vertex for its context: locateVertice
\* does not return the NULL that controlAlg would follow.
Places(space, link) == link # <<>> /\ LocateRVertice(space, Head(link).ctx) # 0

ServerPlaces(c) == Places(sspace[c], toServer[c])
ClientPlaces(c) == Places(cspace[c], toClient[c])

\* Mutant of Saved: the operation is not saved.
SavedNot(space, op, oid) == space

\* The server saves the transformed operation in the space of another client.
Saved(space, op, oid) ==
    AppendLast(space, "redge", op, oid,
               FromState(space[LocateLVertice(space)].content, op))

\* Command m of c has been transformed into op: the space of every other client
\* is extended, and propagateExSlave sends op to every other client.
SendToOthers(c, m, op, space, ctx) ==
    /\ sspace' = [d \in Client |-> IF d = c THEN space ELSE Saved(sspace[d], op, m.oid)]
    /\ toClient' = [d \in Client |-> IF d = c THEN toClient[d]
                                     ELSE Append(toClient[d], Command(op, m.oid, ctx))]

\* controlAlg, server processing: the next operation of c, placed at u.  Its
\* context grows by the operations it is transformed against.
ServerProcessing(c) ==
    /\ ServerPlaces(c)
    /\ \E m \in {Head(toServer[c])} :
       \E u \in {LocateRVertice(sspace[c], m.ctx)} :
       \E st \in {Transform(sspace[c], u, m.op, m.oid, "redge", "ledge")} :
            SendToOthers(c, m, st.space[st.u].ledge.op, st.space,
                         m.ctx \cup ToSet(Chain(sspace[c], u, "redge")))
    /\ toServer' = [toServer EXCEPT ![c] = Tail(@)]
    /\ UNCHANGED <<graph, cspace, op_num>>

\* controlAlg, remote processing: the next operation from the server; the
\* edge that the transformation ends with is executed on the graph.
RemoteProcessing(c) ==
    /\ ClientPlaces(c)
    /\ \E m \in {Head(toClient[c])} :
       \E st \in {Transform(cspace[c], LocateRVertice(cspace[c], m.ctx),
                            m.op, m.oid, "ledge", "redge")} :
            /\ cspace' = [cspace EXCEPT ![c] = st.space]
            /\ graph' = [graph EXCEPT ![c] = Exec(@, st.space[st.u].redge.op)]
    /\ toClient' = [toClient EXCEPT ![c] = Tail(@)]
    /\ UNCHANGED <<sspace, op_num, toServer>>

Next ==
    \E c \in Client :
        \/ \E op \in Commands : LocalProcessing(c, op)
        \/ ServerProcessing(c)
        \/ RemoteProcessing(c)

\* The event loop of the receiving end takes the commands off a link as long
\* as it can place them (ServerProcessing and RemoteProcessing are the only
\* steps that do).  That a client generates an operation is never owed.
ServerServes(c) == ServerPlaces(c) /\ toServer' = [toServer EXCEPT ![c] = Tail(@)]
ClientServes(c) == ClientPlaces(c) /\ toClient' = [toClient EXCEPT ![c] = Tail(@)]

Fairness == \A c \in Client : WF_toServer(ServerServes(c)) /\ WF_toClient(ClientServes(c))

Spec == Init /\ [][Next]_vars /\ Fairness

-----------------------------------------------------------------------------
(***************************************************************************)
(* Properties.                                                             *)
(***************************************************************************)
Spaces == {cspace[c] : c \in Client} \cup {sspace[c] : c \in Client}

Elements(c) == ToSet(graph[c].dlist)

Quiescent == \A c \in Client : toServer[c] = <<>> /\ toClient[c] = <<>>

\* The contexts of the vertices of a space: what is on the path that reaches
\* each of them.
Contexts(space) ==
    LET into(v) == {<<u, side>> \in (1 .. Len(space)) \X {"ledge", "redge"} :
                        space[u][side].adjv = v}
        ctx[v \in 1 .. Len(space)] ==
            IF v = 1 THEN {}
            ELSE LET e == CHOOSE e \in into(v) : TRUE
                 IN  ctx[e[1]] \cup {space[e[1]][e[2]].oid}
    IN  ctx

\* A command of the form controlAlg builds, of an operation that was generated.
IsCommand(m) ==
    /\ m.oid[1] \in Client /\ m.oid[2] \in 1 .. op_num[m.oid[1]]
    /\ m.oid \notin m.ctx
    /\ \A o \in m.ctx : o[2] \in 1 .. op_num[o[1]]

\* Every edge leads to a vertex of the same space, and every command on a link
\* is one that was generated.
TypeOK ==
    /\ op_num \in [Client -> 0 .. MaxOp]
    /\ \A s \in Spaces : \A v \in 1 .. Len(s) :
        s[v].ledge.adjv \in 0 .. Len(s) /\ s[v].redge.adjv \in 0 .. Len(s)
    /\ \A c \in Client : \A m \in ToSet(toServer[c]) \cup ToSet(toClient[c]) : IsCommand(m)

\* The next command of a link is always placed: its context is a vertex of
\* the space at the receiving end (locateRVertice returns no NULL, which the
\* code would follow), and the edge it becomes is not taken yet.
CommandPlaced ==
    \A c \in Client :
        /\ toServer[c] # <<>> =>
            LET u == LocateRVertice(sspace[c], Head(toServer[c]).ctx)
            IN  u # 0 /\ ~HasEdge(sspace[c][u].ledge)
        /\ toClient[c] # <<>> =>
            LET u == LocateRVertice(cspace[c], Head(toClient[c]).ctx)
            IN  u # 0 /\ ~HasEdge(cspace[c][u].redge)

\* The content of every vertex is a partition of the elements of the key, so
\* it has the length len_ufs that updateVerticeUfsFromState reads.
ContentsArePartitions ==
    \A c \in Client : \A s \in {cspace[c], sspace[c]} : \A v \in 1 .. Len(s) :
        IsPartitionOf(s[v].content, Elements(c))

\* The graph a client executes operations on and the content of the last
\* vertex of its space, computed by different code from the same operations,
\* have the same classes.
GraphMatchesSpace ==
    \A c \in Client :
        ClassesOfGraph(graph[c]) =
            ClassesOf(cspace[c][LocateLVertice(cspace[c])].content)

\* Two vertices that the same operations lead to, in any two spaces of any two
\* processes and in whatever order, have the same classes.
SameContextSameClasses ==
    LET seen == UNION {LET ctx == Contexts(s)
                       IN  {<<ctx[v], ClassesOf(s[v].content)>> : v \in 1 .. Len(s)}
                       : s \in Spaces}
    IN  \A p, q \in seen : p[1] = q[1] => p[2] = q[2]

\* With nothing on the links, all the clients have the same union-find set.
Converged ==
    Quiescent => \A c, d \in Client : ClassesOfGraph(graph[c]) = ClassesOfGraph(graph[d])

\* A space only grows: a content never changes and an edge that is set is
\* never set again (u->ledge and u->redge are assigned without a test).
SpaceGrows(s, t) ==
    /\ Len(s) <= Len(t)
    /\ \A v \in 1 .. Len(s) :
        /\ t[v].content = s[v].content
        /\ \A side \in {"ledge", "redge"} : HasEdge(s[v][side]) => t[v][side] = s[v][side]

SpacesGrow ==
    [][\A c \in Client : SpaceGrows(cspace[c], cspace'[c]) /\ SpaceGrows(sspace[c], sspace'[c])]_vars

\* Every operation a client has executed is, in the end, executed everywhere.
EventuallyExecuted ==
    \A c, d \in Client : \A n \in 1 .. MaxOp :
        op_num[c] >= n ~> <<c, n>> \in CalculateOids(cspace[d])
=============================================================================
