----------------------------- MODULE ShortestPath -----------------------------
(* The path search of the demonstration networks                               *)
(* (mininet/utils/mininet/shortest_path.py).  Edges are pairs; no path, None in *)
(* the code, is <<>>.                                                          *)
EXTENDS Integers, SequencesExt

AppendNew(seq, e) == IF e \in ToSet(seq) THEN seq ELSE Append(seq, e)

\* The neighbours of a node in the order in which edges name them.
addEdge(neighbors, edge) ==
    LET a == edge[1]
        b == edge[2]
    IN [[neighbors EXCEPT ![a] = AppendNew(@, b)] EXCEPT ![b] = AppendNew(@, a)]

neighbors_of(nodes, edges) ==
    LET added[n \in 0 .. Len(edges)] ==
            IF n = 0 THEN [node \in nodes |-> <<>>] ELSE addEdge(added[n - 1], edges[n])
    IN added[Len(edges)]

\* Mutant of FirstShortest: the paths are not sorted.
FirstShortest_Unsorted(paths) ==
    paths[CHOOSE i \in DOMAIN paths : \A j \in DOMAIN paths : i <= j]

\* paths.sort(key=len) is stable.
FirstShortest(paths) ==
    paths[CHOOSE i \in DOMAIN paths :
            \A j \in DOMAIN paths :
                IF j < i THEN Len(paths[j]) > Len(paths[i])
                         ELSE Len(paths[j]) >= Len(paths[i])]

\* One call: the path from a to b when path holds the results of the calls for the
\* neighbours, which it makes for those not visited and, but for b, not excluded.
Visit(neighbors, b, excluded, path, a, visited) ==
    IF a = b THEN <<a>>
    ELSE LET usable == {i \in DOMAIN neighbors[a] :
                            /\ neighbors[a][i] \notin visited \cup {a}
                            /\ neighbors[a][i] \in excluded => neighbors[a][i] = b}
             found == {i \in usable : path[<<neighbors[a][i], visited \cup {a}>>] # <<>>}
         IN IF found = {} THEN <<>>
            ELSE <<a>> \o FirstShortest([i \in found |->
                                            path[<<neighbors[a][i], visited \cup {a}>>]])

\* The path from a node to b: a function of the node and the visited ones.
recPath(nodes, edges, b, excluded) ==
    LET neighbors == neighbors_of(nodes, edges)
        path[call \in nodes \X SUBSET nodes] ==
            Visit(neighbors, b, excluded, path, call[1], call[2])
    IN path

get_path(nodes, edges, a, b, excluded) == recPath(nodes, edges, b, excluded)[<<a, {}>>]

----------------------------------------------------------------------------
(* The reference: walks, in whatever way they are found.                   *)

Adjacent(edges, a, b) ==
    \E i \in DOMAIN edges : edges[i] = <<a, b>> \/ edges[i] = <<b, a>>

\* The walks of k steps from a to b along edges, with no excluded node on the way.
Walks(nodes, edges, a, b, k, excluded) ==
    {w \in [0 .. k -> nodes] :
        /\ w[0] = a /\ w[k] = b
        /\ \A i \in 1 .. k : Adjacent(edges, w[i - 1], w[i])
        /\ \A i \in 1 .. k - 1 : w[i] \notin excluded}

\* A path as a walk.
Steps(path) == [i \in 0 .. Len(path) - 1 |-> path[i + 1]]

=============================================================================
