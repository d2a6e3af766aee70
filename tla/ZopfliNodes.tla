---------------------------- MODULE ZopfliNodes ----------------------------
(* The nodes of the shortest-path search of qualities 10 and 11               *)
(* (backward_references/hq.rs): node i describes the last command of the best *)
(* known way to encode the first i bytes of the block.  Costs are left out,   *)
(* so a way may win or lose; what a node remembers about distances is not.    *)
EXTENDS DistanceRing

\* BrotliInitZopfliNodes: a stub of length 1 that starts nowhere; node 0 has length 0.
Stub == [len |-> 1, dist |-> 0, insert |-> 0, short |-> 0, shortcut |-> 0]

InitNodes(n) == [i \in 0 .. n |-> IF i = 0 THEN [Stub EXCEPT !.len = 0] ELSE Stub]

Reached(nodes, i) == ~ (nodes[i].insert = 0 /\ nodes[i].len = 1)

NodeCode(node) == IF node.short = 0 THEN node.dist + ShortCodes - 1 ELSE node.short - 1

\* The node its command starts from.
Before(nodes, i) == i - nodes[i].len - nodes[i].insert

(* ComputeDistanceShortcut: the nearest node on the way whose command moved   *)
(* the ring (0 when none did).                                                *)
Shortcut(nodes, i, blockStart) ==
    IF i = 0 THEN 0
    ELSE IF /\ nodes[i].dist + nodes[i].len <= blockStart + i
            /\ nodes[i].dist <= MaxBackward
            /\ NodeCode(nodes[i]) > 0
         THEN i
         ELSE nodes[Before(nodes, i)].shortcut

\* The distances met by following the shortcuts from node i.
Trail(nodes, i) ==
    LET trail[p \in DOMAIN nodes] ==
            IF p = 0 THEN << >>
            ELSE << nodes[p].dist >> \o trail[nodes[Before(nodes, p)].shortcut]
    IN trail[nodes[i].shortcut]

\* ComputeDistanceCache: the ring a decoder has after the way to node i.
NodeCache(nodes, i, starting) == SubSeq(Trail(nodes, i) \o starting, 1, 4)

\* ComputeShortestPathFromNodes: the last node that was reached, where the way ends.
LastReached(nodes, n) ==
    CHOOSE i \in 0 .. n : /\ i = 0 \/ Reached(nodes, i)
                          /\ \A j \in i + 1 .. n : ~ Reached(nodes, j)

(* BrotliZopfliCreateCommands: the command of node i after what was "made" of *)
(* the way to the node before.  The first takes the left-over literals in.    *)
Created(nodes, blockStart, lastInsert, made, i) ==
    LET node   == nodes[i]
        window == Window(blockStart + i - node.len)
        insert == node.insert + (IF made.commands = << >> THEN lastInsert ELSE 0)
    IN [commands |-> Append(made.commands, NewCommand(insert, node.len, NodeCode(node))),
        ring     |-> IF node.dist <= window /\ NodeCode(node) > 0
                     THEN Remember(made.ring, node.dist) ELSE made.ring,
        meant    |-> made.meant \o Literals(node.insert) \o Bytes(node.dist, node.len, window)]

\* What the ways to the nodes 0 to n are made of, from the ring "starting".
Ways(nodes, n, blockStart, lastInsert, starting) ==
    LET way[i \in 0 .. n] ==
            IF i = 0 THEN [commands |-> << >>, ring |-> starting, meant |-> << >>]
            ELSE Created(nodes, blockStart, lastInsert, way[Before(nodes, i)], i)
    IN way

=============================================================================
