----------------------------- MODULE UDPMapRace -----------------------------
(***************************************************************************)
(* UDPTransmit with its map as it is in memory.  connections_ is a         *)
(* std::map with no lock: while the transmit thread increments an iterator *)
(* over it, the receive thread inserts a peer and rebalances the tree.     *)
(*                                                                         *)
(* The map is libstdc++'s red-black tree: the insertion writes its         *)
(* pointers one by one, the increment reads them one by one.  A data race  *)
(* has more outcomes than these; one of them is enough for the question.   *)
(***************************************************************************)
EXTENDS UDPTransmit, FiniteSetsExt, Sequences

Header == None    \* the node that end() points to; it holds root and ends
Null   == -1      \* the null pointer

Nodes == Conns \cup {Header}

\* The pointers of a node; of Header: the root, the first and the last node.
Field == {"parent", "left", "right"}

VARIABLES
    link,         \* the pointers of the nodes
    red,          \* the nodes coloured red; only the insertion looks
    writes,       \* the pointer writes the insertion has still to do
    fix,          \* the node its rebalancing is at, Null when it is not
    step,         \* of the walk: "begin", "down", "up" or "there"
    at,           \* the node the increment is at
    up            \* the node above it, when it climbs

tree == <<link, red, writes, fix>>
walk == <<step, at, up>>

RaceInit ==
    /\ Init
    /\ link = [f \in Field |-> [n \in Nodes |->
                  IF n = Header /\ f # "parent" THEN Header ELSE Null]]
    /\ red = {}
    /\ writes = << >>
    /\ fix = Null
    /\ step = "there"
    /\ at = Header
    /\ up = Header

-----------------------------------------------------------------------------
(* The receive thread: connections_.insert *)

Opposite(side) == IF side = "left" THEN "right" ELSE "left"

Root == link["parent"][Header]

Write(f, n, to) == [field |-> f, node |-> n, to |-> to]

\* The leaf's place: below the last node before it, or else the first after.
Attach(c) ==
    LET before == {n \in known : n < c}
        under  == before # {} /\ link["right"][Max(before)] = Null
        side   == IF under THEN "right" ELSE "left"
        p      == IF known = {} THEN Header
                  ELSE IF under THEN Max(before) ELSE Min(known \ before)
    IN  /\ writes' = << Write("parent", c, p), Write(side, p, c) >>
                     \o (IF p = Header THEN << Write("parent", Header, c),
                                               Write("right", Header, c) >>
                         ELSE IF p = link[side][Header]
                              THEN << Write(side, Header, c) >> ELSE << >>)
        /\ red' = red \cup {c}
        /\ fix' = c
        /\ UNCHANGED link

\* The rotation of x down to the given side.
Rotation(x, side) ==
    LET y == link[Opposite(side)][x]
        b == link[side][y]
        p == link["parent"][x]
    IN  << Write(Opposite(side), x, b) >>
        \o (IF b = Null THEN << >> ELSE << Write("parent", b, x) >>)
        \o << Write("parent", y, p) >>
        \o << IF x = Root THEN Write("parent", Header, y)
              ELSE IF link[side][p] = x THEN Write(side, p, y)
              ELSE Write(Opposite(side), p, y) >>
        \o << Write(side, y, x), Write("parent", x, y) >>

BeginInsertNode(c) ==
    /\ BeginInsert(c)
    /\ Attach(c)
    /\ UNCHANGED walk

\* The next write.
WritePointer ==
    /\ writes # << >>
    /\ LET w == Head(writes)
       IN  link' = [link EXCEPT ![w.field][w.node] = w.to]
    /\ writes' = Tail(writes)
    /\ UNCHANGED <<red, fix, vars, walk>>

Settled == fix = Root \/ link["parent"][fix] \notin red

(***************************************************************************)
(* A turn of the loop: two red nodes in a row.  A red uncle hands the      *)
(* trouble up; otherwise one rotation, or two, put it right.               *)
(***************************************************************************)
Rebalance ==
    /\ fix # Null /\ writes = << >> /\ ~Settled
    /\ LET p     == link["parent"][fix]
           g     == link["parent"][p]
           side  == IF link["left"][g] = p THEN "left" ELSE "right"
           uncle == link[Opposite(side)][g]
       IN  \/ /\ uncle \in red
              /\ red' = (red \ {p, uncle}) \cup {g}
              /\ fix' = g
              /\ UNCHANGED writes
           \/ /\ uncle \notin red /\ link[side][p] # fix
              /\ fix' = p
              /\ writes' = Rotation(p, side)
              /\ UNCHANGED red
           \/ /\ uncle \notin red /\ link[side][p] = fix
              /\ red' = (red \ {p}) \cup {g}
              /\ writes' = Rotation(g, Opposite(side))
              /\ UNCHANGED fix
    /\ UNCHANGED <<link, vars, walk>>

\* insert returns.
EndInsertNode ==
    /\ fix # Null /\ writes = << >> /\ Settled
    /\ EndInsert
    /\ red' = red \ {Root}
    /\ fix' = Null
    /\ UNCHANGED <<link, writes, walk>>

-----------------------------------------------------------------------------
(* The transmit thread: the iterator of its range-for *)

Reach(n) == step' = "there" /\ at' = n /\ UNCHANGED up

\* begin(), and the first look of ++.
Step ==
    /\ pc = "scan" /\ step = "begin"
    /\ IF cursor = None THEN Reach(link["left"][Header])
       ELSE IF link["right"][cursor] # Null
            THEN step' = "down" /\ at' = link["right"][cursor] /\ UNCHANGED up
            ELSE step' = "up" /\ at' = cursor /\ up' = link["parent"][cursor]
    /\ UNCHANGED <<vars, tree>>

\* Down to the first node of the subtree.
Descend ==
    /\ step = "down"
    /\ IF link["left"][at] = Null
         THEN Reach(at)
         ELSE at' = link["left"][at] /\ UNCHANGED <<step, up>>
    /\ UNCHANGED <<vars, tree>>

\* Up to the first node it is not to the right of.
Climb ==
    /\ step = "up"
    /\ IF link["right"][up] = at
         THEN at' = up /\ up' = link["parent"][up] /\ UNCHANGED step
         ELSE Reach(IF link["right"][at] # up THEN up ELSE at)
    /\ UNCHANGED <<vars, tree>>

\* The iterator's connection is served, or the iterator is end().
Arrive ==
    /\ pc = "scan" /\ step = "there"
    /\ IF at = Header THEN Leave ELSE Serve(at)
    /\ step' = "begin"
    /\ UNCHANGED <<at, up, tree>>

-----------------------------------------------------------------------------
\* What goes on as in UDPTransmit.
Otherwise ==
    \/ AddToPool
    \/ \E p \in Producers, c \in Conns : Push(p, c)
    \/ \E p \in Producers : Notify(p)
    \/ Send
    \/ Extra

RaceNext ==
    \/ \E c \in Conns : BeginInsertNode(c)
    \/ WritePointer
    \/ Rebalance
    \/ EndInsertNode
    \/ Wait /\ step' = "begin" /\ UNCHANGED <<at, up, tree>>
    \/ Step
    \/ Descend
    \/ Climb
    \/ Arrive
    \/ Otherwise /\ UNCHANGED <<tree, walk>>

RaceSpec == RaceInit /\ [][RaceNext]_<<vars, tree, walk>>
=============================================================================
