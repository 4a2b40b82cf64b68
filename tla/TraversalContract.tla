-------------------------- MODULE TraversalContract --------------------------
(***************************************************************************)
(* What an iterator over a tree promises (openvdb/openvdb/tree/            *)
(* TreeIterator.h), free of stacks of iterators over nodes: it visits what *)
(* it iterates over in order, each once, at the depths it is bound to.     *)
(* Its range can be split, and the parts share out what was left to visit. *)
(***************************************************************************)
EXTENDS Integers, Sequences, FiniteSets

CONSTANTS Cells, Above, Level, RootLevel, Child, Offset, Root

VARIABLES tree,         \* the tree
          bounds,       \* kind of iterator, lowest and highest level
          left          \* for every part, what is left to visit

ValueKinds == {"on", "off", "all"}
Kinds == ValueKinds \union {"node", "leaf"}

IsTile(T, c) == T[c] # Child
LevelOf(kind, c) == IF c = Root THEN RootLevel
                    ELSE IF kind \in ValueKinds THEN Level[c] ELSE Level[c] - 1

\* Order of traversal: along the entries of a node, and nodes before what they hold.
Comes(c, d) ==
    /\ c # d /\ d # Root
    /\ \/ c = Root \/ c \in Above[d]
       \/ \E a \in Above[c], b \in Above[d] :
             /\ Above[a] \ {a} = Above[b] \ {b} /\ Offset[a] < Offset[b]

Items(T, kind) ==
    IF kind \in ValueKinds
    THEN {c \in DOMAIN T : IsTile(T, c) /\ (kind # "all" => T[c].active = (kind = "on"))}
    ELSE {c \in DOMAIN T : ~ IsTile(T, c) /\ (kind = "leaf" => Level[c] = 1)}
            \union {r \in {Root} : kind = "node"}

Within(S, b) == {c \in S : b.kind = "leaf" \/ LevelOf(b.kind, c) \in b.low .. b.high}

\* A sequence has these items in order.
Lists(s, S) ==
    /\ {s[i] : i \in DOMAIN s} = S
    /\ \A i, j \in DOMAIN s : i < j => Comes(s[i], s[j])

NoBounds == [kind |-> "leaf", low |-> 0, high |-> RootLevel]

Init == bounds = NoBounds /\ left = <<>>

Begin ==
    /\ left = <<>>
    /\ \E kind \in Kinds : bounds' = [NoBounds EXCEPT !.kind = kind]
    /\ Len(left') = 1 /\ Lists(left'[1], Within(Items(tree, bounds'.kind), bounds'))
    /\ tree' = tree

\* What is visited at present stays, if the new bounds allow it.
SetDepths ==
    /\ Len(left) = 1
    /\ \E low, high \in 0 .. RootLevel : bounds' = [bounds EXCEPT !.low = low, !.high = high]
    /\ Len(left') = 1
    /\ IF left[1] = <<>> THEN left'[1] = <<>>
       ELSE LET now == Head(left[1])
            IN  Lists(left'[1], Within({now} \union {c \in Items(tree, bounds.kind) : Comes(now, c)},
                                       bounds'))
    /\ tree' = tree

Advance(p) ==
    /\ left[p] # <<>> /\ left' = [left EXCEPT ![p] = Tail(@)]
    /\ UNCHANGED <<tree, bounds>>

\* Changes what is visited at present.  That must not disturb what is left.
Change(p) ==
    /\ left[p] # <<>> /\ bounds.kind \in ValueKinds
    /\ \E active \in BOOLEAN : tree' = [tree EXCEPT ![Head(left[p])].active = active]
    /\ UNCHANGED <<bounds, left>>

Split(p) ==
    /\ LET half == Len(left[p]) \div 2
       IN  left' = Append([left EXCEPT ![p] = SubSeq(@, half + 1, Len(@))],
                          SubSeq(left[p], 1, half))
    /\ UNCHANGED <<tree, bounds>>

Next ==
    \/ Begin \/ SetDepths
    \/ \E p \in DOMAIN left : Advance(p) \/ Change(p) \/ Split(p)

Spec == Init /\ [][Next]_<<tree, bounds, left>>
===============================================================================
