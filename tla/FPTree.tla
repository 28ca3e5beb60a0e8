-------------------------------- MODULE FPTree --------------------------------
(***************************************************************************)
(* FPTree (src/fptree.cpp): the DRAM index of inner nodes over a chain of  *)
(* leaves, with insert, remove, update, find and the reload of the index   *)
(* from the chain.                                                         *)
(*                                                                         *)
(* root is the tree itself: an inner node is a record of InnerNode, a leaf *)
(* is the map from keys to values its used slots hold (slots, bitmap and   *)
(* fingerprints are in LeafNode).  chain is the sequence of leaves in      *)
(* next/pNext order, which splits and removals edit on their own.          *)
(*                                                                         *)
(* Callers insert keys that are not in the tree and values other than      *)
(* MAX_VALUE.  Leaves never run out (LeafChain has that case).             *)
(***************************************************************************)
EXTENDS InnerNode, FiniteSets, TLC

CONSTANTS LEAF_DEGREE,  \* a leaf splits when it holds 2 * LEAF_DEGREE entries
          Degrees,      \* the degrees a caller may pass to FPTree::FPTree
          Key,          \* the keys in use, a finite set of integers
          Value,        \* the values in use
          MAX_VALUE     \* what find returns for a missing key

ASSUME TreeAssumption ==
    /\ LEAF_DEGREE \in Nat \ {0}
    /\ Degrees \subseteq Nat \ {0}
    /\ Key \subseteq Int
    /\ MAX_VALUE \notin Value

VARIABLES
    degree,  \* t_degree of the open tree
    root,    \* the index and its leaves
    chain,   \* the leaves in the order of their links
    call,    \* the last call, with the arguments the caller gave
    ret,     \* what the last call returned
    status   \* "ok", or why the program has no defined behaviour any more

vars == <<degree, root, chain, call, ret, status>>

Leaf(kv) == [isLeaf |-> TRUE, kv |-> kv]

keysOf(leaf) == DOMAIN leaf.kv

EmptyRoot == Inner(<< >>, << >>)
-------------------------------------------------------------------------------
\* The leaf that find, update, insert and remove reach for key k.
RECURSIVE leafFor(_, _)
leafFor(n, k) ==
    IF n.isLeaf THEN n ELSE leafFor(n.child[findIndex(n.keys, k) + 1], k)

\* LeafNode::find behind InnerNode::find, in a tree that has a leaf.
lookup(n, k) ==
    LET leaf == leafFor(n, k) IN
    IF k \in keysOf(leaf) THEN leaf.kv[k] ELSE MAX_VALUE

\* InnerNode::update and LeafNode::update.
RECURSIVE updated(_, _, _)
updated(n, k, v) ==
    IF n.isLeaf
    THEN Leaf([x \in keysOf(n) |-> IF x = k THEN v ELSE n.kv[x]])
    ELSE LET pos == findIndex(n.keys, k) + 1 IN
         [n EXCEPT !.child[pos] = updated(n.child[pos], k, v)]
-------------------------------------------------------------------------------
(* insert: a node's result is the node and, if it split, the key and the   *)
(* new right neighbour for its parent.                                     *)

NoSplit(n) == [node |-> n, new |-> << >>]

\* findSplitKey: the entry at position LEAF_DEGREE of the sorted keys.
findSplitKey(kv) ==
    CHOOSE k \in DOMAIN kv : Cardinality({x \in DOMAIN kv : x < k}) = LEAF_DEGREE

restrictTo(kv, S) == [k \in S |-> kv[k]]

\* Mutant: the smaller keys move to the new leaf.
leafInsertSwapped(leaf, k, v) ==
    LET kv  == leaf.kv @@ (k :> v)
        mid == findSplitKey(kv)
        lo  == {x \in DOMAIN kv : x < mid}
    IN IF Cardinality(DOMAIN kv) < 2 * LEAF_DEGREE
       THEN NoSplit(Leaf(kv))
       ELSE [node |-> Leaf(restrictTo(kv, DOMAIN kv \ lo)),
             new  |-> << [key |-> mid, node |-> Leaf(restrictTo(kv, lo))] >>]

\* Mutant: a leaf about to be full splits and the new entry is lost.
leafInsertLost(leaf, k, v) ==
    LET mid == findSplitKey(leaf.kv)
        hi  == {x \in keysOf(leaf) : x >= mid}
    IN IF Cardinality(keysOf(leaf)) < 2 * LEAF_DEGREE - 1
       THEN NoSplit(Leaf(leaf.kv @@ (k :> v)))
       ELSE [node |-> Leaf(restrictTo(leaf.kv, keysOf(leaf) \ hi)),
             new  |-> << [key |-> mid, node |-> Leaf(restrictTo(leaf.kv, hi))] >>]

\* LeafNode::insert and LeafNode::split.
leafInsert(leaf, k, v) ==
    LET kv  == leaf.kv @@ (k :> v)
        mid == findSplitKey(kv)
        hi  == {x \in DOMAIN kv : x >= mid}
    IN IF Cardinality(DOMAIN kv) < 2 * LEAF_DEGREE
       THEN NoSplit(Leaf(kv))
       ELSE [node |-> Leaf(restrictTo(kv, DOMAIN kv \ hi)),
             new  |-> << [key |-> mid, node |-> Leaf(restrictTo(kv, hi))] >>]

\* Mutant: a node splits one key too late.
splitIfFullLate(n, d) ==
    IF Len(n.keys) <= 2 * d + 1 THEN NoSplit(n)
    ELSE [node |-> splitLeft(n, d),
          new  |-> << [key |-> splitKey(n, d), node |-> splitRight(n, d)] >>]

\* InnerNode::split once the one-entry buffer of the arrays is in use.
splitIfFull(n, d) ==
    IF Len(n.keys) <= 2 * d THEN NoSplit(n)
    ELSE [node |-> splitLeft(n, d),
          new  |-> << [key |-> splitKey(n, d), node |-> splitRight(n, d)] >>]

\* InnerNode::insert below the root's two special cases.
RECURSIVE insertInto(_, _, _, _)
insertInto(n, k, v, d) ==
    LET pos == findIndex(n.keys, k) + 1
        c   == n.child[pos]
        r   == IF c.isLeaf THEN leafInsert(c, k, v) ELSE insertInto(c, k, v, d)
        m   == [n EXCEPT !.child[pos] = r.node]
    IN IF r.new = << >> THEN NoSplit(m)
       ELSE splitIfFull(insertNonFull(m, r.new[1].key, r.new[1].node), d)

\* A root that split gets a new root above it.
grown(r) ==
    IF r.new = << >> THEN r.node
    ELSE Inner(<< r.new[1].key >>, << r.node, r.new[1].node >>)

\* InnerNode::insertLeaf: like insert, but a node above the leaves appends.
RECURSIVE insertLeafInto(_, _, _, _)
insertLeafInto(n, key, leaf, d) ==
    LET pos == findIndex(n.keys, key) + 1
        c   == n.child[pos]
        r   == insertLeafInto(c, key, leaf, d)
        m   == [n EXCEPT !.child[pos] = r.node]
    IN IF c.isLeaf
       THEN splitIfFull(Inner(Append(n.keys, key), Append(n.child, leaf)), d)
       ELSE IF r.new = << >> THEN NoSplit(m)
       ELSE splitIfFull(insertNonFull(m, r.new[1].key, r.new[1].node), d)

insertLeaf(n, leaf, d) ==
    LET minKey == CHOOSE k \in keysOf(leaf) : \A x \in keysOf(leaf) : k <= x IN
    IF n.child = << >> THEN Inner(<< >>, << leaf >>)
    ELSE IF n.keys = << >> THEN Inner(<< minKey >>, Append(n.child, leaf))
    ELSE grown(insertLeafInto(n, minKey, leaf, d))

\* FPTree::bulkLoading over the chain.
bulkLoading(d) == FoldLeft(LAMBDA n, leaf : insertLeaf(n, leaf, d), EmptyRoot, chain)
-------------------------------------------------------------------------------
(* remove: a node's result is the node, whether one of its children was    *)
(* deleted (the code's ifDelete) and whether redistributeLeft ran.         *)

Kept(n) == [node |-> n, ifDelete |-> FALSE, undefined |-> FALSE]

Shrunk(n) == [node |-> n, ifDelete |-> TRUE, undefined |-> FALSE]

\* The part of InnerNode::remove that the i-th child of parent runs after one of
\* its own children was deleted.  redistributeLeft computes a negative moveKeys
\* and writes in front of keys and childrens: nothing is known after it.
rebalance(parent, i, d, isRoot) ==
    LET nKeys == Len(parent.child[i].keys)
        leftBro == i > 1
        rightBro == i < Len(parent.child)
        brotherKeys(j) == Len(parent.child[j].keys)
    IN IF nKeys >= d THEN Kept(parent)
       ELSE IF rightBro /\ brotherKeys(i + 1) + nKeys >= 2 * d
            THEN Kept(redistributeRight(parent, i))
       ELSE IF leftBro /\ brotherKeys(i - 1) + nKeys >= 2 * d
            THEN [node |-> parent, ifDelete |-> FALSE, undefined |-> TRUE]
       ELSE IF isRoot /\ Len(parent.child) = 2
            THEN Kept(mergeParent(parent))
       ELSE IF rightBro THEN Shrunk(dropChild(mergeRight(parent, i), i))
       ELSE Shrunk(dropChild(mergeLeft(parent, i), i))

\* LeafNode::remove.
leafRemove(leaf, k) == Leaf(restrictTo(leaf.kv, keysOf(leaf) \ {k}))

\* InnerNode::remove of a node with at least two children.
RECURSIVE removeFrom(_, _, _, _)
removeFrom(n, k, d, isRoot) ==
    LET pos == findIndex(n.keys, k) + 1
        c   == n.child[pos]
        c2  == leafRemove(c, k)
        r   == removeFrom(c, k, d, FALSE)
        m   == [n EXCEPT !.child[pos] = r.node]
    IN IF c.isLeaf
       THEN IF keysOf(c2) = {} THEN Shrunk(dropChild(n, pos))
                               ELSE Kept([n EXCEPT !.child[pos] = c2])
       ELSE IF r.ifDelete /\ ~r.undefined THEN rebalance(m, pos, d, isRoot)
       ELSE [node |-> m, ifDelete |-> FALSE, undefined |-> r.undefined]

\* The root with a single leaf, and the rest.
removeFromRoot(k) ==
    IF root.child = << >> THEN Kept(root)
    ELSE IF root.keys = << >>
    THEN LET c2 == leafRemove(root.child[1], k) IN
         Kept(IF keysOf(c2) = {} THEN EmptyRoot ELSE Inner(<< >>, << c2 >>))
    ELSE removeFrom(root, k, degree, TRUE)
-------------------------------------------------------------------------------
KV == INSTANCE KVStore WITH
        map <- [k \in Key |-> IF root.child = << >> THEN MAX_VALUE
                              ELSE lookup(root, k)]

Init ==
    /\ degree \in Degrees
    /\ root = EmptyRoot
    /\ chain = << >>
    /\ call = <<"reopen">>
    /\ ret = "void"
    /\ status = "ok"

stored == UNION {keysOf(chain[i]) : i \in 1 .. Len(chain)}

\* The position in the chain of the leaf that k belongs to.
chainPos(k) == CHOOSE i \in 1 .. Len(chain) : chain[i] = leafFor(root, k)

\* FPTree::insert.  A leaf that splits is followed by the new one.
insert(k, v) ==
    /\ status = "ok" /\ k \notin stored
    /\ IF root.child = << >>
       THEN /\ root' = Inner(<< >>, << leafInsert(Leaf(<< >>), k, v).node >>)
            /\ chain' = << leafInsert(Leaf(<< >>), k, v).node >>
       ELSE LET r == leafInsert(leafFor(root, k), k, v)
                i == chainPos(k)
            IN /\ root' = grown(insertInto(root, k, v, degree))
               /\ chain' = IF r.new = << >> THEN ReplaceAt(chain, i, r.node)
                           ELSE InsertAt(ReplaceAt(chain, i, r.node), i + 1, r.new[1].node)
    /\ call' = <<"insert", k, v>>
    /\ ret' = "void"
    /\ UNCHANGED <<degree, status>>

\* FPTree::remove.  An emptied leaf is unlinked from the chain.
remove(k) ==
    LET found == root.child # << >> /\ lookup(root, k) # MAX_VALUE
        r     == removeFromRoot(k)
        leaf  == leafRemove(leafFor(root, k), k)
        i     == chainPos(k)
    IN /\ status = "ok"
       /\ \/ /\ ~found
             /\ call' = <<"remove", k>>
             /\ ret' = "false"
             /\ UNCHANGED <<root, chain, status>>
          \/ /\ found /\ r.undefined
             /\ status' = "redistributeLeft"
             /\ UNCHANGED <<root, chain, call, ret>>
          \/ /\ found /\ ~r.undefined
             /\ root' = r.node
             /\ chain' = IF keysOf(leaf) = {} THEN RemoveAt(chain, i)
                                             ELSE ReplaceAt(chain, i, leaf)
             /\ call' = <<"remove", k>>
             /\ ret' = "true"
             /\ UNCHANGED status
       /\ UNCHANGED degree

\* An inner node without a child still reads childrens[0]: NULL, or a pointer
\* that was never set or whose leaf is deleted.  Then the call does not return.
readNoChild(thisCall, failed) ==
    \/ call' = thisCall /\ ret' = failed /\ status' = "ok"
    \/ UNCHANGED <<call, ret>> /\ status' = "childrens[0]"

update(k, v) ==
    /\ status = "ok"
    /\ IF root.child = << >>
       THEN readNoChild(<<"update", k, v>>, "false") /\ UNCHANGED <<root, chain>>
       ELSE /\ call' = <<"update", k, v>>
            /\ IF lookup(root, k) = MAX_VALUE
               THEN ret' = "false" /\ UNCHANGED <<root, chain>>
               ELSE /\ root' = updated(root, k, v)
                    /\ chain' = ReplaceAt(chain, chainPos(k), updated(leafFor(root, k), k, v))
                    /\ ret' = "true"
            /\ UNCHANGED status
    /\ UNCHANGED degree

find(k) ==
    /\ status = "ok"
    /\ IF root.child = << >> THEN readNoChild(<<"find", k>>, MAX_VALUE)
       ELSE call' = <<"find", k>> /\ ret' = lookup(root, k) /\ UNCHANGED status
    /\ UNCHANGED <<degree, root, chain>>

\* Mutant: the tree records the wrong degree.
reopenLess(d) ==
    /\ status = "ok"
    /\ degree' = d - 1
    /\ root' = bulkLoading(d)
    /\ call' = <<"reopen">>
    /\ ret' = "void"
    /\ UNCHANGED <<chain, status>>

\* delete tree, then new FPTree(d) on the same leaves.
reopen(d) ==
    /\ status = "ok"
    /\ degree' = d
    /\ root' = bulkLoading(d)
    /\ call' = <<"reopen">>
    /\ ret' = "void"
    /\ UNCHANGED <<chain, status>>

Next ==
    \/ \E k \in Key, v \in Value : insert(k, v)
    \/ \E k \in Key : remove(k)
    \/ \E k \in Key, v \in Value : update(k, v)
    \/ \E k \in Key : find(k)
    \/ \E d \in Degrees : reopen(d)

Spec == Init /\ [][Next]_vars
-------------------------------------------------------------------------------
RECURSIVE innerNodes(_)
innerNodes(n) ==
    IF n.isLeaf THEN {}
    ELSE {n} \cup UNION {innerNodes(n.child[i]) : i \in 1 .. Len(n.child)}

RECURSIVE depths(_)
depths(n) ==
    IF n.isLeaf THEN {0}
    ELSE {x + 1 : x \in UNION {depths(n.child[i]) : i \in 1 .. Len(n.child)}}

\* The leaves below n from left to right.
RECURSIVE inOrder(_)
inOrder(n) ==
    IF n.isLeaf THEN << n >>
    ELSE FoldLeft(LAMBDA s, c : s \o inOrder(c), << >>, n.child)

\* Every key below n lies between lo and hi, and below child i between the keys
\* on its two sides.
RECURSIVE separated(_, _, _)
separated(n, lo, hi) ==
    IF n.isLeaf THEN \A k \in keysOf(n) : lo <= k /\ k < hi
    ELSE \A i \in 1 .. Len(n.child) :
            separated(n.child[i],
                      IF i = 1 THEN lo ELSE n.keys[i - 1],
                      IF i = Len(n.child) THEN hi ELSE n.keys[i])

\* For TLC: no operation looks at a value.
ValueSymmetry == Permutations(Value)

\* For TLC: no operation looks at the call before it or at what that returned, so
\* states that differ only there have the same successors.  Every step to such a
\* state is still checked.
TreeView == <<degree, root, chain, status>>

MinKey == CHOOSE k \in Key : \A x \in Key : k <= x
MaxKey == CHOOSE k \in Key : \A x \in Key : k >= x

TypeOK ==
    /\ degree \in Degrees
    /\ ~root.isLeaf
    /\ \A i \in 1 .. Len(chain) :
        keysOf(chain[i]) \subseteq Key /\ \A k \in keysOf(chain[i]) : chain[i].kv[k] \in Value
    /\ ret \in {"void", "true", "false", MAX_VALUE} \cup Value
    /\ status \in {"ok", "redistributeLeft", "childrens[0]"}

\* The shape the comment on InnerNode's constructor gives: d to 2d keys in
\* every inner node but the root, one child more than keys, all leaves at the
\* same depth.  insert, the merges and the reload keep it.
Balanced ==
    /\ Len(root.keys) <= 2 * degree
    /\ IF root.keys = << >> THEN Len(root.child) <= 1 /\ depths(root) \subseteq {1}
                            ELSE Cardinality(depths(root)) = 1
    /\ \A n \in innerNodes(root) : n # root =>
        Len(n.keys) \in degree .. 2 * degree
    /\ \A n \in innerNodes(root) : n.keys # << >> =>
        Len(n.child) = Len(n.keys) + 1

\* Every separator on the way to a leaf bounds the keys of the leaf, so the
\* binary searches of find, update, insert and remove meet at the same leaf,
\* whatever splits, merges, redistributions and reloads came before.  The keys of
\* each node ascend, as the binary search needs.
SearchTree ==
    /\ separated(root, MinKey, MaxKey + 1)
    /\ \A n \in innerNodes(root) : \A i, j \in 1 .. Len(n.keys) :
        i < j => n.keys[i] < n.keys[j]

\* Walking the links visits the leaves in the order of the index, with their
\* keys ascending: what insertLeaf relies on when it appends.
ChainIsInOrder ==
    /\ chain = inOrder(root)
    /\ \A i, j \in 1 .. Len(chain) : i < j =>
        \A x \in keysOf(chain[i]), y \in keysOf(chain[j]) : x < y

\* The tree behaves as a map: a call of insert, remove or update changes the map
\* at the key it was given, to the value it was given, and nowhere else; every
\* call returns what the map says of its own key; and rebuilding the index from
\* the leaves changes nothing.
ImplementsKVStore == KV!Spec

\* fptree.cpp:386-390: redistributeLeft is called when "the left has more
\* entries" and moves "moveKeys from left to right".
RedistributeLeftIsDefined == status # "redistributeLeft"

\* fptree.cpp:502: find returns "MAX_VALUE if it fails"; fptree.cpp:493: update
\* returns true only "if the update succeed".  In an empty tree too.
EmptyTreeAnswers == status # "childrens[0]"
===============================================================================
