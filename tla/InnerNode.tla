------------------------------- MODULE InnerNode -------------------------------
(***************************************************************************)
(* The operations of InnerNode (src/fptree.cpp) on one node, or on a       *)
(* parent and two of its children.                                         *)
(*                                                                         *)
(* A node is a record of its keys[0 .. nKeys-1] and childrens[0 ..         *)
(* nChild-1]; position p of the code is index p + 1 here.  d is the        *)
(* degree.  The walk over the levels of the tree is in FPTree.             *)
(***************************************************************************)
EXTENDS Integers, Sequences, SequencesExt

Inner(keys, child) == [isLeaf |-> FALSE, keys |-> keys, child |-> child]

\* The binary search over keys[left .. right], positions as in the code.
findIndex(keys, k) ==
    LET n == Len(keys)
        search[left \in 0 .. n, right \in -1 .. n - 1] ==
            IF left > right THEN left
            ELSE LET mid == (left + right) \div 2 IN
                 IF keys[mid + 1] > k THEN search[left, mid - 1]
                                      ELSE search[mid + 1, right]
    IN search[0, n - 1]

\* Mutant: the new child goes to the left of its key.
insertNonFullBefore(n, k, node) ==
    LET pos == findIndex(n.keys, k) IN
    Inner(InsertAt(n.keys, pos + 1, k), InsertAt(n.child, pos + 1, node))

\* The early return for a node without keys never happens: an inner node that was
\* split off has degree keys, and of a leaf the cast reads the low half of
\* pmem_addr, an address inside a mapped page and behind its header.
insertNonFull(n, k, node) ==
    LET pos == findIndex(n.keys, k) IN
    Inner(InsertAt(n.keys, pos + 1, k), InsertAt(n.child, pos + 2, node))

\* split leaves the first degree keys, hands out the next one and moves the
\* last degree keys and degree + 1 children to a new node.
splitLeft(n, d) == Inner(SubSeq(n.keys, 1, d), SubSeq(n.child, 1, d + 1))

splitKey(n, d) == n.keys[d + 1]

splitRight(n, d) ==
    Inner(SubSeq(n.keys, d + 2, 2 * d + 1),
          Append(SubSeq(n.child, d + 2, 2 * d + 1), n.child[Len(n.child)]))

removeChild(n, keyIdx, childIdx) ==
    Inner(RemoveAt(n.keys, keyIdx), RemoveAt(n.child, childIdx))

\* Mutant: the key to the left of the child is dropped.
dropChildLeftKey(n, pos) == removeChild(n, IF pos > 1 THEN pos - 1 ELSE 1, pos)

\* After merging or emptying the child at pos, the parent drops it and the key
\* to its right, or the last key if it is the last child.
dropChild(n, pos) ==
    removeChild(n, IF pos <= Len(n.keys) THEN pos ELSE pos - 1, pos)
-------------------------------------------------------------------------------
\* C++ division: the sum is never negative.
moveKeysRight(nKeys, rightKeys) == (nKeys + rightKeys) \div 2 - nKeys

moveKeysLeft(leftKeys, nKeys) == (leftKeys + nKeys) \div 2 - leftKeys

\* Child i of parent takes m keys, through the parent, from child i + 1.
redistributeRight(parent, i) ==
    LET t == parent.child[i]
        r == parent.child[i + 1]
        m == moveKeysRight(Len(t.keys), Len(r.keys))
        t2 == Inner(Append(t.keys, parent.keys[i]) \o SubSeq(r.keys, 1, m - 1),
                    t.child \o SubSeq(r.child, 1, m))
        r2 == Inner(SubSeq(r.keys, m + 1, Len(r.keys)),
                    SubSeq(r.child, m + 1, Len(r.child)))
    IN Inner([parent.keys EXCEPT ![i] = r.keys[m]],
             [parent.child EXCEPT ![i] = t2, ![i + 1] = r2])

\* The keys and children of two neighbours joined by the key between them: what
\* mergeLeft, mergeRight, mergeParentLeft and mergeParentRight all store.
joined(left, k, right) ==
    Inner(Append(left.keys, k) \o right.keys, left.child \o right.child)

\* mergeRight fills child i + 1 and mergeLeft child i - 1; the caller then
\* deletes child i.
mergeRight(parent, i) ==
    [parent EXCEPT !.child[i + 1] =
        joined(parent.child[i], parent.keys[i], parent.child[i + 1])]

mergeLeft(parent, i) ==
    [parent EXCEPT !.child[i - 1] =
        joined(parent.child[i - 1], parent.keys[i - 1], parent.child[i])]

\* mergeParentLeft and mergeParentRight: the root takes over both children.
mergeParent(root) == joined(root.child[1], root.keys[1], root.child[2])
================================================================================
