---------------------------- MODULE InnerNode_proofs ----------------------------
(***************************************************************************)
(* For every degree and every node: split and the merges are inverse to    *)
(* each other, redistributeRight keeps the order of keys and children and  *)
(* leaves both nodes legal, and redistributeLeft moves a negative number   *)
(* of keys whenever remove calls it.                                       *)
(***************************************************************************)
EXTENDS InnerNode, SequenceTheorems, TLAPS

\* Inner nodes with keys from K and children from C.
NodeSet(K, C) == [isLeaf : {FALSE}, keys : Seq(K), child : Seq(C)]

\* Every inner node has one child more than keys.
Full(n) == Len(n.child) = Len(n.keys) + 1

\* The keys and children that the i-th child and its right neighbour hold
\* together with the key between them, in order.
Span(p, i) == joined(p.child[i], p.keys[i], p.child[i + 1])
-------------------------------------------------------------------------------
\* A sequence is what is before position m, what is at m and what is after m.
LEMMA CutAtElement ==
    ASSUME NEW S, NEW s \in Seq(S), NEW m \in 1 .. Len(s)
    PROVE  /\ SubSeq(s, 1, m - 1) \in Seq(S) /\ SubSeq(s, m + 1, Len(s)) \in Seq(S)
           /\ Len(SubSeq(s, 1, m - 1)) = m - 1
           /\ Len(SubSeq(s, m + 1, Len(s))) = Len(s) - m
           /\ s[m] \in S
           /\ Append(SubSeq(s, 1, m - 1), s[m]) \o SubSeq(s, m + 1, Len(s)) = s
<1>0. Len(s) \in Nat /\ m \in Int /\ s[m] \in S
  BY LenProperties, ElementOfSeq
<1>1. /\ SubSeq(s, 1, m - 1) \in Seq(S) /\ SubSeq(s, m + 1, Len(s)) \in Seq(S)
      /\ Len(SubSeq(s, 1, m - 1)) = m - 1
      /\ Len(SubSeq(s, m + 1, Len(s))) = Len(s) - m
  BY <1>0, SubSeqProperties, ElementOfSeq
<1>2. Append(SubSeq(s, 1, m - 1), s[m]) = SubSeq(s, 1, m - 1) \o << s[m] >>
  BY <1>0, <1>1, AppendIsConcat
<1>3. SubSeq(s, 1, m) = SubSeq(s, 1, m - 1) \o << s[m] >>
  <2>1. 1 \in 1 .. Len(s) /\ m \in 1 .. Len(s)
    BY <1>0
  <2> QED
    BY <2>1, SubSeqRecursiveSecond, ZenonT(60)
<1>4. SubSeq(s, 1, m) \o SubSeq(s, m + 1, Len(s)) = SubSeq(s, 1, Len(s))
  <2>1. 1 \in 1 .. Len(s) + 1 /\ m \in 1 - 1 .. Len(s) /\ Len(s) \in m .. Len(s)
    BY <1>0
  <2> QED
    BY <2>1, ConcatAdjacentSubSeq, ZenonT(60)
<1>5. SubSeq(s, 1, Len(s)) = s
  BY SubSeqFull
<1> QED
  BY <1>0, <1>1, <1>2, <1>3, <1>4, <1>5, ZenonT(60)

\* A sequence is its first m elements and the rest.
LEMMA CutAfter ==
    ASSUME NEW S, NEW s \in Seq(S), NEW m \in 0 .. Len(s)
    PROVE  /\ SubSeq(s, 1, m) \in Seq(S) /\ SubSeq(s, m + 1, Len(s)) \in Seq(S)
           /\ Len(SubSeq(s, 1, m)) = m
           /\ Len(SubSeq(s, m + 1, Len(s))) = Len(s) - m
           /\ SubSeq(s, 1, m) \o SubSeq(s, m + 1, Len(s)) = s
<1>0. Len(s) \in Nat /\ m \in Int
  BY LenProperties
<1>1. /\ SubSeq(s, 1, m) \in Seq(S) /\ SubSeq(s, m + 1, Len(s)) \in Seq(S)
      /\ Len(SubSeq(s, 1, m)) = m
      /\ Len(SubSeq(s, m + 1, Len(s))) = Len(s) - m
  BY <1>0, SubSeqProperties, ElementOfSeq
<1>2. SubSeq(s, 1, m) \o SubSeq(s, m + 1, Len(s)) = SubSeq(s, 1, Len(s))
  <2>1. 1 \in 1 .. Len(s) + 1 /\ m \in 1 - 1 .. Len(s) /\ Len(s) \in m .. Len(s)
    BY <1>0
  <2> QED
    BY <2>1, ConcatAdjacentSubSeq, ZenonT(60)
<1>3. SubSeq(s, 1, Len(s)) = s
  BY SubSeqFull
<1> QED
  BY <1>1, <1>2, <1>3, ZenonT(60)
-------------------------------------------------------------------------------
\* InnerNode::split of a node with 2 * degree + 1 keys loses, repeats and reorders
\* nothing: joining the halves again gives the node back; each half is a legal
\* node of degree keys.
THEOREM SplitIsLossless ==
    ASSUME NEW K, NEW C, NEW n \in NodeSet(K, C), NEW d \in Nat \ {0},
           Full(n), Len(n.keys) = 2 * d + 1
    PROVE  /\ splitLeft(n, d) \in NodeSet(K, C) /\ splitRight(n, d) \in NodeSet(K, C)
           /\ Len(splitLeft(n, d).keys) = d /\ Full(splitLeft(n, d))
           /\ Len(splitRight(n, d).keys) = d /\ Full(splitRight(n, d))
           /\ joined(splitLeft(n, d), splitKey(n, d), splitRight(n, d)) = n
<1> DEFINE ks == n.keys
           cs == n.child
<1>1. ks \in Seq(K) /\ cs \in Seq(C) /\ Len(ks) = 2 * d + 1 /\ Len(cs) = 2 * d + 2
  <2>1. n.keys \in Seq(K) /\ n.child \in Seq(C)
    BY DEF NodeSet
  <2>2. Len(n.child) = (2 * d + 1) + 1
    BY DEF Full
  <2> QED
    BY <2>1, <2>2
<1>0. n = [isLeaf |-> FALSE, keys |-> ks, child |-> cs]
  BY ZenonT(60) DEF NodeSet
<1> HIDE DEF ks, cs
<1>2. /\ SubSeq(ks, 1, d) \in Seq(K) /\ SubSeq(ks, d + 2, 2 * d + 1) \in Seq(K)
      /\ Len(SubSeq(ks, 1, d)) = d /\ Len(SubSeq(ks, d + 2, 2 * d + 1)) = d
      /\ Append(SubSeq(ks, 1, d), ks[d + 1]) \o SubSeq(ks, d + 2, 2 * d + 1) = ks
  <2> DEFINE m == d + 1
  <2>1. m \in 1 .. Len(ks) /\ m - 1 = d /\ m + 1 = d + 2 /\ Len(ks) - m = d
    BY <1>1
  <2> HIDE DEF m
  <2>2. /\ SubSeq(ks, 1, m - 1) \in Seq(K) /\ SubSeq(ks, m + 1, Len(ks)) \in Seq(K)
        /\ Len(SubSeq(ks, 1, m - 1)) = m - 1
        /\ Len(SubSeq(ks, m + 1, Len(ks))) = Len(ks) - m
        /\ Append(SubSeq(ks, 1, m - 1), ks[m]) \o SubSeq(ks, m + 1, Len(ks)) = ks
    BY <1>1, <2>1, CutAtElement, ZenonT(60)
  <2>3. m = d + 1
    BY DEF m
  <2> QED
    BY <1>1, <2>1, <2>2, <2>3, Zenon
<1>3. Append(SubSeq(cs, d + 2, 2 * d + 1), cs[Len(cs)]) = SubSeq(cs, d + 2, 2 * d + 2)
  <2> DEFINE a == d + 2
             b == 2 * d + 2
  <2>1. a \in 1 .. Len(cs) /\ b \in a .. Len(cs) /\ b - 1 = 2 * d + 1 /\ Len(cs) = b
    BY <1>1
  <2>2. SubSeq(cs, a, b - 1) \in Seq(C) /\ cs[b] \in C
    BY <1>1, <2>1, SubSeqProperties, ElementOfSeq, SMTT(60)
  <2>3. a = d + 2 /\ b = 2 * d + 2
    OBVIOUS
  <2> HIDE DEF a, b
  <2>4. SubSeq(cs, a, b) = SubSeq(cs, a, b - 1) \o << cs[b] >>
    BY <1>1, <2>1, SubSeqRecursiveSecond, ZenonT(60)
  <2>5. Append(SubSeq(cs, a, b - 1), cs[b]) = SubSeq(cs, a, b - 1) \o << cs[b] >>
    BY <2>2, AppendIsConcat, ZenonT(60)
  <2> QED
    BY <2>1, <2>3, <2>4, <2>5, Zenon
<1>4. /\ SubSeq(cs, 1, d + 1) \in Seq(C) /\ SubSeq(cs, d + 2, 2 * d + 2) \in Seq(C)
      /\ Len(SubSeq(cs, 1, d + 1)) = d + 1
      /\ Len(SubSeq(cs, d + 2, 2 * d + 2)) = d + 1
      /\ SubSeq(cs, 1, d + 1) \o SubSeq(cs, d + 2, 2 * d + 2) = cs
  <2> DEFINE m == d + 1
  <2>1. m \in 0 .. Len(cs) /\ m + 1 = d + 2 /\ Len(cs) - m = d + 1
    BY <1>1
  <2> HIDE DEF m
  <2>2. /\ SubSeq(cs, 1, m) \in Seq(C) /\ SubSeq(cs, m + 1, Len(cs)) \in Seq(C)
        /\ Len(SubSeq(cs, 1, m)) = m
        /\ Len(SubSeq(cs, m + 1, Len(cs))) = Len(cs) - m
        /\ SubSeq(cs, 1, m) \o SubSeq(cs, m + 1, Len(cs)) = cs
    BY <1>1, <2>1, CutAfter, ZenonT(60)
  <2>3. m = d + 1
    BY DEF m
  <2> QED
    BY <1>1, <2>1, <2>2, <2>3, ZenonT(60)
<1>5. /\ splitLeft(n, d) = [isLeaf |-> FALSE, keys |-> SubSeq(ks, 1, d),
                            child |-> SubSeq(cs, 1, d + 1)]
      /\ splitRight(n, d) = [isLeaf |-> FALSE, keys |-> SubSeq(ks, d + 2, 2 * d + 1),
                             child |-> SubSeq(cs, d + 2, 2 * d + 2)]
      /\ splitKey(n, d) = ks[d + 1]
  BY <1>3, ZenonT(60) DEF splitLeft, splitRight, splitKey, Inner, ks, cs
<1>6. /\ splitLeft(n, d) \in NodeSet(K, C) /\ splitRight(n, d) \in NodeSet(K, C)
      /\ Len(splitLeft(n, d).keys) = d /\ Full(splitLeft(n, d))
      /\ Len(splitRight(n, d).keys) = d /\ Full(splitRight(n, d))
  BY <1>2, <1>4, <1>5 DEF NodeSet, Full
<1>7. joined(splitLeft(n, d), splitKey(n, d), splitRight(n, d)) = n
  <2>1. joined(splitLeft(n, d), splitKey(n, d), splitRight(n, d)) =
        [isLeaf |-> FALSE,
         keys   |-> Append(SubSeq(ks, 1, d), ks[d + 1]) \o SubSeq(ks, d + 2, 2 * d + 1),
         child  |-> SubSeq(cs, 1, d + 1) \o SubSeq(cs, d + 2, 2 * d + 2)]
    BY <1>5 DEF joined, Inner
  <2> QED
    BY <1>0, <1>2, <1>4, <2>1, Zenon
<1> QED
  BY <1>6, <1>7
-------------------------------------------------------------------------------
\* What remove knows when it calls redistributeRight or redistributeLeft: one node
\* has degree - 1 keys and the two have at least 2 * degree.
\* redistributeRight then moves at least one key, keeps at least degree in the
\* brother and gives at least degree to the node.
THEOREM RightMoveIsLegal ==
    ASSUME NEW d \in Nat \ {0}, NEW r \in Nat, (d - 1) + r >= 2 * d
    PROVE  LET m == moveKeysRight(d - 1, r) IN
           /\ m \in 1 .. r
           /\ (d - 1) + m >= d
           /\ r - m >= d
BY DEF moveKeysRight

\* redistributeLeft's moveKeys is negative in every call: it never moves a key to
\* the right, and it indexes keys and childrens below 0.
THEOREM LeftMoveIsNegative ==
    ASSUME NEW d \in Nat \ {0}, NEW l \in Nat, l + (d - 1) >= 2 * d
    PROVE  moveKeysLeft(l, d - 1) < 0
BY DEF moveKeysLeft

\* Concatenation may be bracketed either way.
Assoc(a, b, c) == (a \o b) \o c = a \o (b \o c)

\* The library's associativity theorem, folded into one operator.
LEMMA ConcatAssoc ==
    ASSUME NEW K, NEW a \in Seq(K), NEW b \in Seq(K), NEW c \in Seq(K)
    PROVE  Assoc(a, b, c)
BY ConcatAssociative, SMTT(60) DEF Assoc

\* Attaching e to a \o x, or x and e to a, is the same.
Attaches(a, x, e, y) == Append(a \o x, e) \o y = a \o (Append(x, e) \o y)

\* A sequence and an element may be attached before or after what precedes them.
LEMMA FourParts ==
    ASSUME NEW K, NEW a \in Seq(K), NEW x \in Seq(K), NEW e \in K, NEW y \in Seq(K)
    PROVE  Attaches(a, x, e, y)
<1> DEFINE ax == a \o x
           xe == Append(x, e)
<1>1. ax \in Seq(K) /\ xe \in Seq(K)
  BY ConcatProperties, AppendProperties, SMTT(60)
<1>2. Append(ax, e) = ax \o <<e>> /\ xe = x \o <<e>>
  <2> HIDE DEF ax
  <2> QED
    BY <1>1, AppendIsConcat, SMTT(60)
<1>3. ax \o <<e>> = a \o xe
  <2>1. <<e>> \in Seq(K)
    OBVIOUS
  <2>2. Assoc(a, x, <<e>>)
    BY <2>1, ConcatAssoc, ZenonT(60)
  <2> QED
    BY <1>2, <2>2, ZenonT(60) DEF Assoc
<1> HIDE DEF ax, xe
<1>4. (a \o xe) \o y = a \o (xe \o y)
  <2>1. Assoc(a, xe, y)
    BY <1>1, ConcatAssoc, ZenonT(60)
  <2> QED
    BY <2>1, ZenonT(60) DEF Assoc
<1> QED
  BY <1>2, <1>3, <1>4, Zenon DEF Attaches, ax, xe

\* The keys of redistributeRight after m of them have moved.
KeysMoved(tk, pk, rk, m) ==
    /\ Append(Append(tk, pk) \o SubSeq(rk, 1, m - 1), rk[m])
           \o SubSeq(rk, m + 1, Len(rk)) = Append(tk, pk) \o rk
    /\ Len(Append(tk, pk) \o SubSeq(rk, 1, m - 1)) = Len(tk) + m
    /\ Len(SubSeq(rk, m + 1, Len(rk))) = Len(rk) - m

\* Moving m elements of one sequence, through a single place, to the end of another
\* leaves the two put together as they were: the keys of redistributeRight.
LEMMA KeyMoveKeepsOrder ==
    ASSUME NEW K, NEW tk \in Seq(K), NEW pk \in K, NEW rk \in Seq(K),
           NEW m \in 1 .. Len(rk)
    PROVE  KeysMoved(tk, pk, rk, m)
<1> DEFINE A == Append(tk, pk)
           X == SubSeq(rk, 1, m - 1)
           Y == SubSeq(rk, m + 1, Len(rk))
           e == rk[m]
<1>1. A \in Seq(K) /\ Len(A) = Len(tk) + 1
  BY AppendProperties
<1>2. X \in Seq(K) /\ Y \in Seq(K) /\ Len(X) = m - 1 /\ Len(Y) = Len(rk) - m
      /\ e \in K /\ Append(X, e) \o Y = rk
  BY CutAtElement, ZenonT(60)
<1> HIDE DEF A, X, Y, e
<1>5. Append(A \o X, e) \o Y = A \o rk
  <2>1. A \in Seq(K) /\ X \in Seq(K) /\ e \in K /\ Y \in Seq(K)
    BY <1>1, <1>2
  <2>2. Attaches(A, X, e, Y)
    BY <2>1, FourParts, ZenonT(60)
  <2> QED
    BY <1>2, <2>2, Zenon DEF Attaches
<1>6. A \o X \in Seq(K) /\ Len(A \o X) = Len(A) + Len(X)
  BY <1>1, <1>2, ConcatProperties, ZenonT(60)
<1>7. Len(A \o X) = Len(tk) + m
  BY <1>1, <1>2, <1>6, LenProperties, SMTT(60)
<1> QED
  BY <1>2, <1>5, <1>7, ZenonT(60) DEF KeysMoved, A, X, Y, e

\* The same for the children of redistributeRight, which move directly.
LEMMA ChildMoveKeepsOrder ==
    ASSUME NEW C, NEW tc \in Seq(C), NEW rc \in Seq(C), NEW m \in 0 .. Len(rc)
    PROVE  (tc \o SubSeq(rc, 1, m)) \o SubSeq(rc, m + 1, Len(rc)) = tc \o rc
<1> DEFINE U == SubSeq(rc, 1, m)
           V == SubSeq(rc, m + 1, Len(rc))
<1>1. U \in Seq(C) /\ V \in Seq(C) /\ U \o V = rc
  BY CutAfter, Zenon
<1> HIDE DEF U, V
<1>3. U \in Seq(C) /\ V \in Seq(C)
  BY <1>1
<1>2. (tc \o U) \o V = tc \o (U \o V)
  <2>1. Assoc(tc, U, V)
    BY <1>3, ConcatAssoc, ZenonT(60)
  <2> QED
    BY <2>1, Zenon DEF Assoc
<1> QED
  BY <1>1, <1>2, ZenonT(60) DEF U, V

\* redistributeRight as remove calls it, on a node of degree - 1 keys and a right
\* brother that can spare some: the keys and children below the two nodes, with the
\* key between them, stay the same and in the same order, and both nodes end with
\* at least degree keys.
THEOREM RedistributeRightIsLossless ==
    ASSUME NEW K, NEW C, NEW p \in NodeSet(K, NodeSet(K, C)), Full(p),
           NEW i \in 1 .. Len(p.keys), NEW d \in Nat \ {0},
           Full(p.child[i]), Full(p.child[i + 1]),
           Len(p.child[i].keys) = d - 1,
           (d - 1) + Len(p.child[i + 1].keys) >= 2 * d
    PROVE  /\ Span(redistributeRight(p, i), i) = Span(p, i)
           /\ Len(redistributeRight(p, i).child[i].keys) >= d
           /\ Len(redistributeRight(p, i).child[i + 1].keys) >= d
<1> DEFINE t == p.child[i]
           r == p.child[i + 1]
           tk == t.keys
           tc == t.child
           rk == r.keys
           rc == r.child
           pk == p.keys[i]
           m == moveKeysRight(Len(tk), Len(rk))
           t2 == Inner(Append(tk, pk) \o SubSeq(rk, 1, m - 1),
                       tc \o SubSeq(rc, 1, m))
           r2 == Inner(SubSeq(rk, m + 1, Len(rk)), SubSeq(rc, m + 1, Len(rc)))
           q == redistributeRight(p, i)
<1>1. /\ p.keys \in Seq(K) /\ p.child \in Seq(NodeSet(K, C))
      /\ Len(p.child) = Len(p.keys) + 1
  BY DEF NodeSet, Full
<1>2. t \in NodeSet(K, C) /\ r \in NodeSet(K, C) /\ pk \in K
  <2>1. i \in 1 .. Len(p.keys) /\ i \in 1 .. Len(p.child) /\ i + 1 \in 1 .. Len(p.child)
    BY <1>1, LenProperties, SMTT(60)
  <2>2. p.keys[i] \in K /\ p.child[i] \in NodeSet(K, C)
    BY <1>1, <2>1, ElementOfSeq, Zenon
  <2> DEFINE j == i + 1
  <2> HIDE DEF j
  <2>3. p.child[j] \in NodeSet(K, C)
    <3>1. j \in 1 .. Len(p.child)
      BY <2>1 DEF j
    <3> QED
      BY <1>1, <3>1, ElementOfSeq, ZenonT(60)
  <2> QED
    BY <2>2, <2>3, ZenonT(60) DEF j
<1>3. tk \in Seq(K) /\ tc \in Seq(C) /\ rk \in Seq(K) /\ rc \in Seq(C)
  BY <1>2, ZenonT(60) DEF NodeSet
<1>4. Len(rk) \in Nat /\ Len(rc) = Len(rk) + 1
  BY <1>3, LenProperties, SMTT(60) DEF Full
<1>5. m \in 1 .. Len(rk) /\ Len(tk) + m >= d /\ Len(rk) - m >= d /\ m <= Len(rc)
  <2>1. (d - 1) + Len(rk) >= 2 * d /\ Len(tk) = d - 1
    OBVIOUS
  <2> HIDE DEF tk, rk, rc
  <2>2. m = moveKeysRight(d - 1, Len(rk))
    BY <2>1, SMTT(60)
  <2> HIDE DEF m
  <2>3. m \in 1 .. Len(rk) /\ (d - 1) + m >= d /\ Len(rk) - m >= d
    BY <1>4, <2>1, <2>2, RightMoveIsLegal, SMTT(60)
  <2> QED
    BY <1>4, <2>1, <2>3
<1>6. /\ q.keys = [p.keys EXCEPT ![i] = rk[m]]
      /\ q.child = [p.child EXCEPT ![i] = t2, ![i + 1] = r2]
  BY DEF redistributeRight, Inner
<1>7. q.keys[i] = rk[m] /\ q.child[i] = t2 /\ q.child[i + 1] = r2
  <2>1. i \in DOMAIN p.keys /\ i \in DOMAIN p.child /\ i + 1 \in DOMAIN p.child
        /\ i # i + 1
    BY <1>1, LenProperties, SMTT(60)
  <2> HIDE DEF q, t2, r2, m, rk
  <2> QED
    BY <1>6, <2>1, SMTT(60)
<1> HIDE DEF q, t, r, tk, tc, rk, rc, pk, m
<1>8. /\ Append(Append(tk, pk) \o SubSeq(rk, 1, m - 1), rk[m])
             \o SubSeq(rk, m + 1, Len(rk)) = Append(tk, pk) \o rk
      /\ (tc \o SubSeq(rc, 1, m)) \o SubSeq(rc, m + 1, Len(rc)) = tc \o rc
      /\ Len(Append(tk, pk) \o SubSeq(rk, 1, m - 1)) = Len(tk) + m
      /\ Len(SubSeq(rk, m + 1, Len(rk))) = Len(rk) - m
  <2>1. m \in 0 .. Len(rc)
    BY <1>4, <1>5, SMTT(60)
  <2>2. (tc \o SubSeq(rc, 1, m)) \o SubSeq(rc, m + 1, Len(rc)) = tc \o rc
    BY <1>3, <2>1, ChildMoveKeepsOrder, ZenonT(60)
  <2>3. tk \in Seq(K) /\ pk \in K /\ rk \in Seq(K) /\ m \in 1 .. Len(rk)
    BY <1>2, <1>3, <1>5, SMTT(60)
  <2>4. KeysMoved(tk, pk, rk, m)
    BY <2>3, KeyMoveKeepsOrder, ZenonT(60)
  <2> QED
    BY <2>2, <2>4, Zenon DEF KeysMoved
<1>9. /\ t2.keys = Append(tk, pk) \o SubSeq(rk, 1, m - 1)
      /\ t2.child = tc \o SubSeq(rc, 1, m)
      /\ r2.keys = SubSeq(rk, m + 1, Len(rk))
      /\ r2.child = SubSeq(rc, m + 1, Len(rc))
  BY ZenonT(60) DEF Inner
<1> HIDE DEF t2, r2
<1>10. Span(q, i) = Inner(Append(tk, pk) \o rk, tc \o rc)
  BY <1>7, <1>8, <1>9, Zenon DEF Span, joined
<1>11. Span(p, i) = Inner(Append(tk, pk) \o rk, tc \o rc)
  BY DEF Span, joined, t, r, tk, tc, rk, rc, pk
<1>12. Len(q.child[i].keys) >= d /\ Len(q.child[i + 1].keys) >= d
  <2>1. Len(q.child[i].keys) = Len(tk) + m /\ Len(q.child[i + 1].keys) = Len(rk) - m
    BY <1>7, <1>8, <1>9, Zenon
  <2> QED
    BY <1>5, <2>1
<1> QED
  BY <1>10, <1>11, <1>12, SMTT(60) DEF q
================================================================================
