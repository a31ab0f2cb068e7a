----------------------------- MODULE ExampleTree -----------------------------
(***************************************************************************)
(* collect_tree() of MergeSearch (synthesizer/core/merge_search.hpp): the  *)
(* examples divided into halves, and the halves again, in layers from the  *)
(* smallest parts to the whole.  A handle is a pair of sequences of tokens.*)
(***************************************************************************)
EXTENDS SequencesExt

FirstHalfShort(s) == SubSeq(s, 1, (Len(s) - 1) \div 2)

FirstHalf(s) == SubSeq(s, 1, Len(s) \div 2)
SecondHalf(s) == SubSeq(s, Len(s) \div 2 + 1, Len(s))

\* A class that is small enough goes to both sides.
Left(s, min) == IF Len(s) <= min THEN s ELSE FirstHalf(s)
Right(s, min) == IF Len(s) <= min THEN s ELSE SecondHalf(s)

\* e_tree[depth-1].push_back(e); a new layer is added when depth has outgrown e_tree.
Placed(tree, depth, h) ==
  IF depth > Len(tree) THEN Append(tree, <<h>>)
  ELSE [tree EXCEPT ![depth] = Append(@, h)]

RECURSIVE Collected(_, _, _)
Collected(h, min, tree) ==
  IF Len(h.pos) <= min /\ Len(h.neg) <= min
    THEN [depth |-> 1, tree |-> Placed(tree, 1, h)]
    ELSE LET l == Collected([pos |-> Left(h.pos, min), neg |-> Left(h.neg, min)], min, tree)
             r == Collected([pos |-> Right(h.pos, min), neg |-> Right(h.neg, min)], min, l.tree)
             depth == 1 + (IF l.depth > r.depth THEN l.depth ELSE r.depth)
         IN  [depth |-> depth, tree |-> Placed(r.tree, depth, h)]

Whole(pos, neg) == [pos |-> pos, neg |-> neg]

\* e_tree for the examples pos and neg, and minimal_example_size.
Tree(pos, neg, min) == Collected(Whole(pos, neg), min, <<>>).tree

-----------------------------------------------------------------------------
\* What MergeSearch relies on: no layer is empty; every part has examples of
\* both classes (the code reads the first of each); the parts of the first layer
\* are small enough and hold every example; the whole is alone in the last.
Divided(pos, neg, min) ==
  LET tree == Tree(pos, neg, min)
  IN  /\ \A l \in DOMAIN tree :
           tree[l] # <<>> /\ \A h \in ToSet(tree[l]) : h.pos # <<>> /\ h.neg # <<>>
      /\ \A h \in ToSet(tree[1]) : Len(h.pos) <= min /\ Len(h.neg) <= min
      /\ UNION {ToSet(h.pos) : h \in ToSet(tree[1])} = ToSet(pos)
      /\ UNION {ToSet(h.neg) : h \in ToSet(tree[1])} = ToSet(neg)
      /\ tree[Len(tree)] = <<Whole(pos, neg)>>
=============================================================================
