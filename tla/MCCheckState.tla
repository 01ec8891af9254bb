---------------------------- MODULE MCCheckState -----------------------------
EXTENDS CheckState

(* Equal lists, permutations, repeated elements, and elements far behind.  *)
SmallLists ==
  {<<>>, <<1>>, <<1, 2>>, <<2, 1>>, <<2, 2>>, <<1, 1, 2>>, <<1, 2, 2>>,
   <<1, 2, 3>>, <<3, 2>>}
=============================================================================
