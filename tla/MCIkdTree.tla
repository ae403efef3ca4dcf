------------------------------ MODULE MCIkdTree ------------------------------
(***************************************************************************)
(* The instance of IkdTree that is checked: five points, two of them in    *)
(* one cell, trees that are rebuilt from four points on, and boxes that    *)
(* hold a cell, leave one out, cut through one, and hold everything.       *)
(***************************************************************************)
EXTENDS IkdTree

a == <<0, 1, 0>>
b == <<1, 1, 0>>
c == <<1, 2, 0>>
d == <<2, 1, 0>>
e == <<3, 2, 1>>
MCPoints == {a, b, c, d, e}
Box(low, high) == [min |-> low, max |-> high]
MCBoxes == {Box(<<0, 0, 0>>, <<2, 2, 2>>), Box(<<1, 1, 0>>, <<3, 3, 1>>), Box(<<2, 0, 0>>, <<4, 2, 2>>),
            Box(<<0, 0, 0>>, <<4, 4, 4>>)}
MCClouds == {<<a, d, b, c, e, d, a>>, <<a, b, d, a>>}
MCQueries == {<<0, 0, 0>>, <<3, 1, 0>>}
==============================================================================
