--------------------------- MODULE MCStatusClassify ---------------------------
(* The header values for the runs of StatusClassify, written as sequences  *)
(* of characters; NonDigit is a model value.                               *)
EXTENDS StatusClassify

\* "200", "302", "400", "503", "2000", "5x", "" and "x1".
FinalValues ==
    {<<2, 0, 0>>, <<3, 0, 2>>, <<4, 0, 0>>, <<5, 0, 3>>, <<2, 0, 0, 0>>,
     <<5, NonDigit>>, <<>>, <<NonDigit, 1>>}

\* "103" (Early Hints) followed by "500".
InterimValues == {<<1, 0, 3>>, <<5, 0, 0>>}
=============================================================================
