------------------------------- MODULE MCRope -------------------------------
(* An empty rope and one of two characters, which are appended with and     *)
(* without their terminator.                                                *)
EXTENDS Rope

CONSTANTS b, c

MCChars == {b, c, Nul}

MCTexts == {<<b, c>>}

MCFirst == <<<< >>, <<b, c>>>>
=============================================================================
