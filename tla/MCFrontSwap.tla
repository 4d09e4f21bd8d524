---------------------------- MODULE MCFrontSwap ----------------------------
(* Small instances of FrontSwap for TLC.                                    *)
EXTENDS FrontSwap

CONSTANTS a, b

MCEndpoints == {a, b}
MCLocal == {a}

Front(eps, local, flags) == [endpoints |-> eps, preferLocal |-> local, flags |-> flags]

\* Growing, shrinking, reordered, drained and flag-only changes.
MCWants == {Front(<<a, b>>, TRUE, 0), Front(<<b, a>>, FALSE, 0),
            Front(<<b>>, FALSE, 0), Front(<<b>>, FALSE, 1), Front(<<>>, FALSE, 0)}
MCFewWants == {Front(<<a, b>>, TRUE, 0), Front(<<b>>, FALSE, 0), Front(<<b>>, FALSE, 1)}
=============================================================================
