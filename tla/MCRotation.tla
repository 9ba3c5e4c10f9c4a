----------------------------- MODULE MCRotation -----------------------------
(***************************************************************************)
(* Small pools for the rotation loop.                                      *)
(***************************************************************************)
EXTENDS Rotation

CONSTANTS a, b, c, d

FourLinks == {a, b, c, d}
TwoLinks == {a, b}

Works == {"pass", "made", "started", "well"}

\* Two links that always work, one that passes its test and never starts, one
\* that never passes it.
TwoWork ==
    [l \in FourLinks |-> CASE l = c -> {"pass", "made", "startErr"}
                           [] l = d -> {"fail"}
                           [] OTHER -> Works]

\* Two links that always work, two of which nothing is known.
Mixed == [l \in FourLinks |-> IF l \in TwoLinks THEN Works ELSE Events]

\* One link that always works and one that passes its test and never starts.
OneWorks ==
    [l \in TwoLinks |-> IF l = b THEN {"pass", "made", "startErr"} ELSE Works]

=============================================================================
