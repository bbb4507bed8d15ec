------------------------------ MODULE MCSiteScore -----------------------------
(***************************************************************************)
(* Instances of SiteScore for TLC: two segments.                           *)
(***************************************************************************)
EXTENDS SiteScore

Item(s, passes)     == [id |-> s, passes |-> passes]
Verdict(s, verdict) == [id |-> s, verdict |-> verdict]

\* All well; a duplicated id beside a good segment; a failed check and a missing id.
SomeItems == {<<Item(1, TRUE), Item(2, TRUE)>>,
              <<Item(2, TRUE), Item(1, TRUE), Item(2, TRUE)>>,
              <<Item(1, FALSE), Item(0, TRUE)>>}

\* Both segments; the first one twice, after a word that is no verdict, and not the
\* second; a verdict that raises.
SomeVerdicts == {<<Verdict(1, "no_error"), Verdict(2, "minor")>>,
                 <<Verdict(1, "other"), Verdict(1, "major"), Verdict(0, "critical"),
                   Verdict(1, "no_error")>>,
                 <<Verdict(2, "unhashable")>>}
===============================================================================
