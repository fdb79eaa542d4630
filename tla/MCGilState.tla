------------------------------ MODULE MCGilState ------------------------------
(***************************************************************************)
(* GilState for TLC.                                                       *)
(***************************************************************************)
EXTENDS GilState

\* Little is promised to a careless application: TLC goes on from a state in
\* which one has become careless, into the races of first sections, only as
\* long as no section has been opened.
Explored == careless => \A t \in Threads : Depth(t) = 0

\* Only what a careful application does: enough where a careless one is excused.
Careful == ~careless
=============================================================================
