-------------------------- MODULE MCResearchRound --------------------------
(***************************************************************************)
(* Two runs in one process: two researchers of A and one of B.             *)
(***************************************************************************)
EXTENDS ResearchRound

CONSTANTS A, B, c1, c2, c3, wA, wB

MCRuns == {A, B}
MCCallers == {c1, c2, c3}
MCExempt == {wA, wB}
MCCalls == MCCallers \cup MCExempt
MCRunOf == [c \in MCCalls |-> IF c \in {c3, wB} THEN B ELSE A]
MCRounds == [r \in MCRuns |-> IF r = A THEN 1 ELSE 2]
MCWriterOf == [r \in MCRuns |-> IF r = A THEN wA ELSE wB]
=============================================================================
