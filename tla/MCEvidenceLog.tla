---------------------------- MODULE MCEvidenceLog ----------------------------
(* Instances of EvidenceLog for TLC.                                        *)
EXTENDS EvidenceLog

\* The second event of every stream has a type no timeline listens for.
SecondUnheard == Streams \X {2}

\* Every session counts from one, so a forwarded event may have the number of
\* an event of this session.
OwnCount == [id \in EventIds |-> id[2]]

\* What is forwarded happened before what the session does itself.
ForwardedEarlier == [id \in EventIds |-> IF id[1] \in Posted THEN 1 ELSE 2]
==============================================================================
