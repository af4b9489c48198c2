--------------------------- MODULE MCSoftAccounts ---------------------------
EXTENDS SoftAccounts, TLC

\* Viewers and requests are interchangeable; ids are not, they are ordered.
SoftSymmetry == Permutations(SoftClients) \cup Permutations(Viewers)

\* Of a reversed merge nothing but that it is reversed is read again.
SoftView ==
  <<accounts, cardOwner, grants, softReq, draws, history,
    [l \in LogIds |-> IF mergeLogs[l].state = "merged" THEN mergeLogs[l]
                      ELSE mergeLogs[l].state]>>
=============================================================================
