------------------------- MODULE MCNarrativeSummary -------------------------
(* NarrativeSummary with a few readers. *)
EXTENDS NarrativeSummary, TLC

CONSTANTS t1, t2, r1

TwoReaders == {t1, t2}
OneReader == {t1}
OneRequestId == {r1}
OwnerAndOther == {"alice", "bob"}
Symmetry == Permutations(TwoReaders)
=============================================================================
