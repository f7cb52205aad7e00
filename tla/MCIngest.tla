----------------------------- MODULE MCIngest ------------------------------
(* The backend's findings for TLC.                                         *)
EXTENDS Ingest, TLC

Found(h) == [type |-> "found", hash |-> h]
Gone(h)  == [type |-> "removed", hash |-> h]

Finding(s, f) == [status |-> s, fixedAt |-> f, rotatedAt |-> None]

\* One fingerprint and every order of up to two events of it.
OneHashBatches ==
    {<<Found(1)>>, <<Gone(1)>>, <<Found(1), Gone(1)>>, <<Gone(1), Found(1)>>,
     <<Found(1), Found(1)>>}

\* No finding yet; an active one; one that was fixed and re-activated by hand.
OneHashSeeds ==
    {[h \in Hashes |-> NoRow],
     [h \in Hashes |-> Finding("active", FALSE)],
     [h \in Hashes |-> Finding("active", TRUE)]}

\* Two fingerprints: batches that meet in opposite orders.
TwoHashBatches ==
    {<<a, b>> : a \in {Found(1), Gone(1)}, b \in {Found(2), Gone(2)}}
    \cup {<<b, a>> : a \in {Found(1), Gone(1)}, b \in {Found(2), Gone(2)}}
    \cup {<<Found(1), Gone(1), Gone(2)>>}

TwoHashSeeds ==
    {[h \in Hashes |-> NoRow],
     [h \in Hashes |-> Finding("active", FALSE)],
     [h \in Hashes |-> IF h = 1 THEN Finding("ignored", FALSE) ELSE NoRow]}

Symmetry == Permutations(Requests)
=============================================================================
