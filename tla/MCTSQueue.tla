----------------------------- MODULE MCTSQueue -----------------------------
(* The thread safe queue with one or two pushing threads and a few pushes.  *)
EXTENDS TSQueue, TLC

CONSTANTS p1, p2        \* pushing threads

OneProducer == {p1}
TwoProducers == {p1, p2}
Back == {"back"}
Front == {"front"}
BothEnds == {"back", "front"}
ProducerSymmetry == Permutations(TwoProducers)
=============================================================================
