------------------------- MODULE MCThreadSafeQueue -------------------------
(* Instances of ThreadSafeQueue.  The threads are model values.             *)
EXTENDS ThreadSafeQueue

CONSTANTS p1, p2, c1, c2

OneProducerToken == {p1}
TwoProducers == {p1, p2}
OneConsumer == {c1}
TwoConsumers == {c1, c2}
OneConsumerToken == {c2}
AllTokens == {p1, p2, c1}
=============================================================================
