----------------------------- MODULE MCQueueUse ------------------------------
(* Two producers, two consumers and four items of a queue for TLC.         *)
EXTENDS QueueUse, TLC
CONSTANTS p1, p2, c1, c2, x1, x2, x3, x4, none
=============================================================================
