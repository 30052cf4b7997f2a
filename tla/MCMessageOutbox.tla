-------------------------- MODULE MCMessageOutbox --------------------------
(* Instances of the outbox for TLC.                                        *)
EXTENDS MessageOutbox

CONSTANTS m1, w1, w2, t1, t2, t3

OneMessage  == {m1}
OneWorker   == {w1}
TwoWorkers  == {w1, w2}
(* One token per worker and one more, so that one is always unused.        *)
TwoTokens   == {t1, t2}
ThreeTokens == {t1, t2, t3}
=============================================================================
