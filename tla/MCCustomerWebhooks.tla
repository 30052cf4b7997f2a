-------------------------- MODULE MCCustomerWebhooks --------------------------
(* Instances of the customer webhooks for TLC.                              *)
EXTENDS CustomerWebhooks, TLC

CONSTANTS e1, e2, ev, n1, w1, w2

TwoEndpoints == {e1, e2}
OneEndpoint == {e1}
OneEvent == {ev}
OneNotice == {n1}
OneWorker == {w1}
TwoWorkers == {w1, w2}

\* e1 hears of domain events, e2 of e1's disablement; or everybody of both.
Apart == [e \in Endpoint |-> IF e = e1 THEN {"domain"} ELSE {"notice"}]
Anything == [e \in Endpoint |-> Type]

\* One exchange for each thing a request can come to: acknowledged, gone,
\* worth a retry, and acknowledged with the answer lost.  A refusal ends a
\* delivery as a last retry does.
Exchanges == {Answered(204, <<>>), Answered(410, <<>>), Answered(503, <<>>),
              [Answered(200, <<>>) EXCEPT !.transfer = "slow-body"]}
=============================================================================
