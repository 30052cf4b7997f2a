---------------------------- MODULE WebhookPolicy ----------------------------
(* What one attempt to deliver a customer webhook means: the safety checks  *)
(* on its destination, the transport's error codes, the decision taken from *)
(* an answer or an error, and the delay before the next attempt.  Pure      *)
(* definitions, used by the state machine of module CustomerWebhooks.       *)
EXTENDS Integers, Sequences, FiniteSets

MAX_ATTEMPTS == 12
INITIAL_BACKOFF_SECONDS == 30
MAX_BACKOFF_SECONDS == 6 * 60 * 60

None == "none"

SmallerOf(a, b) == IF a < b THEN a ELSE b
GreaterOf(a, b) == IF a > b THEN a ELSE b

-----------------------------------------------------------------------------
(* Destination: canonical URL, host name and resolver answers.              *)

\* The IPv4 networks no request may reach, as <<address, prefix length>>.
BlockedIpv4 == {
    <<<<0, 0, 0, 0>>, 8>>,       <<<<10, 0, 0, 0>>, 8>>,
    <<<<100, 64, 0, 0>>, 10>>,   <<<<127, 0, 0, 0>>, 8>>,
    <<<<169, 254, 0, 0>>, 16>>,  <<<<172, 16, 0, 0>>, 12>>,
    <<<<192, 0, 0, 0>>, 24>>,    <<<<192, 0, 2, 0>>, 24>>,
    <<<<192, 31, 196, 0>>, 24>>, <<<<192, 52, 193, 0>>, 24>>,
    <<<<192, 88, 99, 0>>, 24>>,  <<<<192, 168, 0, 0>>, 16>>,
    <<<<192, 175, 48, 0>>, 24>>, <<<<198, 18, 0, 0>>, 15>>,
    <<<<198, 51, 100, 0>>, 24>>, <<<<203, 0, 113, 0>>, 24>>,
    <<<<224, 0, 0, 0>>, 4>>,     <<<<240, 0, 0, 0>>, 4>> }

\* Mutant: one bit of the last partial octet too many is compared.
Ipv4InCidrOffByOne(address, network, prefix) ==
    \A i \in 1..4 :
        LET bits == GreaterOf(0, SmallerOf(8, prefix + 1 - 8 * (i - 1)))
        IN  address[i] \div 2^(8 - bits) = network[i] \div 2^(8 - bits)

\* Equality of the first `prefix` bits, octet by octet: the code divides the
\* 32-bit numbers, which are wider than TLC's integers.
Ipv4InCidr(address, network, prefix) ==
    \A i \in 1..4 :
        LET bits == GreaterOf(0, SmallerOf(8, prefix - 8 * (i - 1)))
        IN  address[i] \div 2^(8 - bits) = network[i] \div 2^(8 - bits)

PublicIpv4(address) ==
    \A block \in BlockedIpv4 : ~Ipv4InCidr(address, block[1], block[2])

\* One bad answer, no answer or too many of them reject the whole set.
SafeDnsAnswers(answers) ==
    /\ Len(answers) \in 1..16
    /\ \A i \in 1..Len(answers) : PublicIpv4(answers[i])

-----------------------------------------------------------------------------
(* One HTTPS POST.  `exchange` says what the URL, the resolver and the      *)
(* receiver do; `status` is the receiver's answer, 0 when there is none.    *)

Dns == {"safe", "unsafe", "timeout", "error"}
Transfer == {"whole", "too-large", "slow-head", "slow-body", "broken"}

PostCustomerWebhook(exchange) ==
    IF ~exchange.urlSafe THEN [code |-> "UNSAFE_ENDPOINT"]
    ELSE CASE exchange.dns = "timeout" -> [code |-> "DNS_TIMEOUT"]
           [] exchange.dns = "error"   -> [code |-> "DNS_LOOKUP_FAILED"]
           [] exchange.dns = "unsafe"  -> [code |-> "UNSAFE_ENDPOINT"]
           [] exchange.dns = "safe"    ->
              CASE exchange.transfer = "slow-head" -> [code |-> "REQUEST_TIMEOUT"]
                [] exchange.transfer = "slow-body" -> [code |-> "RESPONSE_TIMEOUT"]
                [] exchange.transfer = "too-large" -> [code |-> "RESPONSE_TOO_LARGE"]
                [] exchange.transfer = "broken"    -> [code |-> "NETWORK_ERROR"]
                [] exchange.transfer = "whole"     ->
                   IF exchange.status \in 100..599
                   THEN [status |-> exchange.status, retryAfter |-> exchange.retryAfter]
                   ELSE [code |-> "NETWORK_ERROR"]

-----------------------------------------------------------------------------
(* The decision.                                                            *)

Decision(outcome, reason) ==
    [outcome |-> outcome, reason |-> reason, retryDelaySeconds |-> None]

CustomerWebhookBackoffSeconds(attemptNumber) ==
    SmallerOf(MAX_BACKOFF_SECONDS, INITIAL_BACKOFF_SECONDS * 4^(attemptNumber - 1))

\* The header, in seconds or as a date, is already resolved against the
\* clock: <<seconds>>, or <<>> when it is absent or cannot be read.
ParseCustomerWebhookRetryAfter(header) ==
    IF header = <<>> THEN <<>>
    ELSE <<SmallerOf(GreaterOf(0, header[1]), MAX_BACKOFF_SECONDS)>>

RetryableStatus(status) == status \in {408, 409, 425, 429} \cup 500..599

\* `result` holds a status and its Retry-After, or a transport failure.
ClassifyCustomerWebhookAttempt(attemptNumber, maxAttempts, result) ==
    LET answered == "status" \in DOMAIN result
        retryAfter == IF answered THEN ParseCustomerWebhookRetryAfter(result.retryAfter)
                      ELSE <<>>
    IN  CASE answered /\ result.status \in 200..299 -> Decision("delivered", "acknowledged")
          [] answered /\ result.status = 410 -> Decision("disable", "receiver-gone")
          [] ~answered /\ result.failure = "unsafe-endpoint" ->
             Decision("disable", "unsafe-endpoint")
          [] answered /\ result.status \notin (200..299) \cup {410}
                      /\ ~RetryableStatus(result.status) ->
             Decision("failed", "permanent-status")
          [] OTHER ->
             IF attemptNumber >= maxAttempts THEN Decision("failed", "attempts-exhausted")
             ELSE [outcome |-> "retry",
                   reason |-> IF answered THEN "retryable-status" ELSE "retryable-transport",
                   retryDelaySeconds |->
                      SmallerOf(MAX_BACKOFF_SECONDS,
                          GreaterOf(CustomerWebhookBackoffSeconds(attemptNumber),
                                    IF retryAfter = <<>> THEN 0 ELSE retryAfter[1]))]

PermanentFailureDecision == Decision("failed", "permanent-status")

TransportFailure(code) ==
    CASE code = "UNSAFE_ENDPOINT" -> "unsafe-endpoint"
      [] code \in {"DNS_TIMEOUT", "REQUEST_TIMEOUT", "RESPONSE_TIMEOUT"} -> "timeout"
      [] OTHER -> "network"

ClassifyTransportFailure(attemptNumber, maxAttempts, code) ==
    IF code \in {"INVALID_REQUEST", "RESPONSE_TOO_LARGE"} THEN PermanentFailureDecision
    ELSE ClassifyCustomerWebhookAttempt(attemptNumber, maxAttempts,
                                        [failure |-> TransportFailure(code)])

\* The request could not be signed.  Only a missing or malformed master key
\* is worth another attempt: the stored envelope and payload never change.
ClassifyPreparationFailure(attemptNumber, maxAttempts, problem) ==
    IF problem \in {"INVALID_MASTER_KEY", "unexpected"}
    THEN ClassifyCustomerWebhookAttempt(attemptNumber, maxAttempts, [failure |-> "network"])
    ELSE PermanentFailureDecision

\* From the reserved attempt to the decision, the way one claim is processed.
AttemptDecision(attemptNumber, maxAttempts, exchange) ==
    IF exchange.signing # "signed"
    THEN ClassifyPreparationFailure(attemptNumber, maxAttempts, exchange.signing)
    ELSE LET result == PostCustomerWebhook(exchange)
         IN  IF "code" \in DOMAIN result
             THEN ClassifyTransportFailure(attemptNumber, maxAttempts, result.code)
             ELSE ClassifyCustomerWebhookAttempt(attemptNumber, maxAttempts, result)

-----------------------------------------------------------------------------
(* Properties of the policy, each against a reference definition.           *)

\* First and last address of a network, and the order of addresses.
LastOf(network, prefix) ==
    [i \in 1..4 |-> network[i] + 2^(8 - GreaterOf(0, SmallerOf(8, prefix - 8 * (i - 1)))) - 1]
UpTo(a, b) ==
    a = b \/ \E i \in 1..4 : a[i] < b[i] /\ \A j \in 1..(i - 1) : a[j] = b[j]
Next4(a) ==
    LET i == CHOOSE i \in 1..4 : a[i] # 255 /\ \A j \in (i + 1)..4 : a[j] = 255
    IN  [j \in 1..4 |-> IF j < i THEN a[j] ELSE IF j = i THEN a[j] + 1 ELSE 0]

\* The addresses at the edges of every blocked network and next to it.
Edges ==
    LET ends == {LastOf(b[1], b[2]) : b \in BlockedIpv4}
    IN  {b[1] : b \in BlockedIpv4} \cup ends
        \cup {Next4(a) : a \in ends \ {<<255, 255, 255, 255>>}}
        \cup {<<9, 255, 255, 255>>, <<100, 63, 255, 255>>, <<172, 15, 255, 255>>,
              <<198, 17, 255, 255>>, <<223, 255, 255, 255>>, <<8, 8, 8, 8>>}

\* An address is refused exactly when it lies between the first and the last
\* address of a blocked network (ipv4InCidr works on prefixes).
AddressesMatchRanges ==
    \A a \in Edges :
        PublicIpv4(a) <=> \A b \in BlockedIpv4 : ~(UpTo(b[1], a) /\ UpTo(a, LastOf(b[1], b[2])))

\* An exchange whose answer was read whole.
Answered(code, header) ==
    [signing |-> "signed", urlSafe |-> TRUE, dns |-> "safe", transfer |-> "whole",
     status |-> code, retryAfter |-> header]

\* What CONTRACT-WEBHOOKS.md promises the receiver of such an answer:
\* acknowledged, disabled, tried again while attempts are left, or refused.
DocumentedOutcome(attemptNumber, maxAttempts, code) ==
    CASE code \div 100 = 2 -> "delivered"
      [] code = 410 -> "disable"
      [] code \in {408, 409, 425, 429} \/ code \div 100 = 5 ->
         IF attemptNumber < maxAttempts THEN "retry" ELSE "failed"
      [] OTHER -> "failed"

\* A whole answer comes to what the documentation promises.
AnswersAsDocumented ==
    \A n \in 1..MAX_ATTEMPTS, code \in 100..599 :
        AttemptDecision(n, MAX_ATTEMPTS, Answered(code, <<>>)).outcome
          = DocumentedOutcome(n, MAX_ATTEMPTS, code)

\* A retry never comes sooner than the schedule of the documentation (30 s,
\* 2 min, 8 min, 32 min, then capped at 6 h) nor than a readable Retry-After
\* below the cap, and never later than the cap.
DocumentedDelay == <<30, 120, 480, 1920, 7680, 21600, 21600, 21600>>
SampleHeaders ==
    {<<>>} \cup {<<t>> : t \in {-5, 0, 29, 31, 7680, 21599, 21600, 21601, 999999}}
RetryScheduleBounded ==
    \A n \in 1..8, header \in SampleHeaders :
        LET d == AttemptDecision(n, 9, Answered(503, header))
        IN  /\ d.retryDelaySeconds \in DocumentedDelay[n]..MAX_BACKOFF_SECONDS
            /\ (header # <<>> /\ header[1] <= MAX_BACKOFF_SECONDS)
               => d.retryDelaySeconds >= header[1]

\* The three together.
DocumentedPolicy == AddressesMatchRanges /\ AnswersAsDocumented /\ RetryScheduleBounded
=============================================================================
