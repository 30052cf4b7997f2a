----------------------------- MODULE Throttles -----------------------------
(* The two counters that hold back whoever asks too often: the attempts to  *)
(* log in, kept in a database row, and the requests of a client, kept in     *)
(* Redis, for one key each.                                                 *)
EXTENDS Integers

CONSTANTS
    Limit,
    Window,    \* milliseconds, counted in steps of the clock
    Block,     \* blockDurationMs
    Client,    \* web processes, each counting a request in Redis
    MaxTime,   \* bound: the time the behaviours end
    MaxCount,  \* bound: requests counted in Redis
    Nothing    \* an absent value

VARIABLES
    now,      \* the latest clock of the servers; others may lag
    row,      \* AuthThrottle
    bucket,   \* the key in Redis: its count and when it expires
    client    \* [Client -> what it has read and how it was answered]

vars == <<now, row, bucket, client>>

NoRow == [start |-> 0, attempts |-> 0, blockedUntil |-> Nothing]
NoBucket == [count |-> 0, expires |-> Nothing]
Quiet == [at |-> "idle", count |-> 0]

Init ==
    /\ now = 0
    /\ row = NoRow
    /\ bucket = NoBucket
    /\ client = [c \in Client |-> Quiet]

-----------------------------------------------------------------------------
(* Attempts to log in.                                                      *)

Known(r) == r.attempts > 0
Blocked(r, t) == r.blockedUntil # Nothing /\ r.blockedUntil > t
WindowEnd(r) == r.start + Window
Over(r, t) == t >= WindowEnd(r)

\* Mutant: a block is counted from the attempt, wherever the window ends.
BlockEndFromNow(r, t) == t + Block
BlockEnd(r, t) == IF WindowEnd(r) > t + Block THEN WindowEnd(r) ELSE t + Block

\* The upsert of `consume', at time t of the server that runs it.
Consumed(r, t) ==
    CASE ~Known(r) \/ (~Blocked(r, t) /\ Over(r, t)) ->
            [start |-> t, attempts |-> 1, blockedUntil |-> Nothing]
      [] Known(r) /\ Blocked(r, t) -> r
      [] Known(r) /\ ~Blocked(r, t) /\ ~Over(r, t) /\ r.attempts >= Limit ->
            [r EXCEPT !.blockedUntil = BlockEnd(r, t)]
      [] OTHER -> [r EXCEPT !.attempts = @ + 1, !.blockedUntil = Nothing]

\* decisionFromConsumedState and decisionFromInspectedState: let in or not, and
\* since when things look different.
Decision(r, t) ==
    [allowed |-> ~Blocked(r, t),
     resetAt |-> IF Blocked(r, t) THEN r.blockedUntil ELSE WindowEnd(r)]
Inspected(r, t) ==
    CASE ~Known(r) \/ (~Blocked(r, t) /\ Over(r, t)) -> [allowed |-> TRUE, resetAt |-> t + Window]
      [] Known(r) /\ Blocked(r, t) -> [allowed |-> FALSE, resetAt |-> r.blockedUntil]
      [] OTHER -> [allowed |-> r.attempts < Limit,
                   resetAt |-> IF r.attempts < Limit THEN WindowEnd(r) ELSE BlockEnd(r, t)]

Consume(t) == t \in Nat /\ row' = Consumed(row, t) /\ UNCHANGED <<now, bucket, client>>

-----------------------------------------------------------------------------
(* Requests of a client: INCR and PTTL go together, PEXPIRE follows.        *)

Answered(c, count) ==
    client' = [client EXCEPT ![c] =
                  [at |-> IF count > Limit THEN "refused" ELSE "allowed", count |-> count]]

\* Mutant: only the first request of a window sets its expiry.
FirstOnly(count, expires) == count = 1
NeedsExpiry(count, expires) == count = 1 \/ expires = Nothing

Count(c) ==
    LET count == bucket.count + 1 IN
    /\ client[c].at # "counted" /\ bucket.count < MaxCount
    /\ bucket' = [bucket EXCEPT !.count = count]
    /\ IF NeedsExpiry(count, bucket.expires)
       THEN client' = [client EXCEPT ![c] = [at |-> "counted", count |-> count]]
       ELSE Answered(c, count)
    /\ UNCHANGED <<now, row>>

\* The key may be gone by then, which PEXPIRE takes quietly.
SetExpiry(c) ==
    /\ client[c].at = "counted"
    /\ bucket' = IF bucket.count = 0 THEN bucket ELSE [bucket EXCEPT !.expires = now + Window]
    /\ Answered(c, client[c].count)
    /\ UNCHANGED <<now, row>>

\* The process, or its connection, dies before PEXPIRE.
Die(c) ==
    /\ client[c].at = "counted"
    /\ client' = [client EXCEPT ![c] = Quiet]
    /\ UNCHANGED <<now, row, bucket>>

Tick ==
    /\ now < MaxTime
    /\ now' = now + 1
    /\ bucket' = IF bucket.expires = now + 1 THEN NoBucket ELSE bucket
    /\ client' = [c \in Client |-> IF client[c].at = "counted" THEN client[c] ELSE Quiet]
    /\ UNCHANGED row

Next ==
    \/ \E t \in {now, now - 1} : Consume(t)
    \/ \E c \in Client : Count(c) \/ SetExpiry(c) \/ Die(c)
    \/ Tick

Spec == Init /\ [][Next]_vars

-----------------------------------------------------------------------------
\* Nobody is held back for good, or longer than told.  Whoever is refused a
\* login and returns when told to, by whichever server's clock, is let in if
\* nobody else used the key meanwhile, and a look without an attempt foretells
\* what an attempt would be told (auth-throttle.ts:138).  A key that refuses in
\* Redis expires, although the process that counted first died before it had
\* the key expire (api-rate-limit.ts:169).
RefusalsEnd ==
    [][/\ \A t \in 0 .. MaxTime + Window + Block :
             /\ Known(row) /\ row.blockedUntil # Nothing /\ t >= row.blockedUntil =>
                   Decision(Consumed(row, t), t).allowed
             /\ Inspected(row, t) = Decision(Consumed(row, t), t)
       /\ \A c \in Client : client'[c] # client[c] /\ client'[c].at = "refused" =>
             bucket'.expires # Nothing \/ bucket' = NoBucket]_vars
=============================================================================
