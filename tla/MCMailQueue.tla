---------------------------- MODULE MCMailQueue ----------------------------
(* Instances of MailQueue for TLC.                                         *)
EXTENDS MailQueue, TLC

CONSTANTS qa, qb, w1, w2

\* Both recipients in one queue.
OneQueue == [r \in Rcpts |-> {qa}]

\* The first recipient may change queue when it is retried.
Moving == [r \in Rcpts |-> IF r = 1 THEN {qa, qb} ELSE {qb}]

SameDomain == [r \in Rcpts |-> "example.org"]

TtlExpiry == [kind |-> "Ttl", n |-> 2]
AttemptsExpiry == [kind |-> "Attempts", n |-> 1]

NotifyOnce == <<1>>

WorkerSymmetry == Permutations(Workers)
=============================================================================
