-------------------------- MODULE MCSessionClients --------------------------
(* One browser with two tabs, two exchanges at a time, three tokens.       *)
EXTENDS SessionClients, TLC
CONSTANTS t1, t2, t3, r1, r2, b1, b2

MCTokens == {t1, t2, t3}
MCRequests == {r1, r2}
MCTabs == {b1, b2}

\* Instead of symmetry, which liveness does not allow: the first unused token
\* and the first free request are taken.
Order == <<t1, t2, t3, r1, r2>>
NotBefore(S, x) == \A i, j \in DOMAIN Order : Order[i] = x /\ Order[j] \in S => i <= j
InOrder ==
    /\ \A t \in Tokens : row[t] = "unused" /\ row'[t] # "unused"
                            => NotBefore({u \in Tokens : row[u] = "unused"}, t)
    /\ \A r \in Requests : Free(r) /\ ~Free(r)'
                            => NotBefore({q \in Requests : Free(q)}, r)

\* Once something has happened that excuses the loss of the session, a second
\* thing adds nothing.
Bounds == Cardinality(why) <= 1
=============================================================================
