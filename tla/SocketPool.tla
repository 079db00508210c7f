----------------------------- MODULE SocketPool -----------------------------
(***************************************************************************)
(* What TunnelAgent promises its consumers: a connection is out, pooled or *)
(* lent.  It joins the pool once in its life, at the back; only the front  *)
(* is lent, to one consumer; what was lent or has left comes back only as  *)
(* a new connection, once every trace of the old one is gone.              *)
(***************************************************************************)
EXTENDS Naturals, Sequences

CONSTANT Socket

VARIABLES pool,   \* the connections waiting for a consumer, oldest first
          lent,   \* the connections some consumer holds
          spent   \* the connections that have left the pool and not yet ended

poolVars == <<pool, lent, spent>>

InPool(s) == \E i \in 1..Len(pool) : pool[i] = s

PoolInit == pool = << >> /\ lent = {} /\ spent = {}

Join(s) ==
    /\ ~InPool(s) /\ s \notin lent /\ s \notin spent
    /\ pool' = Append(pool, s)
    /\ UNCHANGED <<lent, spent>>

\* The front goes to a consumer, or is dropped; other consumers may let go
Lend ==
    /\ pool # << >>
    /\ pool' = Tail(pool)
    /\ spent' = spent \cup {Head(pool)}
    /\ lent' \in SUBSET (lent \cup {Head(pool)})

\* A pooled connection ends: the others keep their order
Leave(i) ==
    /\ pool' = [j \in 1..(Len(pool) - 1) |-> IF j < i THEN pool[j] ELSE pool[j + 1]]
    /\ UNCHANGED <<lent, spent>>

\* A consumer gives up its connection, for good; a connection ends
Return(s) ==
    /\ lent' = lent \ {s}
    /\ spent' \in {spent, spent \ {s}}
    /\ UNCHANGED pool

PoolNext ==
    \/ Lend
    \/ \E s \in Socket : Join(s) \/ Return(s)
    \/ \E i \in 1..Len(pool) : Leave(i)

PoolSpec == PoolInit /\ [][PoolNext]_poolVars
=============================================================================
