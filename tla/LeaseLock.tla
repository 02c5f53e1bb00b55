------------------------------ MODULE LeaseLock ------------------------------
(***************************************************************************)
(* What the locks table promises, without queues, requests or reapers: for *)
(* each name at most one lease.  A lease is a holder, a capability token   *)
(* and the second at which it expires.  Somebody else takes a name only    *)
(* once its lease has expired; a lease is extended under the token it was  *)
(* granted with; and no token is ever granted twice.                       *)
(*                                                                         *)
(* Handlers read the clock before they get the one database connection, so *)
(* an operation may count its seconds from any instant up to the present.  *)
(***************************************************************************)
EXTENDS Naturals

CONSTANTS
    Names,     \* lock names
    Agents,    \* agent identities
    TTLs,      \* lease lengths, in seconds
    NoRow      \* no row for a name

VARIABLES
    clock,     \* wall clock, in whole seconds
    row,       \* the lease of each name, or NoRow
    grants     \* number of successful grants, the source of fresh tokens

leaseVars == <<clock, row, grants>>

Token == Names \X Nat

Row == [agent : Agents, token : Token, expires : Nat]

LeaseInit ==
    /\ clock = 0
    /\ row = [n \in Names |-> NoRow]
    /\ grants = 0

Advance ==
    /\ clock' = clock + 1
    /\ UNCHANGED <<row, grants>>

\* A batch of names, all free of an unexpired lease, goes to one agent.
Grant(S, a, t, ttl) ==
    /\ \A n \in S : row[n] # NoRow => row[n].expires <= clock
    /\ grants' = grants + 1
    /\ row' = [n \in Names |->
                  IF n \in S
                  THEN [agent |-> a, token |-> <<n, grants + 1>>, expires |-> t + ttl]
                  ELSE row[n]]
    /\ UNCHANGED clock

\* The holder keeps its token; only the expiry changes.
Extend(n, t, ttl) ==
    /\ row[n] # NoRow
    /\ row' = [row EXCEPT ![n] = [agent |-> row[n].agent, token |-> row[n].token,
                                  expires |-> t + ttl]]
    /\ UNCHANGED <<clock, grants>>

\* Leases end because one agent gives its own up, or because they expired.
Release(S, a) ==
    /\ \A n \in S : row[n] # NoRow /\ row[n].agent = a
    /\ row' = [n \in Names |-> IF n \in S THEN NoRow ELSE row[n]]
    /\ UNCHANGED <<clock, grants>>

Expire(S) ==
    /\ \A n \in S : row[n] # NoRow /\ row[n].expires <= clock
    /\ row' = [n \in Names |-> IF n \in S THEN NoRow ELSE row[n]]
    /\ UNCHANGED <<clock, grants>>

LeaseNext ==
    \/ Advance
    \/ \E S \in SUBSET Names, a \in Agents, t \in 0..clock, ttl \in TTLs : Grant(S, a, t, ttl)
    \/ \E n \in Names, t \in 0..clock, ttl \in TTLs : Extend(n, t, ttl)
    \/ \E S \in SUBSET Names, a \in Agents : Release(S, a)
    \/ \E S \in SUBSET Names : Expire(S)

LeaseSpec == LeaseInit /\ [][LeaseNext]_leaseVars
=============================================================================
