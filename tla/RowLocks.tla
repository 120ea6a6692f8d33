------------------------------- MODULE RowLocks -------------------------------
(***************************************************************************)
(* What PostgreSQL does for the jobs that write rows in open transactions, *)
(* as far as the program leans on it.  A job is a record whose field       *)
(*   held  is the keys of rows its open transaction deleted or inserted,   *)
(*   want  is the keys its statement has still to reach.                   *)
(* A DELETE or an INSERT that comes to a key held by another transaction   *)
(* waits until that one has ended; of transactions that wait for each      *)
(* other in a circle the server aborts one.  A job that ends or dies holds *)
(* nothing any more.                                                       *)
(***************************************************************************)

HeldBeside(job, p) == UNION {job[q].held : q \in DOMAIN job \ {p}}

\* What p's statement need not wait for.
Free(job, p) == job[p].want \ HeldBeside(job, p)

\* How far p's statement gets in a step: to its end if nothing is in the way, and
\* else to some of the keys before the one it has to wait for.
Reached(job, p) ==
  IF Free(job, p) = job[p].want THEN {job[p].want} ELSE (SUBSET Free(job, p)) \ {{}}

Waits(job, p, q) == p # q /\ job[p].want \cap job[q].held # {}

\* p waits in a circle: for one that waits for ... p.
Stuck(job, p) ==
  \E S \in SUBSET DOMAIN job :
    /\ p \in S
    /\ \A q \in S : (\E r \in S : Waits(job, q, r)) /\ (\E r \in S : Waits(job, r, q))

\* p commits and goes on as j: a row it deleted is gone for the DELETEs that wait for it.
Committed(job, p, j, deleting) ==
  [q \in DOMAIN job |->
     IF q = p THEN j
     ELSE IF job[q].pc \in deleting THEN [job[q] EXCEPT !.want = @ \ job[p].held]
     ELSE job[q]]
===============================================================================
