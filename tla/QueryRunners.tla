----------------------------- MODULE QueryRunners -----------------------------
(***************************************************************************)
(* The connections the friend-request handlers take from the process's      *)
(* PostgreSQL pool.  A repository query takes a connection and gives it     *)
(* back.  A transaction takes one with createQueryRunner and connect; none  *)
(* of the three transaction helpers calls release, so a connection taken    *)
(* for a transaction is kept until the process ends.  An acceptance queries *)
(* the chatrooms on a second connection while its transaction holds one.    *)
(* The pool hands its connections to the waiting queries in their order.    *)
(***************************************************************************)
EXTENDS Naturals, FiniteSets, Sequences

CONSTANTS
  Requests,  \* slots for HTTP requests being served at the same time
  PoolSize   \* the connections of the pool, 10 unless configured

ASSUME QueryRunnersAssumption == PoolSize \in Nat \ {0} /\ IsFiniteSet(Requests)

(* What each kind of request does with connections, in order: a "query" of  *)
(* a repository takes one for its duration, "connect" takes one for a query *)
(* runner and runs the transaction's statements, "commit" ends the          *)
(* transaction.                                                             *)
Kinds == {"list", "search", "create", "update", "accept", "sendAccept", "remove"}

Needs(kind) ==
  CASE kind = "list" -> <<"query">>
    [] kind = "search" -> <<"query", "query">>
    [] kind = "create" -> <<"query", "query", "connect", "commit">>
    [] kind = "update" -> <<"query", "connect", "commit">>
    [] kind = "accept" -> <<"query", "connect", "query", "query", "commit">>
    [] kind = "sendAccept" -> <<"query", "query", "connect", "query", "query", "commit">>
    [] kind = "remove" -> <<"query", "query", "connect", "commit">>

VARIABLES
  idle,       \* connections free in the pool
  kept,       \* connections of query runners, open or never released
  waiting,    \* the pool's queue of requests
  needs,      \* what each request still has to do
  granted,    \* the requests that were given a connection and use it
  committed   \* transactions committed since the process started

vars == <<idle, kept, waiting, needs, granted, committed>>

Init ==
  /\ idle = PoolSize
  /\ kept = 0
  /\ waiting = <<>>
  /\ needs = [r \in Requests |-> <<>>]
  /\ granted = {}
  /\ committed = 0

InQueue(r) == \E i \in DOMAIN waiting : waiting[i] = r

Doing(r, step) == needs[r] # <<>> /\ Head(needs[r]) = step

(* The request's step is over.  When it failed, or what it read refuses the *)
(* request, the request is over too.                                        *)
StepOver(r) == \E rest \in {Tail(needs[r]), <<>>} : needs' = [needs EXCEPT ![r] = rest]

Receive(r, kind) ==
  /\ needs[r] = <<>>
  /\ needs' = [needs EXCEPT ![r] = Needs(kind)]
  /\ UNCHANGED <<idle, kept, waiting, granted, committed>>

(* The request's query or query runner asks the pool for a connection.      *)
Ask(r) ==
  /\ Doing(r, "query") \/ Doing(r, "connect")
  /\ ~InQueue(r) /\ r \notin granted
  /\ waiting' = Append(waiting, r)
  /\ UNCHANGED <<idle, kept, needs, granted, committed>>

(* The pool serves the first that waits when it has a connection left.      *)
Grant ==
  /\ idle > 0
  /\ waiting # <<>>
  /\ idle' = idle - 1
  /\ granted' = granted \cup {Head(waiting)}
  /\ waiting' = Tail(waiting)
  /\ UNCHANGED <<kept, needs, committed>>

(* Mutation: a query that fails keeps its connection.                       *)
EndQueryUnlessFailed(r) ==
  /\ r \in granted /\ Doing(r, "query")
  /\ granted' = granted \ {r}
  /\ \/ needs' = [needs EXCEPT ![r] = Tail(needs[r])] /\ idle' = idle + 1
     \/ needs' = [needs EXCEPT ![r] = <<>>] /\ UNCHANGED idle
  /\ UNCHANGED <<kept, waiting, committed>>

(* A query ends and gives its connection back.                              *)
EndQuery(r) ==
  /\ r \in granted /\ Doing(r, "query")
  /\ granted' = granted \ {r}
  /\ StepOver(r)
  /\ idle' = idle + 1
  /\ UNCHANGED <<kept, waiting, committed>>

(* The query runner has its connection and the transaction has run its      *)
(* statements, or was rolled back: either way the connection stays taken.   *)
Connect(r) ==
  /\ r \in granted /\ Doing(r, "connect")
  /\ granted' = granted \ {r}
  /\ StepOver(r)
  /\ kept' = kept + 1
  /\ UNCHANGED <<idle, waiting, committed>>

(* Mutation: a commit that releases the query runner.                       *)
CommitReleasing(r) ==
  /\ Doing(r, "commit")
  /\ needs' = [needs EXCEPT ![r] = <<>>]
  /\ committed' = committed + 1
  /\ kept' = kept - 1
  /\ idle' = idle + 1
  /\ UNCHANGED <<waiting, granted>>

Commit(r) ==
  /\ Doing(r, "commit")
  /\ needs' = [needs EXCEPT ![r] = <<>>]
  /\ committed' = committed + 1
  /\ UNCHANGED <<idle, kept, waiting, granted>>

(* The process ends and is started again with a new pool.                   *)
Restart ==
  /\ idle' = PoolSize
  /\ kept' = 0
  /\ waiting' = <<>>
  /\ needs' = [r \in Requests |-> <<>>]
  /\ granted' = {}
  /\ committed' = 0

Next ==
  \/ \E r \in Requests :
       \/ \E kind \in Kinds : Receive(r, kind)
       \/ Ask(r)
       \/ EndQuery(r)
       \/ Connect(r)
       \/ Commit(r)
  \/ Grant
  \/ Restart

Spec == Init /\ [][Next]_vars

(* The pool serves its queue, and the database answers: every query,        *)
(* transaction and commit ends.  Nothing makes the process restart.         *)
FairSpec ==
  /\ Spec
  /\ WF_vars(Grant)
  /\ \A r \in Requests :
       WF_vars(Ask(r)) /\ WF_vars(EndQuery(r)) /\ WF_vars(Connect(r)) /\ WF_vars(Commit(r))

-----------------------------------------------------------------------------
(* What a request may still have to do, and when its transaction is open.   *)
OpenPlans == {<<"query", "query", "commit">>, <<"query", "commit">>, <<"commit">>}

Plans == OpenPlans \cup
  {<<>>, <<"query">>, <<"query", "query">>,
   <<"connect", "commit">>, <<"query", "connect", "commit">>,
   <<"query", "query", "connect", "commit">>,
   <<"connect", "query", "query", "commit">>,
   <<"query", "connect", "query", "query", "commit">>,
   <<"query", "query", "connect", "query", "query", "commit">>}

(* Types of the six variables.                                              *)
TypeOK ==
  /\ idle \in Nat
  /\ kept \in Nat
  /\ waiting \in Seq(Requests)
  /\ needs \in [Requests -> Plans]
  /\ granted \subseteq Requests
  /\ committed \in Nat

(* A request waits once, and for a connection it is about to use.           *)
QueueInOrder ==
  /\ \A i, j \in DOMAIN waiting : waiting[i] = waiting[j] => i = j
  /\ \A i \in DOMAIN waiting : waiting[i] \notin granted
  /\ \A r \in granted : Doing(r, "query") \/ Doing(r, "connect")
  /\ \A i \in DOMAIN waiting : Doing(waiting[i], "query") \/ Doing(waiting[i], "connect")

OpenTransactions == {r \in Requests : needs[r] \in OpenPlans}

(* Every connection of the pool is free, serves a request or is kept by a   *)
(* query runner; every commit, past or to come, keeps one of its own.       *)
ConnectionsAddUp ==
  /\ idle + kept + Cardinality(granted) = PoolSize
  /\ committed + Cardinality(OpenTransactions) <= kept

(* The inductive invariant behind CommitsWithinPool: no connection is lost  *)
(* or counted twice, whatever fails.                                        *)
PoolInv == TypeOK /\ QueueInOrder /\ ConnectionsAddUp

(* Between two starts a process commits no more friend-request transactions *)
(* than its pool has connections, however many requests it is sent and in   *)
(* whatever order they run.                                                 *)
CommitsWithinPool == committed <= PoolSize

(* Connections run out in no other way: a request waits for ever only when  *)
(* query runners keep every connection of the pool, an open acceptance's    *)
(* own among them.                                                          *)
WaitsOnlyForKept ==
  \A r \in Requests : needs[r] # <<>> ~> (needs[r] = <<>> \/ kept = PoolSize)

(* GET /friend-request is documented to answer 200 with the paginated       *)
(* friend list: a request for a list is answered.                           *)
ListAnswered == \A r \in Requests : needs[r] = <<"query">> ~> needs[r] = <<>>
=============================================================================
