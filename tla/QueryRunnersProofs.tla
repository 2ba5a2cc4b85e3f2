-------------------------- MODULE QueryRunnersProofs --------------------------
(***************************************************************************)
(* For every size of the pool and any number of requests: connections add   *)
(* up, and a process commits no more transactions than its pool has         *)
(* connections.                                                             *)
(***************************************************************************)
EXTENDS QueryRunners, FiniteSetTheorems, TLAPS

(* What is left of a plan after its first step is a plan: a query neither   *)
(* opens a transaction nor ends one, connect opens it, commit ends it.      *)
LEMMA PlanFacts ==
  ASSUME NEW p \in Plans, p # <<>>
  PROVE  /\ Tail(p) \in Plans
         /\ Head(p) \in {"query", "connect", "commit"}
         /\ Head(p) = "query" => (Tail(p) \in OpenPlans <=> p \in OpenPlans)
         /\ Head(p) = "connect" => p \notin OpenPlans /\ Tail(p) \in OpenPlans
         /\ Head(p) = "commit" => p \in OpenPlans
  <1>1. CASE p = <<"commit">>
    <2>1. Tail(p) = <<>> /\ Head(p) = "commit"
      BY <1>1
    <2>q. QED BY <1>1, <2>1 DEF Plans, OpenPlans
  <1>2. CASE p = <<"query">>
    <2>1. Tail(p) = <<>> /\ Head(p) = "query"
      BY <1>2
    <2>q. QED BY <1>2, <2>1 DEF Plans, OpenPlans
  <1>3. CASE p = <<"query", "commit">>
    <2>1. Tail(p) = <<"commit">> /\ Head(p) = "query"
      BY <1>3
    <2>q. QED BY <1>3, <2>1 DEF Plans, OpenPlans
  <1>4. CASE p = <<"query", "query">>
    <2>1. Tail(p) = <<"query">> /\ Head(p) = "query"
      BY <1>4
    <2>q. QED BY <1>4, <2>1 DEF Plans, OpenPlans
  <1>5. CASE p = <<"connect", "commit">>
    <2>1. Tail(p) = <<"commit">> /\ Head(p) = "connect"
      BY <1>5
    <2>q. QED BY <1>5, <2>1 DEF Plans, OpenPlans
  <1>6. CASE p = <<"query", "query", "commit">>
    <2>1. Tail(p) = <<"query", "commit">> /\ Head(p) = "query"
      BY <1>6
    <2>q. QED BY <1>6, <2>1 DEF Plans, OpenPlans
  <1>7. CASE p = <<"query", "connect", "commit">>
    <2>1. Tail(p) = <<"connect", "commit">> /\ Head(p) = "query"
      BY <1>7
    <2>q. QED BY <1>7, <2>1 DEF Plans, OpenPlans
  <1>8. CASE p = <<"query", "query", "connect", "commit">>
    <2>1. Tail(p) = <<"query", "connect", "commit">> /\ Head(p) = "query"
      BY <1>8
    <2>q. QED BY <1>8, <2>1 DEF Plans, OpenPlans
  <1>9. CASE p = <<"connect", "query", "query", "commit">>
    <2>1. Tail(p) = <<"query", "query", "commit">> /\ Head(p) = "connect"
      BY <1>9
    <2>q. QED BY <1>9, <2>1 DEF Plans, OpenPlans
  <1>10. CASE p = <<"query", "connect", "query", "query", "commit">>
    <2>1. Tail(p) = <<"connect", "query", "query", "commit">> /\ Head(p) = "query"
      BY <1>10
    <2>q. QED BY <1>10, <2>1 DEF Plans, OpenPlans
  <1>11. CASE p = <<"query", "query", "connect", "query", "query", "commit">>
    <2>1. Tail(p) = <<"query", "connect", "query", "query", "commit">> /\ Head(p) = "query"
      BY <1>11
    <2>q. QED BY <1>11, <2>1 DEF Plans, OpenPlans
  <1>q. QED BY <1>1, <1>2, <1>3, <1>4, <1>5, <1>6, <1>7, <1>8, <1>9, <1>10, <1>11 DEF Plans, OpenPlans

(* A request starts without a transaction. *)
LEMMA NeedsFacts ==
  /\ <<>> \in Plans \ OpenPlans
  /\ \A kind \in Kinds : Needs(kind) \in Plans \ OpenPlans
  BY DEF Plans, OpenPlans, Kinds, Needs

(* Sets of requests have a size. *)
LEMMA FiniteSlots ==
  ASSUME NEW S \in SUBSET Requests
  PROVE  IsFiniteSet(S) /\ Cardinality(S) \in Nat
  BY QueryRunnersAssumption, FS_Subset, FS_CardinalityType

(* How a step of one request changes the number of open transactions. *)
LEMMA StepFacts ==
  ASSUME TypeOK, NEW r \in Requests, NEW plan \in Plans,
         needs' = [needs EXCEPT ![r] = plan]
  PROVE  /\ needs' \in [Requests -> Plans]
         /\ needs'[r] = plan
         /\ \A q \in Requests \ {r} : needs'[q] = needs[q]
         /\ plan \in OpenPlans /\ needs[r] \notin OpenPlans =>
              Cardinality(OpenTransactions') = Cardinality(OpenTransactions) + 1
         /\ plan \notin OpenPlans /\ needs[r] \in OpenPlans =>
              Cardinality(OpenTransactions') = Cardinality(OpenTransactions) - 1
         /\ (plan \in OpenPlans <=> needs[r] \in OpenPlans) =>
              Cardinality(OpenTransactions') = Cardinality(OpenTransactions)
  <1>1. /\ needs' \in [Requests -> Plans]
        /\ needs'[r] = plan
        /\ \A q \in Requests \ {r} : needs'[q] = needs[q]
    BY DEF TypeOK
  <1>2. IsFiniteSet(OpenTransactions)
    BY FiniteSlots DEF OpenTransactions
  <1>3. ASSUME plan \in OpenPlans, needs[r] \notin OpenPlans
        PROVE  Cardinality(OpenTransactions') = Cardinality(OpenTransactions) + 1
    <2>1. OpenTransactions' = OpenTransactions \cup {r} /\ r \notin OpenTransactions
      BY <1>1, <1>3 DEF OpenTransactions
    <2>q. QED BY <1>2, <2>1, FS_AddElement
  <1>4. ASSUME plan \notin OpenPlans, needs[r] \in OpenPlans
        PROVE  Cardinality(OpenTransactions') = Cardinality(OpenTransactions) - 1
    <2>1. OpenTransactions' = OpenTransactions \ {r} /\ r \in OpenTransactions
      BY <1>1, <1>4 DEF OpenTransactions
    <2>q. QED BY <1>2, <2>1, FS_RemoveElement
  <1>5. ASSUME plan \in OpenPlans <=> needs[r] \in OpenPlans
        PROVE  Cardinality(OpenTransactions') = Cardinality(OpenTransactions)
    <2>1. OpenTransactions' = OpenTransactions
      BY <1>1, <1>5 DEF OpenTransactions
    <2>q. QED BY <2>1
  <1>q. QED BY <1>1, <1>3, <1>4, <1>5

(* How a connection handed out or back changes the number of users. *)
LEMMA GrantedFacts ==
  ASSUME granted \subseteq Requests, NEW r \in Requests
  PROVE  /\ r \notin granted => Cardinality(granted \cup {r}) = Cardinality(granted) + 1
         /\ r \in granted => Cardinality(granted \ {r}) = Cardinality(granted) - 1
  BY FiniteSlots, FS_AddElement, FS_RemoveElement

(* Every connection is free, in use or kept by a query runner, whichever    *)
(* queries and transactions interleave, fail or meet a restart: the counts  *)
(* behind CommitsWithinPool are inductive.                                  *)
THEOREM PoolInvariant == Spec => []PoolInv
  <1>1. Init => PoolInv
    <2>. SUFFICES ASSUME Init PROVE PoolInv
      OBVIOUS
    <2>1. TypeOK
      BY NeedsFacts, QueryRunnersAssumption DEF Init, TypeOK
    <2>2. QueueInOrder
      BY DEF Init, QueueInOrder
    <2>3. OpenTransactions = {} /\ granted = {}
      BY NeedsFacts DEF Init, OpenTransactions
    <2>4. ConnectionsAddUp
      BY <2>3, FS_EmptySet, QueryRunnersAssumption DEF Init, ConnectionsAddUp
    <2>q. QED BY <2>1, <2>2, <2>4 DEF PoolInv
  <1>2. PoolInv /\ [Next]_vars => PoolInv'
    <2>. SUFFICES ASSUME PoolInv, [Next]_vars PROVE PoolInv'
      OBVIOUS
    <2>0. /\ TypeOK /\ QueueInOrder /\ ConnectionsAddUp
          /\ Cardinality(granted) \in Nat /\ Cardinality(OpenTransactions) \in Nat
          /\ PoolSize \in Nat
      BY FiniteSlots, QueryRunnersAssumption DEF PoolInv, TypeOK, OpenTransactions
    <2>1. ASSUME NEW r \in Requests, NEW kind \in Kinds, Receive(r, kind) PROVE PoolInv'
      <3>1. r \notin granted /\ ~InQueue(r)
        BY <2>0, <2>1 DEF Receive, QueueInOrder, InQueue, Doing
      <3>2. /\ needs' \in [Requests -> Plans]
            /\ \A q \in Requests \ {r} : needs'[q] = needs[q]
            /\ Cardinality(OpenTransactions') = Cardinality(OpenTransactions)
        BY <2>0, <2>1, StepFacts, NeedsFacts DEF Receive
      <3>3. TypeOK'
        BY <2>0, <2>1, <3>2 DEF TypeOK, Receive
      <3>4. QueueInOrder'
        BY <2>0, <2>1, <3>1, <3>2 DEF TypeOK, Receive, QueueInOrder, InQueue, Doing
      <3>5. ConnectionsAddUp'
        BY <2>0, <2>1, <3>2 DEF Receive, ConnectionsAddUp
      <3>q. QED BY <3>3, <3>4, <3>5 DEF PoolInv
    <2>2. ASSUME NEW r \in Requests, Ask(r) PROVE PoolInv'
      <3>1. TypeOK'
        BY <2>0, <2>2 DEF TypeOK, Ask
      <3>2. QueueInOrder'
        BY <2>0, <2>2 DEF TypeOK, Ask, QueueInOrder, InQueue, Doing
      <3>3. ConnectionsAddUp'
        BY <2>0, <2>2 DEF Ask, ConnectionsAddUp, OpenTransactions
      <3>q. QED BY <3>1, <3>2, <3>3 DEF PoolInv
    <2>3. CASE Grant
      <3>1. Head(waiting) \in Requests \ granted /\ Len(waiting) > 0 /\ Head(waiting) = waiting[1]
        BY <2>0, <2>3 DEF Grant, TypeOK, QueueInOrder
      <3>2. Cardinality(granted') = Cardinality(granted) + 1
        BY <2>0, <2>3, <3>1, GrantedFacts DEF Grant, TypeOK
      <3>3. TypeOK'
        BY <2>0, <2>3, <3>1 DEF TypeOK, Grant
      <3>4. \A i \in DOMAIN waiting' : i + 1 \in DOMAIN waiting /\ waiting'[i] = waiting[i + 1]
        BY <2>0, <2>3, <3>1 DEF TypeOK, Grant
      <3>5. QueueInOrder'
        BY <2>0, <2>3, <3>1, <3>4 DEF TypeOK, Grant, QueueInOrder, Doing
      <3>6. ConnectionsAddUp'
        BY <2>0, <2>3, <3>2 DEF Grant, ConnectionsAddUp, OpenTransactions, TypeOK
      <3>q. QED BY <3>3, <3>5, <3>6 DEF PoolInv
    <2>4. ASSUME NEW r \in Requests, NEW step \in {"query", "connect"},
                 r \in granted, Doing(r, step), granted' = granted \ {r}, StepOver(r),
                 UNCHANGED <<waiting, committed>>
          PROVE  /\ TypeOK' <=> idle' \in Nat /\ kept' \in Nat
                 /\ QueueInOrder'
                 /\ Cardinality(granted') = Cardinality(granted) - 1
                 /\ Cardinality(OpenTransactions') \in Nat
                 /\ Cardinality(OpenTransactions') <= Cardinality(OpenTransactions) + 1
                 /\ step = "query" =>
                      Cardinality(OpenTransactions') <= Cardinality(OpenTransactions)
      <3>1. PICK plan \in Plans : /\ needs' = [needs EXCEPT ![r] = plan]
                                  /\ step = "query" => (plan \in OpenPlans => needs[r] \in OpenPlans)
        BY <2>0, <2>4, PlanFacts, NeedsFacts DEF StepOver, Doing, TypeOK
      <3>2. /\ needs' \in [Requests -> Plans]
            /\ \A q \in Requests \ {r} : needs'[q] = needs[q]
            /\ \/ /\ plan \in OpenPlans /\ needs[r] \notin OpenPlans
                  /\ Cardinality(OpenTransactions') = Cardinality(OpenTransactions) + 1
               \/ Cardinality(OpenTransactions') = Cardinality(OpenTransactions) - 1
               \/ Cardinality(OpenTransactions') = Cardinality(OpenTransactions)
        BY <2>0, <3>1, StepFacts
      <3>3. \A i \in DOMAIN waiting : waiting[i] # r
        BY <2>0, <2>4 DEF QueueInOrder
      <3>4. QueueInOrder'
        BY <2>0, <2>4, <3>2, <3>3 DEF TypeOK, QueueInOrder, Doing
      <3>5. Cardinality(granted') = Cardinality(granted) - 1
        BY <2>0, <2>4, GrantedFacts DEF TypeOK
      <3>6. OpenTransactions' \subseteq Requests
        BY DEF OpenTransactions
      <3>7. Cardinality(OpenTransactions') \in Nat
        BY <3>6, FiniteSlots
      <3>8. /\ Cardinality(OpenTransactions') <= Cardinality(OpenTransactions) + 1
            /\ step = "query" => Cardinality(OpenTransactions') <= Cardinality(OpenTransactions)
        BY <2>0, <3>1, <3>2, <3>7
      <3>9. TypeOK' <=> idle' \in Nat /\ kept' \in Nat
        BY <2>0, <2>4, <3>2 DEF TypeOK
      <3>q. QED BY <3>4, <3>5, <3>7, <3>8, <3>9
    <2>5. ASSUME NEW r \in Requests, EndQuery(r) PROVE PoolInv'
      <3>1. /\ TypeOK' <=> idle' \in Nat /\ kept' \in Nat
            /\ QueueInOrder'
            /\ Cardinality(granted') = Cardinality(granted) - 1
            /\ Cardinality(OpenTransactions') \in Nat
            /\ Cardinality(OpenTransactions') <= Cardinality(OpenTransactions)
        BY <2>4, <2>5 DEF EndQuery
      <3>2. TypeOK'
        BY <2>0, <2>5, <3>1 DEF EndQuery, TypeOK
      <3>3. ConnectionsAddUp'
        BY <2>0, <2>5, <3>1 DEF EndQuery, ConnectionsAddUp, TypeOK
      <3>q. QED BY <3>1, <3>2, <3>3 DEF PoolInv
    <2>6. ASSUME NEW r \in Requests, Connect(r) PROVE PoolInv'
      <3>1. /\ TypeOK' <=> idle' \in Nat /\ kept' \in Nat
            /\ QueueInOrder'
            /\ Cardinality(granted') = Cardinality(granted) - 1
            /\ Cardinality(OpenTransactions') \in Nat
            /\ Cardinality(OpenTransactions') <= Cardinality(OpenTransactions) + 1
        BY <2>4, <2>6 DEF Connect
      <3>2. TypeOK'
        BY <2>0, <2>6, <3>1 DEF Connect, TypeOK
      <3>3. ConnectionsAddUp'
        BY <2>0, <2>6, <3>1 DEF Connect, ConnectionsAddUp, TypeOK
      <3>q. QED BY <3>1, <3>2, <3>3 DEF PoolInv
    <2>7. ASSUME NEW r \in Requests, Commit(r) PROVE PoolInv'
      <3>1. needs[r] \in OpenPlans /\ r \notin granted /\ ~InQueue(r)
        BY <2>0, <2>7, PlanFacts DEF Commit, Doing, TypeOK, QueueInOrder, InQueue
      <3>2. /\ needs' \in [Requests -> Plans]
            /\ \A q \in Requests \ {r} : needs'[q] = needs[q]
            /\ Cardinality(OpenTransactions') = Cardinality(OpenTransactions) - 1
        BY <2>0, <2>7, <3>1, StepFacts, NeedsFacts DEF Commit
      <3>3. TypeOK'
        BY <2>0, <2>7, <3>2 DEF TypeOK, Commit
      <3>4. QueueInOrder'
        BY <2>0, <2>7, <3>1, <3>2 DEF TypeOK, Commit, QueueInOrder, InQueue, Doing
      <3>5. ConnectionsAddUp'
        BY <2>0, <2>7, <3>2 DEF Commit, ConnectionsAddUp, TypeOK
      <3>q. QED BY <3>3, <3>4, <3>5 DEF PoolInv
    <2>8. CASE Restart
      <3>1. OpenTransactions' = {} /\ granted' = {}
        BY <2>8, NeedsFacts DEF Restart, OpenTransactions
      <3>2. TypeOK'
        BY <2>0, <2>8, NeedsFacts DEF Restart, TypeOK
      <3>3. QueueInOrder'
        BY <2>8 DEF Restart, QueueInOrder
      <3>4. ConnectionsAddUp'
        BY <2>0, <2>8, <3>1, FS_EmptySet DEF Restart, ConnectionsAddUp
      <3>q. QED BY <3>2, <3>3, <3>4 DEF PoolInv
    <2>9. CASE UNCHANGED vars
      BY <2>0, <2>9 DEF vars, PoolInv, TypeOK, QueueInOrder, ConnectionsAddUp, OpenTransactions, Doing
    <2>q. QED
      BY <2>1, <2>2, <2>3, <2>5, <2>6, <2>7, <2>8, <2>9 DEF Next
  <1>q. QED BY <1>1, <1>2, PTL DEF Spec

(* Because no helper releases its query runner, the number of friend-request *)
(* transactions a process commits is bounded by the size of its pool.       *)
THEOREM CommitsBounded == Spec => []CommitsWithinPool
  <1>1. PoolInv => CommitsWithinPool
    <2>1. ASSUME PoolInv
          PROVE  Cardinality(granted) \in Nat /\ Cardinality(OpenTransactions) \in Nat
      BY <2>1, FiniteSlots DEF PoolInv, TypeOK, OpenTransactions
    <2>q. QED
      BY <2>1, QueryRunnersAssumption DEF PoolInv, TypeOK, ConnectionsAddUp, CommitsWithinPool
  <1>q. QED BY <1>1, PoolInvariant, PTL
=============================================================================
