-------------------------- MODULE ChatMessagesProofs --------------------------
(***************************************************************************)
(* ChatMessages' invariants for any users, rooms, messages and slots, any    *)
(* number of waiting jobs, acknowledgements and crashes.                     *)
(***************************************************************************)
EXTENDS ChatMessages, SequenceTheorems, FiniteSetTheorems, TLAPS

(* A job that stores has something to store; one that writes a status names *)
(* stored messages, for a user who did acknowledge them with it.            *)
OrderedJobs ==
  {j \in Jobs :
     /\ j.kind = "save" => j.messages # << >>
     /\ j.kind = "status" => \A id \in j.messages : id \in Stored /\ j.status \in told[id][j.by]}

(* What a slot's work knows at each of its awaits.                          *)
WorkInOrder(w) ==
  /\ w \in open \/ step[w] # "idle" => job[w] # None
  /\ step[w] \in {"save", "lastMessage"} => job[w].kind = "save"
  /\ step[w] = "lastMessage" => Copies(job[w]) \subseteq Stored
  /\ step[w] \in {"find", "update"} => job[w].kind = "status"
  /\ step[w] = "update" =>
       \A id \in DOMAIN copy[w] :
         id \in Stored /\ \A u \in DOMAIN copy[w][id] : copy[w][id][u] \in told[id][u] \cup {"NOT_DELIVERED"}

JobsInOrder ==
  /\ queue \in Seq(OrderedJobs)
  /\ job \in [Slots -> OrderedJobs \cup {None}]
  /\ copy = [w \in Slots |-> copy[w]]
  /\ \A w \in Slots : WorkInOrder(w)

(* The message is on its way or stored.                                     *)
Kept(m) ==
  \/ \E id \in Stored : id[1] = m
  \/ \E i \in DOMAIN queue : CarriedBy(queue[i], m)
  \/ \E w \in Slots : Saving(w, m)

ChatInv == TypeOK /\ JobsInOrder /\ LastMessageOfRoom /\ OnlyAcknowledged /\ NoneLost

-----------------------------------------------------------------------------
(* What is stored and what users have acknowledged only grows.              *)
Grows ==
  /\ Stored \subseteq Stored'
  /\ \A id \in Ids : \A u \in Users : told[id][u] \subseteq told'[id][u]

LEMMA JobFields ==
  ASSUME NEW j \in Jobs
  PROVE  /\ j # None
         /\ j.kind \in {"save", "status"} /\ j.room \in Rooms /\ j.run \in {1, 2}
         /\ j.kind = "save" => j.messages \in Seq(Messages)
         /\ j.kind = "status" => j.messages \subseteq Ids /\ j.by \in Users /\ j.status \in Statuses
  BY ChatMessagesAssumption DEF Jobs

LEMMA OrderedJobsStay ==
  ASSUME Grows
  PROVE  OrderedJobs \subseteq OrderedJobs'
<1>1. SUFFICES ASSUME NEW j \in Jobs, j \in OrderedJobs, j.kind = "status", NEW id \in j.messages
               PROVE  id \in Stored' /\ j.status \in told'[id][j.by]
  BY DEF OrderedJobs
<1>2. id \in Stored /\ id \in Ids /\ j.by \in Users /\ j.status \in told[id][j.by]
  <2>1. j.by \in Users
    BY <1>1, JobFields
  <2>2. id \in Stored /\ j.status \in told[id][j.by]
    BY <1>1 DEF OrderedJobs
  <2> QED
    BY <2>1, <2>2 DEF Stored
<1> QED
  BY <1>2 DEF Grows

LEMMA SameJobs ==
  ASSUME Grows
  PROVE  /\ \A s \in Seq(OrderedJobs) : s \in Seq(OrderedJobs')
         /\ \A f \in [Slots -> OrderedJobs \cup {None}] : f \in [Slots -> OrderedJobs' \cup {None}]
<1>1. OrderedJobs \subseteq OrderedJobs'
  BY OrderedJobsStay
<1>2. Seq(OrderedJobs) \subseteq Seq(OrderedJobs')
  BY <1>1, SeqMonotonic, Zenon
<1> QED
  BY <1>1, <1>2

LEMMA CopiesAreIds ==
  ASSUME NEW j \in Jobs, j.kind = "save"
  PROVE  /\ Copies(j) = {<<m, j.run>> : m \in ToSet(j.messages)} /\ Copies(j) \subseteq Ids
         /\ j.messages # << >> => LatestMessage(j) \in Copies(j)
<1>1. j.messages \in Seq(Messages) /\ j.run \in {1, 2}
  BY JobFields
<1>2. ToSet(j.messages) \subseteq Messages
  BY <1>1 DEF ToSet
<1>3. ASSUME j.messages # << >> PROVE Head(j.messages) \in ToSet(j.messages)
  BY <1>1, <1>3 DEF ToSet
<1> QED
  BY <1>1, <1>2, <1>3 DEF Copies, Ids, LatestMessage

LEMMA ListsOfUsers ==
  ASSUME NEW l \in Lists
  PROVE  l # None /\ DOMAIN l \subseteq Users /\ \A u \in DOMAIN l : l[u] \in Statuses \cup {"NOT_DELIVERED"}
  BY ChatMessagesAssumption DEF Lists

(* Work that ends had saved its messages before, or had none.               *)
LEMMA EndOfWork ==
  ASSUME TypeOK, JobsInOrder, NEW w \in Slots, EndWork(w), step[w] # "save",
         Stored \subseteq Stored', seen' \in [Ids -> Lists \cup {None}]
  PROVE  /\ JobsInOrder' /\ \A m \in Messages : Kept(m) => Kept(m)'
         /\ lastMessage' \in [Rooms -> Ids \cup {None}] => TypeOK'
<1>1. /\ queue' = queue /\ reached' = reached /\ open' = open /\ sent' = sent /\ told' = told
      /\ crashes' = crashes /\ dropped' = dropped
      /\ step' = [step EXCEPT ![w] = "idle"] /\ copy' = [copy EXCEPT ![w] = << >>]
      /\ job' = IF w \in open THEN job ELSE [job EXCEPT ![w] = None]
  BY DEF EndWork, history
<1>2. Grows
  BY <1>1 DEF Grows
<1>3. /\ step'[w] = "idle" /\ copy'[w] = << >> /\ (w \in open => job'[w] = job[w])
      /\ \A v \in Slots \ {w} : step'[v] = step[v] /\ copy'[v] = copy[v] /\ job'[v] = job[v]
      /\ job'[w] = job[w] \/ job'[w] = None
  BY <1>1 DEF TypeOK, JobsInOrder
<1>4. queue' \in Seq(OrderedJobs') /\ job' \in [Slots -> OrderedJobs' \cup {None}]
  BY <1>1, <1>2, SameJobs DEF JobsInOrder
<1>5. copy' = [v \in Slots |-> copy'[v]]
  BY <1>1 DEF JobsInOrder
<1>6. ASSUME NEW v \in Slots PROVE WorkInOrder(v)'
  <2>1. CASE v = w
    BY <2>1, <1>1, <1>3 DEF JobsInOrder, WorkInOrder
  <2>2. CASE v # w
    BY <2>2, <1>1, <1>2, <1>3 DEF JobsInOrder, WorkInOrder, Grows, Copies
  <2> QED
    BY <2>1, <2>2
<1>7. ASSUME NEW m \in Messages, Kept(m) PROVE Kept(m)'
  <2>1. CASE \E id \in Stored : id[1] = m
    BY <2>1, <1>2 DEF Kept, Grows
  <2>2. CASE \E i \in DOMAIN queue : CarriedBy(queue[i], m)
    BY <2>2, <1>1 DEF Kept, CarriedBy
  <2>3. CASE \E v \in Slots : Saving(v, m)
    BY <2>3, <1>3 DEF Kept, Saving, CarriedBy
  <2> QED
    BY <1>7, <2>1, <2>2, <2>3 DEF Kept
<1>8. ASSUME lastMessage' \in [Rooms -> Ids \cup {None}] PROVE TypeOK'
  <2>1. OrderedJobs' \subseteq Jobs
    BY DEF OrderedJobs
  <2>2. job' \in [Slots -> Jobs \cup {None}]
    BY <1>4, <2>1
  <2>3. \A v \in Slots : DOMAIN copy'[v] \subseteq Ids /\ \A id \in DOMAIN copy'[v] : copy'[v][id] \in Lists
    BY <1>3 DEF TypeOK
  <2> QED
    BY <1>1, <1>8, <2>2, <2>3 DEF TypeOK
<1> QED
  BY <1>4, <1>5, <1>6, <1>7, <1>8 DEF JobsInOrder

-----------------------------------------------------------------------------
LEMMA InitKeeps == Init => ChatInv
<1> SUFFICES ASSUME Init PROVE ChatInv
  OBVIOUS
<1>1. Stored = {}
  BY DEF Init, Stored
<1>2. queue = << >> /\ queue \in Seq(Jobs) /\ queue \in Seq(OrderedJobs)
  BY DEF Init
<1>3. TypeOK
  BY <1>2, ChatMessagesAssumption DEF Init, TypeOK
<1>4. JobsInOrder
  BY <1>2 DEF Init, JobsInOrder, WorkInOrder
<1>5. LastMessageOfRoom /\ OnlyAcknowledged /\ NoneLost
  BY <1>1 DEF Init, LastMessageOfRoom, OnlyAcknowledged, NoneLost
<1> QED
  BY <1>3, <1>4, <1>5 DEF ChatInv

(* A job is added at the end of the queue.                                  *)
LEMMA AddKeeps ==
  ASSUME TypeOK, JobsInOrder, NEW j \in OrderedJobs', Add(j), Grows,
         UNCHANGED <<open, job, step, copy, seen>>
  PROVE  /\ JobsInOrder' /\ queue' \in Seq(Jobs) /\ reached' \in 0 .. Len(queue')
         /\ \A m \in Messages : Kept(m) \/ CarriedBy(j, m) => Kept(m)'
<1>1. /\ queue \in Seq(OrderedJobs) /\ queue \in Seq(OrderedJobs') /\ queue' = Append(queue, j)
      /\ job' \in [Slots -> OrderedJobs' \cup {None}] /\ OrderedJobs' \subseteq Jobs
  BY SameJobs DEF JobsInOrder, Add, OrderedJobs
<1>2. queue' \in Seq(OrderedJobs')
  BY <1>1
<1>3. queue' \in Seq(Jobs)
  BY <1>1, <1>2, SeqMonotonic, Zenon
<1>4. /\ \A i \in DOMAIN queue : i \in DOMAIN queue' /\ queue'[i] = queue[i]
      /\ Len(queue) + 1 \in DOMAIN queue' /\ queue'[Len(queue) + 1] = j
  BY <1>1
<1>5. ASSUME NEW w \in Slots PROVE WorkInOrder(w)'
  <2>1. \A id \in DOMAIN copy[w] : id \in Ids /\ DOMAIN copy[w][id] \subseteq Users
    BY ListsOfUsers DEF TypeOK
  <2> QED
    BY <2>1 DEF JobsInOrder, WorkInOrder, Copies, Grows
<1>6. ASSUME NEW m \in Messages, Kept(m) \/ CarriedBy(j, m) PROVE Kept(m)'
  <2>1. CASE \E id \in Stored : id[1] = m
    BY <2>1 DEF Kept, Stored
  <2>2. CASE CarriedBy(j, m) \/ \E i \in DOMAIN queue : CarriedBy(queue[i], m)
    BY <2>2, <1>4 DEF Kept, CarriedBy
  <2>3. CASE \E w \in Slots : Saving(w, m)
    BY <2>3 DEF Kept, Saving, CarriedBy
  <2> QED
    BY <1>6, <2>1, <2>2, <2>3 DEF Kept
<1>7. reached' \in 0 .. Len(queue')
  <2>1. Len(queue) \in Nat /\ Len(queue') = Len(queue) + 1
    BY <1>1
  <2>2. reached \in 0 .. Len(queue) /\ reached' = reached
    BY DEF TypeOK, Add
  <2> QED
    BY <2>1, <2>2
<1> QED
  BY <1>1, <1>2, <1>3, <1>5, <1>6, <1>7 DEF JobsInOrder

LEMMA NewMessageKeeps ==
  ASSUME ChatInv, NEW room \in Rooms, NEW batch \in Batches(Messages \ sent), NewMessage(room, batch)
  PROVE  ChatInv'
<1>1. batch \in Seq(Messages) /\ batch # << >>
  <2>1. PICK S \in (SUBSET (Messages \ sent)) \ {{}} : batch \in SetToSeqs(S)
    BY DEF Batches
  <2>2. IsFiniteSet(S)
    BY FS_Subset, ChatMessagesAssumption
  <2>3. Cardinality(S) \in Nat /\ Cardinality(S) # 0
    BY <2>1, <2>2, FS_CardinalityType, FS_EmptySet
  <2>4. batch \in [1 .. Cardinality(S) -> S]
    BY <2>1 DEF SetToSeqs
  <2> QED
    BY <2>1, <2>3, <2>4
<1>2. /\ Add(SaveJob(batch, room)) /\ sent' = sent \cup ToSet(batch)
      /\ UNCHANGED <<open, job, step, copy, seen>>
      /\ lastMessage' = lastMessage /\ told' = told /\ crashes' = crashes /\ dropped' = dropped
  BY DEF NewMessage, database
<1> DEFINE j == SaveJob(batch, room)
<1>3. j \in Jobs /\ j.kind = "save" /\ j.messages = batch
  BY <1>1 DEF SaveJob, Jobs
<1> HIDE DEF j
<1>4. j \in OrderedJobs'
  BY <1>1, <1>3 DEF OrderedJobs
<1>5. Grows
  BY <1>2 DEF Grows, Stored
<1>6. /\ JobsInOrder' /\ queue' \in Seq(Jobs) /\ reached' \in 0 .. Len(queue')
      /\ \A m \in Messages : Kept(m) \/ CarriedBy(j, m) => Kept(m)'
  BY <1>2, <1>4, <1>5, AddKeeps DEF ChatInv, j
<1>7. ToSet(batch) \subseteq Messages /\ \A m \in ToSet(batch) : CarriedBy(j, m)
  BY <1>1, <1>3, JobFields DEF ToSet, CarriedBy
<1>8. TypeOK'
  BY <1>2, <1>6, <1>7 DEF ChatInv, TypeOK
<1>9. LastMessageOfRoom' /\ OnlyAcknowledged'
  BY <1>2 DEF ChatInv, LastMessageOfRoom, OnlyAcknowledged, Stored
<1>10. NoneLost'
  <2>1. \A m \in sent' \ dropped' : Kept(m)'
    BY <1>2, <1>6, <1>7 DEF ChatInv, TypeOK, NoneLost, Kept
  <2> QED
    BY <2>1 DEF NoneLost, Kept
<1> QED
  BY <1>6, <1>8, <1>9, <1>10 DEF ChatInv

LEMMA UpdateStatusKeeps ==
  ASSUME ChatInv, NEW user \in Users, NEW room \in Rooms, NEW ids \in SUBSET Stored,
         NEW status \in Statuses, UpdateMessageStatus(user, room, ids, status)
  PROVE  ChatInv'
<1>1. /\ Add(StatusJob(ids, room, user, status)) /\ sent' = sent
      /\ told' = [id \in Ids |-> IF id \in ids THEN [told[id] EXCEPT ![user] = @ \cup {status}]
                                                ELSE told[id]]
      /\ UNCHANGED <<open, job, step, copy, seen>>
      /\ lastMessage' = lastMessage /\ crashes' = crashes /\ dropped' = dropped
  BY DEF UpdateMessageStatus, database
<1>2. Stored' = Stored /\ ids \subseteq Ids
  BY <1>1 DEF Stored
<1>3. told \in [Ids -> [Users -> SUBSET Statuses]]
  BY DEF ChatInv, TypeOK
<1>4. Grows /\ told' \in [Ids -> [Users -> SUBSET Statuses]] /\ \A id \in ids : status \in told'[id][user]
  BY <1>1, <1>2, <1>3 DEF Grows
<1> DEFINE j == StatusJob(ids, room, user, status)
<1>5. /\ j \in Jobs /\ j.kind = "status" /\ j.messages = ids /\ j.by = user /\ j.status = status
  BY <1>2 DEF StatusJob, Jobs
<1> HIDE DEF j
<1>6. j \in OrderedJobs'
  BY <1>2, <1>4, <1>5 DEF OrderedJobs
<1>7. /\ JobsInOrder' /\ queue' \in Seq(Jobs) /\ reached' \in 0 .. Len(queue')
      /\ \A m \in Messages : Kept(m) => Kept(m)'
  BY <1>1, <1>4, <1>6, AddKeeps DEF ChatInv, j
<1>8. TypeOK'
  BY <1>1, <1>4, <1>7 DEF ChatInv, TypeOK
<1>9. LastMessageOfRoom'
  BY <1>1, <1>2 DEF ChatInv, LastMessageOfRoom
<1>10. OnlyAcknowledged'
  <2>1. SUFFICES ASSUME NEW id \in Stored, NEW u \in DOMAIN seen[id]
                 PROVE  seen[id][u] \in told'[id][u] \cup {"NOT_DELIVERED"}
    BY <1>1, <1>2 DEF OnlyAcknowledged
  <2>2. id \in Ids /\ u \in Users
    BY ListsOfUsers DEF Stored, ChatInv, TypeOK
  <2> QED
    BY <1>4, <2>2 DEF Grows, ChatInv, OnlyAcknowledged
<1>11. NoneLost'
  <2>1. \A m \in sent' \ dropped' : Kept(m)'
    BY <1>1, <1>7 DEF ChatInv, TypeOK, NoneLost, Kept
  <2> QED
    BY <2>1 DEF NoneLost, Kept
<1> QED
  BY <1>7, <1>8, <1>9, <1>10, <1>11 DEF ChatInv

(* An add reaches Redis.                                                    *)
LEMMA ReachKeeps ==
  ASSUME ChatInv, ReachRedis
  PROVE  ChatInv'
<1>1. /\ reached < Len(queue) /\ reached' = reached + 1
      /\ queue' = queue /\ open' = open /\ job' = job /\ step' = step /\ copy' = copy
      /\ seen' = seen /\ lastMessage' = lastMessage
      /\ sent' = sent /\ told' = told /\ crashes' = crashes /\ dropped' = dropped
  BY DEF ReachRedis, database, history
<1>2. reached' \in 0 .. Len(queue')
  <2>1. Len(queue) \in Nat /\ reached \in 0 .. Len(queue)
    BY DEF ChatInv, TypeOK
  <2> QED
    BY <1>1, <2>1
<1>3. JobsInOrder' /\ LastMessageOfRoom' /\ OnlyAcknowledged' /\ NoneLost'
  BY <1>1 DEF ChatInv, JobsInOrder, OrderedJobs, WorkInOrder, Copies, Stored, LastMessageOfRoom,
              OnlyAcknowledged, NoneLost, Saving, CarriedBy
<1>4. TypeOK'
  BY <1>1, <1>2 DEF ChatInv, TypeOK
<1> QED
  BY <1>3, <1>4 DEF ChatInv

-----------------------------------------------------------------------------
LEMMA StartKeeps ==
  ASSUME ChatInv, NEW w \in Slots, StartJob(w)
  PROVE  ChatInv'
<1>0. queue # << >> /\ Len(queue) \in Nat /\ reached \in 1 .. Len(queue)
  <2>1. queue \in Seq(Jobs) /\ Len(queue) \in Nat /\ reached \in 0 .. Len(queue) /\ reached > 0
    BY DEF ChatInv, TypeOK, StartJob
  <2> QED
    BY <2>1
<1>1. /\ job[w] = None /\ queue # << >> /\ open' = open \cup {w}
      /\ job' = [job EXCEPT ![w] = Head(queue)] /\ queue' = Tail(queue) /\ reached' = reached - 1
      /\ step' = [step EXCEPT ![w] = IF Head(queue).kind = "save" THEN "save" ELSE "find"]
      /\ copy' = copy /\ seen' = seen /\ lastMessage' = lastMessage
      /\ sent' = sent /\ told' = told /\ crashes' = crashes /\ dropped' = dropped
  BY <1>0 DEF StartJob, database, history
<1>2. /\ queue \in Seq(OrderedJobs) /\ queue \in Seq(Jobs)
      /\ job \in [Slots -> OrderedJobs \cup {None}] /\ \A v \in Slots : WorkInOrder(v)
  BY DEF ChatInv, JobsInOrder, TypeOK
<1>3. Stored' = Stored /\ OrderedJobs' = OrderedJobs
  BY <1>1 DEF Stored, OrderedJobs
<1>4. /\ Head(queue) \in OrderedJobs /\ Tail(queue) \in Seq(OrderedJobs) /\ Tail(queue) \in Seq(Jobs)
      /\ \A i \in DOMAIN queue : i = 1 \/ (i - 1 \in DOMAIN Tail(queue) /\ Tail(queue)[i - 1] = queue[i])
      /\ Head(queue) = queue[1]
  BY <1>1, <1>2
<1>5. Head(queue) \in Jobs /\ Head(queue) # None /\ Head(queue).kind \in {"save", "status"}
  BY <1>4, JobFields DEF OrderedJobs
<1>6. /\ job'[w] = Head(queue) /\ step'[w] = IF Head(queue).kind = "save" THEN "save" ELSE "find"
      /\ \A v \in Slots \ {w} : job'[v] = job[v] /\ step'[v] = step[v]
  BY <1>1, <1>2 DEF ChatInv, TypeOK
<1>7. JobsInOrder'
  <2>1. queue' \in Seq(OrderedJobs') /\ job' \in [Slots -> OrderedJobs' \cup {None}]
    BY <1>1, <1>2, <1>3, <1>4
  <2>2. ASSUME NEW v \in Slots PROVE WorkInOrder(v)'
    <3>1. CASE v = w
      BY <3>1, <1>1, <1>5, <1>6 DEF WorkInOrder
    <3>2. CASE v # w
      BY <3>2, <1>1, <1>2, <1>3, <1>6 DEF WorkInOrder, Copies
    <3> QED
      BY <3>1, <3>2
  <2> QED
    BY <1>1, <2>1, <2>2 DEF ChatInv, JobsInOrder
<1>8. TypeOK'
  <2>1. Len(Tail(queue)) = Len(queue) - 1
    BY <1>1, <1>2
  <2>2. reached' \in 0 .. Len(queue')
    BY <1>0, <1>1, <2>1
  <2> QED
    BY <1>1, <1>2, <1>4, <1>5, <2>2 DEF ChatInv, TypeOK
<1>9. LastMessageOfRoom' /\ OnlyAcknowledged'
  BY <1>1, <1>3 DEF ChatInv, LastMessageOfRoom, OnlyAcknowledged
<1>10. NoneLost'
  <2>1. ASSUME NEW m \in sent \ dropped PROVE Kept(m)'
    <3>1. Kept(m)
      BY DEF ChatInv, NoneLost, Kept
    <3>2. CASE \E id \in Stored : id[1] = m
      BY <3>2, <1>3 DEF Kept
    <3>3. ASSUME NEW i \in DOMAIN queue, CarriedBy(queue[i], m) PROVE Kept(m)'
      <4>1. CASE i = 1
        <5>1. CarriedBy(job'[w], m) /\ step'[w] = "save"
          BY <3>3, <4>1, <1>4, <1>6 DEF CarriedBy
        <5> QED
          BY <5>1 DEF Kept, Saving, CarriedBy
      <4>2. CASE i # 1
        <5>1. i - 1 \in DOMAIN queue' /\ queue'[i - 1] = queue[i]
          BY <4>2, <1>1, <1>4
        <5> QED
          BY <3>3, <5>1 DEF Kept, CarriedBy
      <4> QED
        BY <4>1, <4>2
    <3>4. ASSUME NEW v \in Slots, Saving(v, m) PROVE Kept(m)'
      <4>1. v # w
        BY <3>4, <1>1 DEF Saving, CarriedBy
      <4> QED
        BY <3>4, <4>1, <1>6 DEF Kept, Saving, CarriedBy
    <3> QED
      BY <3>1, <3>2, <3>3, <3>4 DEF Kept
  <2> QED
    BY <2>1, <1>1 DEF NoneLost, Kept
<1> QED
  BY <1>7, <1>8, <1>9, <1>10 DEF ChatInv
LEMMA CompleteKeeps ==
  ASSUME ChatInv, NEW w \in Slots, CompleteJob(w)
  PROVE  ChatInv'
<1>1. /\ w \in open /\ open' = open \ {w} /\ queue' = queue /\ reached' = reached
      /\ step' = step /\ copy' = copy
      /\ job' = IF step[w] = "idle" THEN [job EXCEPT ![w] = None] ELSE job
      /\ seen' = seen /\ lastMessage' = lastMessage
      /\ sent' = sent /\ told' = told /\ crashes' = crashes /\ dropped' = dropped
  BY DEF CompleteJob, database, history
<1>2. job \in [Slots -> OrderedJobs \cup {None}] /\ \A v \in Slots : WorkInOrder(v)
  BY DEF ChatInv, JobsInOrder
<1>3. Stored' = Stored /\ OrderedJobs' = OrderedJobs /\ OrderedJobs \subseteq Jobs
  BY <1>1 DEF Stored, OrderedJobs
<1>4. /\ job' \in [Slots -> OrderedJobs' \cup {None}] /\ job' \in [Slots -> Jobs \cup {None}]
      /\ \A v \in Slots : step[v] # "idle" => job'[v] = job[v]
      /\ \A v \in Slots : v \in open' => job'[v] = job[v]
  BY <1>1, <1>2, <1>3
<1>5. ASSUME NEW v \in Slots PROVE WorkInOrder(v)'
  BY <1>1, <1>2, <1>3, <1>4 DEF WorkInOrder, Copies
<1>6. JobsInOrder'
  BY <1>1, <1>3, <1>4, <1>5 DEF ChatInv, JobsInOrder
<1>7. TypeOK'
  BY <1>1, <1>4 DEF ChatInv, TypeOK
<1>8. LastMessageOfRoom' /\ OnlyAcknowledged'
  BY <1>1, <1>3 DEF ChatInv, LastMessageOfRoom, OnlyAcknowledged
<1>9. \A v \in Slots, m \in Messages : Saving(v, m) => Saving(v, m)'
  BY <1>1, <1>4 DEF Saving, CarriedBy
<1>10. NoneLost'
  BY <1>1, <1>3, <1>9 DEF ChatInv, TypeOK, NoneLost, CarriedBy
<1> QED
  BY <1>6, <1>7, <1>8, <1>10 DEF ChatInv

LEMMA SaveKeeps ==
  ASSUME ChatInv, NEW w \in Slots, SaveMessages(w)
  PROVE  ChatInv'
<1> DEFINE fresh == [u \in Participants[job[w].room] |-> "NOT_DELIVERED"]
<1>1. /\ step[w] = "save" /\ step' = [step EXCEPT ![w] = "lastMessage"]
      /\ seen' = [id \in Ids |-> IF id \in Copies(job[w]) THEN fresh ELSE seen[id]]
      /\ queue' = queue /\ reached' = reached /\ open' = open /\ job' = job /\ copy' = copy
      /\ lastMessage' = lastMessage
      /\ sent' = sent /\ told' = told /\ crashes' = crashes /\ dropped' = dropped
  BY DEF SaveMessages, history
<1>2. /\ job \in [Slots -> OrderedJobs \cup {None}] /\ \A v \in Slots : WorkInOrder(v)
      /\ seen \in [Ids -> Lists \cup {None}] /\ step \in [Slots -> {"idle", "save", "lastMessage", "find", "update"}]
  BY DEF ChatInv, JobsInOrder, TypeOK
<1>3. job[w] \in OrderedJobs /\ job[w] \in Jobs /\ job[w].kind = "save"
  BY <1>1, <1>2 DEF WorkInOrder, OrderedJobs
<1>4. Copies(job[w]) \subseteq Ids /\ Copies(job[w]) = {<<m, job[w].run>> : m \in ToSet(job[w].messages)}
  BY <1>3, CopiesAreIds
<1>5. fresh \in Lists /\ fresh # None
  <2>1. job[w].room \in Rooms
    BY <1>3, JobFields
  <2>2. Participants[job[w].room] \in SUBSET Users
    BY <2>1, ChatMessagesAssumption
  <2>3. fresh \in Lists
    BY <2>2 DEF Lists
  <2> QED
    BY <2>3, ChatMessagesAssumption
<1>6. \A id \in Copies(job[w]) : \A u \in DOMAIN seen'[id] : seen'[id][u] = "NOT_DELIVERED"
  BY <1>1, <1>4
<1> HIDE DEF fresh
<1>7. seen' \in [Ids -> Lists \cup {None}] /\ Stored \subseteq Stored' /\ Copies(job[w]) \subseteq Stored'
  BY <1>1, <1>2, <1>4, <1>5 DEF Stored
<1>8. Grows
  BY <1>1, <1>7 DEF Grows
<1>9. step'[w] = "lastMessage" /\ \A v \in Slots \ {w} : step'[v] = step[v]
  BY <1>1, <1>2
<1>10. JobsInOrder'
  <2>1. queue' \in Seq(OrderedJobs') /\ job' \in [Slots -> OrderedJobs' \cup {None}]
    BY <1>1, <1>8, SameJobs DEF ChatInv, JobsInOrder
  <2>2. ASSUME NEW v \in Slots PROVE WorkInOrder(v)'
    <3>1. CASE v = w
      BY <3>1, <1>1, <1>2, <1>3, <1>7, <1>9 DEF WorkInOrder, Copies
    <3>2. CASE v # w
      BY <3>2, <1>1, <1>2, <1>7, <1>9 DEF WorkInOrder, Copies
    <3> QED
      BY <3>1, <3>2
  <2> QED
    BY <1>1, <2>1, <2>2 DEF ChatInv, JobsInOrder
<1>11. TypeOK'
  BY <1>1, <1>7 DEF ChatInv, TypeOK
<1>12. LastMessageOfRoom'
  BY <1>1, <1>7 DEF ChatInv, LastMessageOfRoom
<1>13. OnlyAcknowledged'
  <2>1. SUFFICES ASSUME NEW id \in Stored', NEW u \in DOMAIN seen'[id]
                 PROVE  seen'[id][u] \in told[id][u] \cup {"NOT_DELIVERED"}
    BY <1>1 DEF OnlyAcknowledged
  <2>2. CASE id \in Copies(job[w])
    BY <2>2, <1>6
  <2>3. CASE id \notin Copies(job[w])
    <3>1. id \in Ids /\ seen'[id] = seen[id] /\ id \in Stored
      BY <2>1, <2>3, <1>1 DEF Stored
    <3> QED
      BY <3>1 DEF ChatInv, OnlyAcknowledged
  <2> QED
    BY <2>2, <2>3
<1>14. NoneLost'
  <2>1. ASSUME NEW m \in sent \ dropped PROVE Kept(m)'
    <3>1. Kept(m)
      BY DEF ChatInv, NoneLost, Kept
    <3>2. CASE \E id \in Stored : id[1] = m
      BY <3>2, <1>7 DEF Kept
    <3>3. CASE \E i \in DOMAIN queue : CarriedBy(queue[i], m)
      BY <3>3, <1>1 DEF Kept, CarriedBy
    <3>4. ASSUME NEW v \in Slots, Saving(v, m) PROVE Kept(m)'
      <4>1. CASE v = w
        <5>1. <<m, job[w].run>> \in Copies(job[w])
          BY <3>4, <4>1, <1>4 DEF Saving, CarriedBy
        <5> QED
          BY <5>1, <1>7 DEF Kept
      <4>2. CASE v # w
        BY <3>4, <4>2, <1>1, <1>9 DEF Kept, Saving, CarriedBy
      <4> QED
        BY <4>1, <4>2
    <3> QED
      BY <3>1, <3>2, <3>3, <3>4 DEF Kept
  <2> QED
    BY <2>1, <1>1 DEF NoneLost, Kept
<1> QED
  BY <1>10, <1>11, <1>12, <1>13, <1>14 DEF ChatInv

LEMMA UpdateChatroomKeeps ==
  ASSUME ChatInv, NEW w \in Slots, UpdateChatroomOnNewMessage(w)
  PROVE  ChatInv'
<1> DEFINE latest == LatestMessage(job[w])
           home == RoomOf[latest[1]]
<1>1. /\ step[w] = "lastMessage" /\ EndWork(w) /\ seen' = seen
      /\ lastMessage' = [lastMessage EXCEPT ![home] = latest]
  BY DEF UpdateChatroomOnNewMessage
<1>2. sent' = sent /\ told' = told /\ dropped' = dropped
  BY <1>1 DEF EndWork, history
<1>3. Stored' = Stored /\ seen' \in [Ids -> Lists \cup {None}]
  BY <1>1 DEF Stored, ChatInv, TypeOK
<1>4. latest \in Stored /\ latest \in Ids
  <2>1. /\ job[w] \in OrderedJobs /\ job[w] \in Jobs /\ job[w].kind = "save"
        /\ Copies(job[w]) \subseteq Stored /\ job[w].messages # << >>
    BY <1>1 DEF ChatInv, JobsInOrder, WorkInOrder, OrderedJobs
  <2> QED
    BY <2>1, CopiesAreIds DEF Stored
<1>5. home \in Rooms
  BY <1>4, ChatMessagesAssumption DEF Ids
<1> HIDE DEF latest
<1>6. lastMessage' \in [Rooms -> Ids \cup {None}]
  BY <1>1, <1>4 DEF ChatInv, TypeOK
<1>7. JobsInOrder' /\ TypeOK' /\ \A m \in Messages : Kept(m) => Kept(m)'
  BY <1>1, <1>3, <1>6, EndOfWork DEF ChatInv
<1>8. LastMessageOfRoom'
  <2>1. SUFFICES ASSUME NEW r \in Rooms, lastMessage'[r] # None
                 PROVE  lastMessage'[r] \in Stored /\ RoomOf[lastMessage'[r][1]] = r
    BY <1>3 DEF LastMessageOfRoom
  <2>2. CASE r = home
    BY <2>2, <1>1, <1>4, <1>5 DEF ChatInv, TypeOK
  <2>3. CASE r # home
    BY <2>1, <2>3, <1>1 DEF ChatInv, TypeOK, LastMessageOfRoom
  <2> QED
    BY <2>2, <2>3
<1>9. OnlyAcknowledged'
  BY <1>1, <1>2, <1>3 DEF ChatInv, OnlyAcknowledged
<1>10. NoneLost'
  <2>1. \A m \in sent' \ dropped' : Kept(m)'
    BY <1>2, <1>7 DEF ChatInv, TypeOK, NoneLost, Kept
  <2> QED
    BY <2>1 DEF NoneLost, Kept
<1> QED
  BY <1>7, <1>8, <1>9, <1>10 DEF ChatInv

(* Work on statuses that ends, with or without having written.              *)
LEMMA StatusWorkEnds ==
  ASSUME ChatInv, NEW w \in Slots, EndWork(w), step[w] \in {"find", "update"}, UNCHANGED lastMessage,
         seen' \in [Ids -> Lists \cup {None}], Stored' = Stored, OnlyAcknowledged'
  PROVE  ChatInv'
<1>1. sent' = sent /\ told' = told /\ dropped' = dropped
  BY DEF EndWork, history
<1>2. JobsInOrder' /\ TypeOK' /\ \A m \in Messages : Kept(m) => Kept(m)'
  BY EndOfWork DEF ChatInv, TypeOK
<1>3. LastMessageOfRoom'
  BY DEF ChatInv, LastMessageOfRoom
<1>4. NoneLost'
  <2>1. \A m \in sent' \ dropped' : Kept(m)'
    BY <1>1, <1>2 DEF ChatInv, TypeOK, NoneLost, Kept
  <2> QED
    BY <2>1 DEF NoneLost, Kept
<1> QED
  BY <1>2, <1>3, <1>4 DEF ChatInv

LEMMA GiveUpKeeps ==
  ASSUME ChatInv, NEW w \in Slots, EndWork(w), step[w] \in {"find", "update"}, UNCHANGED database
  PROVE  ChatInv'
<1>1. seen' = seen /\ lastMessage' = lastMessage /\ told' = told
  BY DEF database, EndWork, history
<1>2. Stored' = Stored /\ seen' \in [Ids -> Lists \cup {None}]
  BY <1>1 DEF Stored, ChatInv, TypeOK
<1>3. OnlyAcknowledged'
  BY <1>1, <1>2 DEF ChatInv, OnlyAcknowledged
<1> QED
  BY <1>1, <1>2, <1>3, StatusWorkEnds
LEMMA ReadKeeps ==
  ASSUME ChatInv, NEW w \in Slots, ReadStatuses(w)
  PROVE  ChatInv'
<1> DEFINE read == [id \in job[w].messages |-> WithStatus(seen[id], job[w].by, job[w].status)]
<1>1. CASE EndWork(w)
  BY <1>1, GiveUpKeeps DEF ReadStatuses
<1>2. CASE /\ copy' = [copy EXCEPT ![w] = read] /\ step' = [step EXCEPT ![w] = "update"]
           /\ UNCHANGED <<queue, reached, open, job, history>>
  <2>1. /\ step[w] = "find" /\ queue' = queue /\ reached' = reached /\ open' = open /\ job' = job
        /\ seen' = seen /\ lastMessage' = lastMessage
        /\ sent' = sent /\ told' = told /\ crashes' = crashes /\ dropped' = dropped
    BY <1>2 DEF ReadStatuses, database, history
  <2>2. /\ job[w] \in OrderedJobs /\ job[w] \in Jobs /\ job[w].kind = "status"
    BY <2>1 DEF ChatInv, JobsInOrder, WorkInOrder, OrderedJobs
  <2>3. /\ job[w].messages \subseteq Stored /\ job[w].by \in Users /\ job[w].status \in Statuses
        /\ \A id \in job[w].messages : job[w].status \in told[id][job[w].by]
    BY <2>2, JobFields DEF OrderedJobs
  <2>4. ASSUME NEW id \in job[w].messages
        PROVE  /\ id \in Stored /\ id \in Ids /\ read[id] \in Lists
               /\ \A u \in DOMAIN read[id] : read[id][u] \in told[id][u] \cup {"NOT_DELIVERED"}
    <3>1. id \in Stored /\ id \in Ids /\ seen[id] \in Lists
      BY <2>3 DEF Stored, ChatInv, TypeOK
    <3>2. read[id] = [u \in DOMAIN seen[id] |-> IF u = job[w].by THEN job[w].status ELSE seen[id][u]]
      BY DEF WithStatus
    <3>3. /\ DOMAIN seen[id] \subseteq Users
          /\ \A u \in DOMAIN seen[id] : seen[id][u] \in Statuses \cup {"NOT_DELIVERED"}
      BY <3>1, ListsOfUsers
    <3>4. read[id] \in [DOMAIN seen[id] -> Statuses \cup {"NOT_DELIVERED"}]
      BY <2>3, <3>2, <3>3
    <3>5. read[id] \in Lists
      BY <3>3, <3>4 DEF Lists
    <3>6. \A u \in DOMAIN seen[id] : seen[id][u] \in told[id][u] \cup {"NOT_DELIVERED"}
      BY <3>1 DEF ChatInv, OnlyAcknowledged
    <3> QED
      BY <2>3, <3>1, <3>2, <3>5, <3>6
  <2>5. DOMAIN read = job[w].messages
    OBVIOUS
  <2> HIDE DEF read
  <2>6. /\ copy'[w] = read /\ step'[w] = "update"
        /\ \A v \in Slots \ {w} : copy'[v] = copy[v] /\ step'[v] = step[v]
        /\ copy' = [v \in Slots |-> copy'[v]]
    BY <1>2 DEF ChatInv, JobsInOrder, TypeOK
  <2>7. Stored' = Stored /\ OrderedJobs' = OrderedJobs
    BY <2>1 DEF Stored, OrderedJobs
  <2>8. JobsInOrder'
    <3>1. ASSUME NEW v \in Slots PROVE WorkInOrder(v)'
      <4>1. CASE v = w
        <5>1. \A id \in DOMAIN copy'[w] :
                id \in Stored' /\ \A u \in DOMAIN copy'[w][id] : copy'[w][id][u] \in told'[id][u] \cup {"NOT_DELIVERED"}
          BY <2>1, <2>4, <2>5, <2>6, <2>7
        <5>2. job'[w] # None /\ job'[w].kind = "status"
          BY <2>1, <2>2, JobFields
        <5> QED
          BY <4>1, <2>6, <5>1, <5>2 DEF WorkInOrder
      <4>2. CASE v # w
        BY <4>2, <2>1, <2>6, <2>7 DEF ChatInv, JobsInOrder, WorkInOrder, Copies
      <4> QED
        BY <4>1, <4>2
    <3> QED
      BY <2>1, <2>6, <2>7, <3>1 DEF ChatInv, JobsInOrder
  <2>9. TypeOK'
    <3>1. \A v \in Slots : DOMAIN copy'[v] \subseteq Ids /\ \A id \in DOMAIN copy'[v] : copy'[v][id] \in Lists
      BY <2>4, <2>5, <2>6 DEF ChatInv, TypeOK
    <3> QED
      BY <1>2, <2>1, <3>1 DEF ChatInv, TypeOK
  <2>10. LastMessageOfRoom' /\ OnlyAcknowledged'
    BY <2>1, <2>7 DEF ChatInv, LastMessageOfRoom, OnlyAcknowledged
  <2>11. \A v \in Slots, m \in Messages : Saving(v, m) => Saving(v, m)'
    BY <2>1, <2>6 DEF Saving, CarriedBy
  <2>12. NoneLost'
    BY <2>1, <2>7, <2>11 DEF ChatInv, TypeOK, NoneLost, CarriedBy
  <2> QED
    BY <2>8, <2>9, <2>10, <2>12 DEF ChatInv
<1> QED
  BY <1>1, <1>2 DEF ReadStatuses

LEMMA WriteKeeps ==
  ASSUME ChatInv, NEW w \in Slots, NEW id \in Ids, WriteStatuses(w, id)
  PROVE  ChatInv'
<1> DEFINE rest == DOMAIN copy[w] \ {id}
<1>1. /\ step[w] = "update" /\ id \in DOMAIN copy[w] /\ seen' = [seen EXCEPT ![id] = copy[w][id]]
      /\ lastMessage' = lastMessage /\ told' = told
  BY DEF WriteStatuses, EndWork, history
<1>2. /\ copy[w][id] \in Lists /\ copy[w][id] # None /\ id \in Stored /\ id \in Ids
      /\ \A u \in DOMAIN copy[w][id] : copy[w][id][u] \in told[id][u] \cup {"NOT_DELIVERED"}
  BY <1>1, ListsOfUsers DEF ChatInv, TypeOK, JobsInOrder, WorkInOrder
<1>3. /\ seen' \in [Ids -> Lists \cup {None}] /\ Stored' = Stored
      /\ seen'[id] = copy[w][id] /\ \A i \in Ids \ {id} : seen'[i] = seen[i]
  BY <1>1, <1>2 DEF ChatInv, TypeOK, Stored
<1>4. OnlyAcknowledged'
  <2>1. SUFFICES ASSUME NEW i \in Stored, NEW u \in DOMAIN seen'[i]
                 PROVE  seen'[i][u] \in told[i][u] \cup {"NOT_DELIVERED"}
    BY <1>1, <1>3 DEF OnlyAcknowledged
  <2>2. i \in Ids
    BY DEF Stored
  <2> QED
    BY <2>2, <1>2, <1>3 DEF ChatInv, OnlyAcknowledged
<1>5. CASE EndWork(w)
  BY <1>1, <1>3, <1>4, <1>5, StatusWorkEnds
<1>6. CASE /\ copy' = [copy EXCEPT ![w] = [i \in rest |-> copy[w][i]]]
           /\ UNCHANGED <<queue, reached, open, job, step, history>>
  <2>1. /\ queue' = queue /\ reached' = reached /\ open' = open /\ job' = job /\ step' = step
        /\ sent' = sent /\ told' = told /\ crashes' = crashes /\ dropped' = dropped
    BY <1>6 DEF history
  <2>2. /\ copy'[w] = [i \in rest |-> copy[w][i]] /\ copy' = [v \in Slots |-> copy'[v]]
        /\ \A v \in Slots \ {w} : copy'[v] = copy[v]
    BY <1>6 DEF ChatInv, JobsInOrder
  <2>3. ASSUME NEW v \in Slots
        PROVE  DOMAIN copy'[v] \subseteq DOMAIN copy[v] /\ \A i \in DOMAIN copy'[v] : copy'[v][i] = copy[v][i]
    BY <2>2
  <2>4. OrderedJobs' = OrderedJobs
    BY <1>3, <2>1 DEF OrderedJobs
  <2>5. ASSUME NEW v \in Slots PROVE WorkInOrder(v)'
    BY <1>3, <2>1, <2>3 DEF ChatInv, JobsInOrder, WorkInOrder, Copies
  <2>6. JobsInOrder'
    BY <2>1, <2>2, <2>4, <2>5 DEF ChatInv, JobsInOrder
  <2>7. TypeOK'
    <3>1. \A v \in Slots : DOMAIN copy'[v] \subseteq Ids /\ \A i \in DOMAIN copy'[v] : copy'[v][i] \in Lists
      BY <2>3 DEF ChatInv, TypeOK
    <3> QED
      BY <1>1, <1>3, <2>1, <3>1 DEF ChatInv, TypeOK
  <2>8. LastMessageOfRoom' /\ NoneLost'
    BY <1>1, <1>3, <2>1 DEF ChatInv, LastMessageOfRoom, NoneLost, Saving, CarriedBy
  <2> QED
    BY <1>4, <2>6, <2>7, <2>8 DEF ChatInv
<1> QED
  BY <1>5, <1>6 DEF WriteStatuses

-----------------------------------------------------------------------------
(* A sequence of the elements of a finite set has all of them.              *)
LEMMA SeqsHaveAll ==
  ASSUME NEW S, IsFiniteSet(S), NEW s \in SetToSeqs(S)
  PROVE  s \in Seq(S) /\ \A x \in S : \E i \in DOMAIN s : s[i] = x
<1> DEFINE n == Cardinality(S)
<1>1. n \in Nat
  BY FS_CardinalityType
<1>2. s \in [1 .. n -> S] /\ \A i, j \in 1 .. n : i # j => s[i] # s[j]
  BY DEF SetToSeqs
<1>3. s \in Injection(1 .. n, S)
  BY <1>2 DEF Injection, IsInjective
<1>4. Cardinality(1 .. n) = n
  BY <1>1, FS_Interval
<1>5. s \in Surjection(1 .. n, S)
  BY <1>3, <1>4, FS_Injection
<1> QED
  BY <1>1, <1>2, <1>5 DEF Surjection

(* Open jobs are given out again; of the others nothing is known any more.  *)
LEMMA CrashKeeps ==
  ASSUME ChatInv, Crash
  PROVE  ChatInv'
<1> DEFINE found == {v \in Slots : GivenOutAgain(v)}
           Again(v) == [job[v] EXCEPT !.run = 2]
           jobs == {Again(v) : v \in found}
<1>1. /\ open' = {} /\ job' = [w \in Slots |-> None] /\ step' = [w \in Slots |-> "idle"]
      /\ copy' = [w \in Slots |-> << >>] /\ crashes' = crashes + 1 /\ crashes < MaxCrashes
      /\ dropped' = dropped \cup {m \in Messages : OnItsWay(m) \/
                                    \E w \in Slots : Saving(w, m) /\ ~GivenOutAgain(w)}
      /\ seen' = seen /\ lastMessage' = lastMessage /\ sent' = sent /\ told' = told
      /\ reached' = Len(queue')
  BY DEF Crash, database
<1>2. PICK again \in SetToSeqs(jobs) : queue' = again \o SubSeq(queue, 1, reached)
  BY DEF Crash
<1> DEFINE left == SubSeq(queue, 1, reached)
<1>3. ASSUME NEW v \in found
      PROVE  /\ job[v] \in Jobs /\ Again(v) \in OrderedJobs
             /\ Again(v).kind = job[v].kind /\ Again(v).messages = job[v].messages
  <2>1. job[v] \in OrderedJobs /\ job[v] \in Jobs
    BY DEF GivenOutAgain, ChatInv, JobsInOrder, WorkInOrder, OrderedJobs
  <2>2. /\ Again(v) \in Jobs /\ Again(v).kind = job[v].kind /\ Again(v).messages = job[v].messages
        /\ job[v].kind = "status" => Again(v).by = job[v].by /\ Again(v).status = job[v].status
    BY <2>1 DEF Jobs
  <2> QED
    BY <2>1, <2>2 DEF OrderedJobs
<1>4. IsFiniteSet(jobs)
  <2>1. found \in SUBSET Slots /\ IsFiniteSet(found)
    BY FS_Subset, ChatMessagesAssumption
  <2>2. [v \in found |-> Again(v)] \in Surjection(found, jobs)
    BY DEF Surjection
  <2> QED
    BY <2>1, <2>2, FS_Surjection
<1>5. again \in Seq(jobs) /\ \A j \in jobs : \E i \in DOMAIN again : again[i] = j
  BY <1>4, SeqsHaveAll
<1>6. jobs \subseteq OrderedJobs /\ OrderedJobs \subseteq Jobs
  BY <1>3 DEF OrderedJobs
<1>7. /\ again \in Seq(OrderedJobs) /\ left \in Seq(OrderedJobs) /\ Len(left) = reached
      /\ \A i \in DOMAIN queue : i <= reached => i \in DOMAIN left /\ left[i] = queue[i]
  <2>1. again \in Seq(OrderedJobs)
    BY <1>5, <1>6, SeqMonotonic, Zenon
  <2>2. queue \in Seq(OrderedJobs) /\ Len(queue) \in Nat /\ reached \in 0 .. Len(queue)
    BY DEF ChatInv, TypeOK, JobsInOrder
  <2> QED
    BY <2>1, <2>2
<1> HIDE DEF found, jobs, Again, left
<1>8. /\ queue' \in Seq(OrderedJobs)
      /\ \A i \in DOMAIN again : i \in DOMAIN queue' /\ queue'[i] = again[i]
      /\ \A i \in DOMAIN left : Len(again) + i \in DOMAIN queue' /\ queue'[Len(again) + i] = left[i]
  BY <1>2, <1>7 DEF left
<1>9. queue' \in Seq(Jobs)
  BY <1>6, <1>8, SeqMonotonic, Zenon
<1>10. Stored' = Stored /\ OrderedJobs' = OrderedJobs
  BY <1>1 DEF Stored, OrderedJobs
<1>11. JobsInOrder'
  <2>1. \A w \in Slots : WorkInOrder(w)'
    BY <1>1 DEF WorkInOrder
  <2>2. job' \in [Slots -> OrderedJobs' \cup {None}] /\ copy' = [w \in Slots |-> copy'[w]]
    BY <1>1
  <2> QED
    BY <1>8, <1>10, <2>1, <2>2 DEF JobsInOrder
<1>12. TypeOK'
  <2>1. crashes' \in 0 .. MaxCrashes
    BY <1>1, ChatMessagesAssumption DEF ChatInv, TypeOK
  <2>2. reached' \in 0 .. Len(queue')
    BY <1>1, <1>9
  <2> QED
    BY <1>1, <1>9, <2>1, <2>2 DEF ChatInv, TypeOK
<1>13. LastMessageOfRoom' /\ OnlyAcknowledged'
  BY <1>1, <1>10 DEF ChatInv, LastMessageOfRoom, OnlyAcknowledged
<1>14. NoneLost'
  <2>1. ASSUME NEW m \in sent \ dropped, m \notin dropped' PROVE Kept(m)'
    <3>0. m \in Messages
      BY DEF ChatInv, TypeOK
    <3>1. Kept(m)
      BY DEF ChatInv, NoneLost, Kept
    <3>2. CASE \E id \in Stored : id[1] = m
      BY <3>2, <1>10 DEF Kept
    <3>3. ASSUME NEW i \in DOMAIN queue, CarriedBy(queue[i], m) PROVE Kept(m)'
      <4>0. i <= reached
        <5>1. i \in Nat /\ reached \in Nat
          BY DEF ChatInv, TypeOK
        <5> QED
          BY <2>1, <3>0, <3>3, <5>1, <1>1 DEF OnItsWay
      <4>1. Len(again) + i \in DOMAIN queue' /\ queue'[Len(again) + i] = queue[i]
        BY <1>7, <1>8, <4>0
      <4> QED
        BY <3>3, <4>1 DEF Kept, CarriedBy
    <3>4. ASSUME NEW v \in Slots, Saving(v, m) PROVE Kept(m)'
      <4>1. v \in found
        BY <2>1, <3>0, <3>4, <1>1 DEF found
      <4>2. Again(v) \in OrderedJobs /\ CarriedBy(Again(v), m)
        <5>1. /\ Again(v) \in OrderedJobs
              /\ Again(v).kind = job[v].kind /\ Again(v).messages = job[v].messages
          BY <4>1, <1>3
        <5>2. Again(v) # None
          BY <5>1, <1>6, JobFields
        <5> QED
          BY <3>4, <5>1, <5>2 DEF Saving, CarriedBy
      <4>3. PICK i \in DOMAIN again : again[i] = Again(v)
        BY <4>1, <1>5 DEF jobs
      <4>4. i \in DOMAIN queue' /\ CarriedBy(queue'[i], m)
        BY <4>2, <4>3, <1>8 DEF CarriedBy
      <4> QED
        BY <4>4 DEF Kept, CarriedBy
    <3> QED
      BY <3>1, <3>2, <3>3, <3>4 DEF Kept
  <2> QED
    BY <2>1, <1>1 DEF NoneLost, Kept
<1> QED
  BY <1>11, <1>12, <1>13, <1>14 DEF ChatInv

-----------------------------------------------------------------------------
LEMMA NextKeeps == ChatInv /\ [Next]_vars => ChatInv'
<1> SUFFICES ASSUME ChatInv, [Next]_vars PROVE ChatInv'
  OBVIOUS
<1>1. ASSUME NEW room \in Rooms, NEW batch \in Batches(Messages \ sent), NewMessage(room, batch)
      PROVE  ChatInv'
  BY <1>1, NewMessageKeeps
<1>2. ASSUME NEW room \in Rooms, NEW user \in Users, NEW ids \in (SUBSET Stored) \ {{}},
             NEW status \in Statuses, UpdateMessageStatus(user, room, ids, status)
      PROVE  ChatInv'
  BY <1>2, UpdateStatusKeeps
<1>3. ASSUME NEW w \in Slots, Work(w) PROVE ChatInv'
  BY <1>3, StartKeeps, CompleteKeeps, SaveKeeps, UpdateChatroomKeeps, ReadKeeps, WriteKeeps DEF Work
<1>4. ASSUME NEW w \in Slots, StatusQueryFails(w) PROVE ChatInv'
  BY <1>4, GiveUpKeeps DEF StatusQueryFails
<1>5. CASE Crash
  BY <1>5, CrashKeeps
<1>7. CASE ReachRedis
  BY <1>7, ReachKeeps
<1>6. CASE UNCHANGED vars
  <2>1. /\ queue' = queue /\ reached' = reached /\ open' = open /\ job' = job /\ step' = step
        /\ copy' = copy
        /\ seen' = seen /\ lastMessage' = lastMessage
        /\ sent' = sent /\ told' = told /\ crashes' = crashes /\ dropped' = dropped
    BY <1>6 DEF vars
  <2>2. JobsInOrder' /\ LastMessageOfRoom' /\ OnlyAcknowledged' /\ NoneLost'
    BY <2>1 DEF ChatInv, JobsInOrder, OrderedJobs, WorkInOrder, Copies, Stored, LastMessageOfRoom,
                OnlyAcknowledged, NoneLost, Saving, CarriedBy
  <2>3. TypeOK'
    BY <2>1 DEF ChatInv, TypeOK
  <2> QED
    BY <2>2, <2>3 DEF ChatInv
<1> QED
  BY <1>1, <1>2, <1>3, <1>4, <1>5, <1>6, <1>7 DEF Next

(* Jobs and the work on them are in order through overlaps and crashes.     *)
THEOREM ChatInvariant == Spec => []ChatInv
  BY InitKeeps, NextKeeps, PTL DEF Spec

(* Types of the variables.                                                  *)
THEOREM ChatTypes == Spec => []TypeOK
  BY ChatInvariant, PTL DEF ChatInv

(* updateChatroomOnNewMessage never gives a room a last message that is not *)
(* stored or of another room.                                               *)
THEOREM LastMessagesOfRooms == Spec => []LastMessageOfRoom
  BY ChatInvariant, PTL DEF ChatInv

(* updateMessageStatusesBulk shows no status a user has not acknowledged.   *)
THEOREM OnlyAcknowledgedShown == Spec => []OnlyAcknowledged
  BY ChatInvariant, PTL DEF ChatInv

(* createMessageBulk and the queue lose no message but those whose add had  *)
(* not reached Redis, or whose job was complete or given out twice before   *)
(* they were saved, when the process ended.                                 *)
THEOREM NoMessageLost == Spec => []NoneLost
  BY ChatInvariant, PTL DEF ChatInv
-----------------------------------------------------------------------------
(* CarriedOnce.                                                             *)

NewUntilSent(m) ==
  m \notin sent =>
    /\ \A i \in DOMAIN queue : ~CarriedBy(queue[i], m)
    /\ \A w \in Slots : ~CarriedBy(job[w], m)
    /\ \A id \in Stored : id[1] # m

Once == CarriedOnce /\ \A m \in Messages : NewUntilSent(m)

LEMMA InitOnce == Init => Once
<1> SUFFICES ASSUME Init PROVE Once
  OBVIOUS
<1>1. /\ DOMAIN queue = {} /\ Stored = {}
      /\ \A w \in Slots, m \in Messages : ~CarriedBy(job[w], m)
  BY DEF Init, Stored, CarriedBy
<1> QED
  BY <1>1 DEF Once, CarriedOnce, OneCarrier, NotYetStored, NewUntilSent, Carrying, Saving

(* Steps that start no job and save none.                                   *)
LEMMA OnceStays ==
  ASSUME Once, queue' = queue, sent' = sent, Stored' = Stored, open' \subseteq open,
         \A w \in Slots : /\ job'[w] = job[w] \/ job'[w] = None
                          /\ step'[w] = "save" => step[w] = "save"
  PROVE  Once'
<1>1. ASSUME NEW w \in Slots, NEW m
      PROVE  /\ CarriedBy(job[w], m)' => CarriedBy(job[w], m) /\ job'[w] = job[w]
             /\ Carrying(w, m)' => Carrying(w, m)
             /\ Saving(w, m)' => Saving(w, m)
  BY DEF CarriedBy, Carrying, Saving
<1>2. ASSUME NEW m PROVE \A i \in DOMAIN queue : CarriedBy(queue[i], m)' <=> CarriedBy(queue[i], m)
  BY DEF CarriedBy
<1>3. ASSUME NEW m \in Messages PROVE OneCarrier(m)' /\ NotYetStored(m)' /\ NewUntilSent(m)'
  <2>1. OneCarrier(m) /\ NotYetStored(m) /\ NewUntilSent(m)
    BY DEF Once, CarriedOnce
  <2>2. OneCarrier(m)'
    BY <1>1, <1>2, <2>1 DEF OneCarrier
  <2>3. NotYetStored(m)' /\ NewUntilSent(m)'
    BY <1>1, <1>2, <2>1 DEF NotYetStored, NewUntilSent, Saving
  <2> QED
    BY <2>2, <2>3
<1> QED
  BY <1>3 DEF Once, CarriedOnce

LEMMA AddOnce ==
  ASSUME TypeOK, Once, NEW j \in Jobs, queue' = Append(queue, j),
         UNCHANGED <<open, job, step, seen>>, sent \subseteq sent',
         \A m \in Messages : CarriedBy(j, m) => m \notin sent /\ m \in sent'
  PROVE  Once'
<1>0. PICK n : n = Len(queue) + 1
  OBVIOUS
<1>1. /\ n \in Nat /\ DOMAIN queue' = DOMAIN queue \cup {n} /\ n \notin DOMAIN queue
      /\ queue'[n] = j /\ \A i \in DOMAIN queue : queue'[i] = queue[i]
  BY <1>0 DEF TypeOK
<1>2. Stored' = Stored
  BY DEF Stored
<1>3. ASSUME NEW m \in Messages
      PROVE  /\ \A w \in Slots : /\ CarriedBy(job[w], m)' <=> CarriedBy(job[w], m)
                                 /\ Carrying(w, m)' <=> Carrying(w, m)
                                 /\ Saving(w, m)' <=> Saving(w, m)
             /\ \A i \in DOMAIN queue : CarriedBy(queue[i], m)' <=> CarriedBy(queue[i], m)
             /\ CarriedBy(queue[n], m)' <=> CarriedBy(j, m)
  BY <1>1 DEF CarriedBy, Carrying, Saving
<1>4. ASSUME NEW m \in Messages PROVE OneCarrier(m)' /\ NotYetStored(m)' /\ NewUntilSent(m)'
  <2>1. OneCarrier(m) /\ NotYetStored(m) /\ NewUntilSent(m)
    BY DEF Once, CarriedOnce
  <2>2. CASE CarriedBy(j, m)
    <3>1. /\ \A i \in DOMAIN queue : ~CarriedBy(queue[i], m)
          /\ \A w \in Slots : ~CarriedBy(job[w], m)
          /\ \A id \in Stored : id[1] # m
      BY <2>1, <2>2 DEF NewUntilSent
    <3>2. /\ \A i \in DOMAIN queue' : CarriedBy(queue[i], m)' => i = n
          /\ \A w \in Slots : ~CarriedBy(job[w], m)' /\ ~Carrying(w, m)' /\ ~Saving(w, m)'
      BY <1>1, <1>3, <3>1 DEF Carrying, Saving
    <3>3. \A x : <<m, x>> \notin Stored'
      BY <1>2, <3>1
    <3> QED
      BY <2>2, <3>2, <3>3 DEF OneCarrier, NotYetStored, NewUntilSent
  <2>3. CASE ~CarriedBy(j, m)
    <3>1. \A i \in DOMAIN queue' :
            CarriedBy(queue[i], m)' => i \in DOMAIN queue /\ CarriedBy(queue[i], m) /\ queue'[i] = queue[i]
      BY <1>1, <1>3, <2>3
    <3>2. OneCarrier(m)'
      BY <1>3, <2>1, <3>1 DEF OneCarrier
    <3>3. NotYetStored(m)' /\ NewUntilSent(m)'
      BY <1>2, <1>3, <2>1, <3>1 DEF NotYetStored, NewUntilSent
    <3> QED
      BY <3>2, <3>3
  <2> QED
    BY <2>2, <2>3
<1> QED
  BY <1>4 DEF Once, CarriedOnce

LEMMA StartOnce ==
  ASSUME ChatInv, Once, NEW w \in Slots, StartJob(w)
  PROVE  Once'
<1>0. queue # << >>
  <2>1. queue \in Seq(Jobs) /\ Len(queue) \in Nat /\ reached \in 0 .. Len(queue) /\ reached > 0
    BY DEF ChatInv, TypeOK, StartJob
  <2> QED
    BY <2>1
<1>1. /\ job[w] = None /\ queue # << >> /\ open' = open \cup {w}
      /\ job' = [job EXCEPT ![w] = Head(queue)] /\ queue' = Tail(queue)
      /\ seen' = seen /\ sent' = sent
  BY <1>0 DEF StartJob, database, history
<1>2. /\ DOMAIN queue' = 1 .. Len(queue) - 1 /\ \A i \in DOMAIN queue' : queue'[i] = queue[i + 1]
      /\ Head(queue) = queue[1] /\ DOMAIN queue = 1 .. Len(queue) /\ 1 \in DOMAIN queue
      /\ Len(queue) \in Nat
  BY <1>1 DEF ChatInv, TypeOK
<1>3. \A i \in DOMAIN queue' : i + 1 \in DOMAIN queue /\ i + 1 # 1 /\ i \in Nat
  BY <1>2
<1>4. /\ job'[w] = queue[1] /\ \A v \in Slots \ {w} : job'[v] = job[v] /\ step'[v] = step[v]
      /\ \A v \in Slots \ {w} : v \in open' => v \in open
  BY <1>1, <1>2 DEF ChatInv, TypeOK, StartJob
<1>5. Stored' = Stored
  BY <1>1 DEF Stored
<1>6. ASSUME NEW m \in Messages
      PROVE  /\ \A v \in Slots \ {w} : /\ CarriedBy(job[v], m)' <=> CarriedBy(job[v], m)
                                       /\ Carrying(v, m)' <=> Carrying(v, m)
                                       /\ Saving(v, m)' <=> Saving(v, m)
             /\ \A i \in DOMAIN queue' : CarriedBy(queue[i], m)' <=> CarriedBy(queue[i + 1], m)
             /\ CarriedBy(job[w], m)' <=> CarriedBy(queue[1], m)
  BY <1>1, <1>2, <1>4 DEF CarriedBy, Carrying, Saving
<1>7. ASSUME NEW m \in Messages PROVE OneCarrier(m)' /\ NotYetStored(m)' /\ NewUntilSent(m)'
  <2>1. OneCarrier(m) /\ NotYetStored(m) /\ NewUntilSent(m)
    BY DEF Once, CarriedOnce
  <2>2. \A i \in DOMAIN queue' : CarriedBy(queue[i], m)' => ~CarriedBy(queue[1], m)
    BY <1>2, <1>3, <1>6, <2>1 DEF OneCarrier
  <2>3. \A v \in Slots \ {w} : Carrying(v, m)' => ~CarriedBy(queue[1], m)
    BY <1>2, <1>6, <2>1 DEF OneCarrier
  <2>4. Carrying(w, m)' => CarriedBy(queue[1], m)
    BY <1>6 DEF Carrying
  <2>5. OneCarrier(m)'
    <3>1. ASSUME NEW i \in DOMAIN queue', NEW k \in DOMAIN queue',
                 CarriedBy(queue[i], m)', CarriedBy(queue[k], m)'
          PROVE  i = k
      <4>1. i + 1 = k + 1
        BY <1>3, <1>6, <2>1, <3>1 DEF OneCarrier
      <4> QED
        BY <1>3, <4>1
    <3>2. \A u, v \in Slots : Carrying(u, m)' /\ Carrying(v, m)' => u = v
      BY <1>6, <2>1, <2>3, <2>4 DEF OneCarrier
    <3>3. \A i \in DOMAIN queue', v \in Slots : ~(CarriedBy(queue[i], m)' /\ Carrying(v, m)')
      BY <1>3, <1>6, <2>1, <2>2, <2>4 DEF OneCarrier
    <3> QED
      BY <3>1, <3>2, <3>3 DEF OneCarrier
  <2>6. NotYetStored(m)'
    <3>1. \A i \in DOMAIN queue' : CarriedBy(queue[i], m)' =>
            <<m, queue'[i].run>> \notin Stored /\ <<m, 2>> \notin Stored
      BY <1>2, <1>3, <1>6, <2>1 DEF NotYetStored
    <3>2. CarriedBy(job[w], m)' => <<m, job'[w].run>> \notin Stored /\ <<m, 2>> \notin Stored
      BY <1>2, <1>4, <1>6, <2>1 DEF NotYetStored
    <3>3. ASSUME NEW v \in Slots \ {w}
          PROVE  /\ Saving(v, m)' => <<m, job'[v].run>> \notin Stored
                 /\ v \in open' /\ CarriedBy(job[v], m)' /\ job'[v].run = 1 => <<m, 2>> \notin Stored
      BY <1>4, <1>6, <2>1 DEF NotYetStored
    <3>4. Saving(w, m)' => CarriedBy(job[w], m)'
      BY DEF Saving
    <3> QED
      BY <1>5, <3>1, <3>2, <3>3, <3>4 DEF NotYetStored
  <2>7. NewUntilSent(m)'
    BY <1>1, <1>2, <1>3, <1>5, <1>6, <2>1 DEF NewUntilSent
  <2> QED
    BY <2>5, <2>6, <2>7
<1> QED
  BY <1>7 DEF Once, CarriedOnce
LEMMA SaveOnce ==
  ASSUME ChatInv, Once, NEW w \in Slots, SaveMessages(w)
  PROVE  Once'
<1>1. /\ step[w] = "save" /\ step' = [step EXCEPT ![w] = "lastMessage"]
      /\ \A id \in Ids : id \notin Copies(job[w]) => seen'[id] = seen[id]
      /\ queue' = queue /\ open' = open /\ job' = job /\ sent' = sent
  BY DEF SaveMessages, history
<1>2. /\ step'[w] = "lastMessage" /\ \A v \in Slots \ {w} : step'[v] = step[v]
      /\ job[w] \in Jobs /\ job[w] # None /\ job[w].kind = "save"
  BY <1>1 DEF ChatInv, TypeOK, JobsInOrder, WorkInOrder, OrderedJobs
<1>3. ASSUME NEW m \in Messages, NEW x, <<m, x>> \in Stored', <<m, x>> \notin Stored
      PROVE  x = job[w].run /\ Saving(w, m) /\ Carrying(w, m)
  <2>1. <<m, x>> \in Copies(job[w])
    BY <1>1, <1>3 DEF Stored
  <2>2. Copies(job[w]) = {<<k, job[w].run>> : k \in ToSet(job[w].messages)}
    BY <1>2, CopiesAreIds
  <2>3. x = job[w].run /\ m \in ToSet(job[w].messages)
    BY <2>1, <2>2
  <2> QED
    BY <1>1, <1>2, <2>3 DEF Saving, Carrying, CarriedBy
<1>4. ASSUME NEW m \in Messages
      PROVE  /\ \A v \in Slots : /\ CarriedBy(job[v], m)' <=> CarriedBy(job[v], m)
                                 /\ Carrying(v, m)' => Carrying(v, m)
                                 /\ Saving(v, m)' => Saving(v, m) /\ v # w
                                 /\ Saving(v, m) => Carrying(v, m)
             /\ \A i \in DOMAIN queue : CarriedBy(queue[i], m)' <=> CarriedBy(queue[i], m)
  BY <1>1, <1>2 DEF CarriedBy, Carrying, Saving
<1>5. ASSUME NEW m \in Messages PROVE OneCarrier(m)' /\ NotYetStored(m)' /\ NewUntilSent(m)'
  <2>1. OneCarrier(m) /\ NotYetStored(m) /\ NewUntilSent(m)
    BY DEF Once, CarriedOnce
  <2>2. OneCarrier(m)'
    BY <1>1, <1>4, <2>1 DEF OneCarrier
  <2>3. CASE Carrying(w, m)
    <3>1. \A i \in DOMAIN queue' : ~CarriedBy(queue[i], m)'
      BY <1>1, <1>4, <2>1, <2>3 DEF OneCarrier
    <3>2. \A v \in Slots : ~Saving(v, m)'
      BY <1>4, <2>1, <2>3 DEF OneCarrier
    <3>3. \A v \in Slots : v \in open' /\ CarriedBy(job[v], m)' /\ job'[v].run = 1 =>
            <<m, 2>> \notin Stored'
      <4>1. SUFFICES ASSUME NEW v \in Slots, v \in open, CarriedBy(job[v], m), job[v].run = 1,
                            <<m, 2>> \in Stored'
                     PROVE  FALSE
        BY <1>1, <1>4
      <4>2. v = w
        BY <2>1, <2>3, <4>1 DEF OneCarrier, Carrying
      <4>3. <<m, 2>> \notin Stored
        BY <2>1, <4>1 DEF NotYetStored
      <4> QED
        BY <1>3, <4>1, <4>2, <4>3
    <3>4. NewUntilSent(m)'
      BY <1>1, <2>1, <2>3 DEF NewUntilSent, Carrying
    <3> QED
      BY <2>2, <3>1, <3>2, <3>3, <3>4 DEF NotYetStored
  <2>4. CASE ~Carrying(w, m)
    <3>1. \A x : <<m, x>> \in Stored' => <<m, x>> \in Stored
      BY <1>3, <2>4
    <3>2. NotYetStored(m)'
      BY <1>1, <1>4, <2>1, <3>1 DEF NotYetStored
    <3>3. \A id \in Stored' : id = <<id[1], id[2]>>
      BY DEF Stored, Ids
    <3>4. NewUntilSent(m)'
      BY <1>1, <1>4, <2>1, <3>1, <3>3 DEF NewUntilSent
    <3> QED
      BY <2>2, <3>2, <3>4
  <2> QED
    BY <2>3, <2>4
<1> QED
  BY <1>5 DEF Once, CarriedOnce

(* Only open jobs come back, and those that come back are given out last    *)
(* time.                                                                    *)
LEMMA CrashOnce ==
  ASSUME ChatInv, Once, Crash
  PROVE  Once'
<1>1. PICK found : found = {v \in Slots : GivenOutAgain(v)}
  OBVIOUS
<1>2. PICK jobs : jobs = {[job[v] EXCEPT !.run = 2] : v \in found}
  OBVIOUS
<1>3. /\ open' = {} /\ \A w \in Slots : job'[w] = None /\ step'[w] = "idle"
      /\ seen' = seen /\ sent' = sent
  BY DEF Crash, database
<1>4. PICK again \in SetToSeqs(jobs) : queue' = again \o SubSeq(queue, 1, reached)
  BY <1>1, <1>2 DEF Crash
<1>5. IsFiniteSet(jobs)
  <2>1. found \in SUBSET Slots /\ IsFiniteSet(found)
    BY <1>1, FS_Subset, ChatMessagesAssumption
  <2>2. [v \in found |-> [job[v] EXCEPT !.run = 2]] \in Surjection(found, jobs)
    BY <1>2 DEF Surjection
  <2> QED
    BY <2>1, <2>2, FS_Surjection
<1>6. again \in Seq(jobs) /\ \A i, k \in DOMAIN again : again[i] = again[k] => i = k
  <2>1. again \in Seq(jobs)
    BY <1>5, SeqsHaveAll
  <2>2. \A i, k \in 1 .. Cardinality(jobs) : i # k => again[i] # again[k]
    BY DEF SetToSeqs
  <2>3. DOMAIN again = 1 .. Cardinality(jobs)
    BY DEF SetToSeqs
  <2> QED
    BY <2>1, <2>2, <2>3
<1>7. ASSUME NEW i \in DOMAIN again, NEW m, CarriedBy(again[i], m)
      PROVE  \E v \in Slots : /\ v \in open /\ job[v].run = 1 /\ CarriedBy(job[v], m)
                              /\ Carrying(v, m) /\ again[i] = [job[v] EXCEPT !.run = 2]
                              /\ again[i].run = 2
  <2>1. again[i] \in jobs
    BY <1>6
  <2>2. PICK v \in found : again[i] = [job[v] EXCEPT !.run = 2]
    BY <1>2, <2>1
  <2>3. v \in Slots /\ v \in open /\ job[v].run = 1 /\ job[v] \in Jobs /\ job[v] # None
    BY <1>1, <2>2 DEF GivenOutAgain, ChatInv, JobsInOrder, WorkInOrder, OrderedJobs
  <2>4. again[i].kind = job[v].kind /\ again[i].messages = job[v].messages /\ again[i].run = 2
    BY <2>2, <2>3 DEF Jobs
  <2> QED
    BY <1>7, <2>2, <2>3, <2>4 DEF CarriedBy, Carrying
<1>8. PICK n : n = Len(again)
  OBVIOUS
<1>9. /\ n \in Nat /\ DOMAIN again = 1 .. n
      /\ \A i \in DOMAIN again : queue'[i] = again[i]
      /\ \A i \in DOMAIN queue' : \/ i \in DOMAIN again
                                  \/ i \notin DOMAIN again /\ i - n \in DOMAIN queue /\ queue'[i] = queue[i - n]
      /\ DOMAIN queue' \subseteq Int
  <2>1. PICK left : left = SubSeq(queue, 1, reached)
    OBVIOUS
  <2>2. queue \in Seq(Jobs) /\ Len(queue) \in Nat /\ reached \in 0 .. Len(queue)
    BY DEF ChatInv, TypeOK
  <2>3. /\ left \in Seq(Jobs) /\ Len(left) = reached /\ DOMAIN left \subseteq DOMAIN queue
        /\ \A i \in DOMAIN left : left[i] = queue[i]
    BY <2>1, <2>2
  <2>4. queue' = again \o left
    BY <1>4, <2>1
  <2>5. /\ n \in Nat /\ DOMAIN again = 1 .. n
        /\ \A i \in DOMAIN again : queue'[i] = again[i]
        /\ \A i \in DOMAIN queue' : \/ i \in DOMAIN again
                                    \/ i \notin DOMAIN again /\ i - n \in DOMAIN left /\ queue'[i] = left[i - n]
        /\ DOMAIN queue' \subseteq Int
    BY <1>6, <1>8, <2>3, <2>4
  <2> QED
    BY <2>3, <2>5
<1>10. Stored' = Stored
  BY <1>3 DEF Stored
<1>11. ASSUME NEW m \in Messages PROVE OneCarrier(m)' /\ NotYetStored(m)' /\ NewUntilSent(m)'
  <2>1. OneCarrier(m) /\ NotYetStored(m) /\ NewUntilSent(m)
    BY DEF Once, CarriedOnce
  <2>2. \A v \in Slots : ~CarriedBy(job[v], m)' /\ ~Carrying(v, m)' /\ ~Saving(v, m)'
    BY <1>3 DEF CarriedBy, Carrying, Saving
  <2>3. \A i \in DOMAIN queue' : CarriedBy(queue[i], m)' <=> CarriedBy(queue'[i], m)
    BY DEF CarriedBy
  <2>4. ASSUME NEW i \in DOMAIN queue', NEW k \in DOMAIN queue',
               CarriedBy(queue'[i], m), CarriedBy(queue'[k], m)
        PROVE  i = k
    <3>1. CASE i \in DOMAIN again /\ k \in DOMAIN again
      <4>1. CarriedBy(again[i], m) /\ CarriedBy(again[k], m)
        BY <1>9, <2>4, <3>1
      <4>2. PICK v \in Slots : Carrying(v, m) /\ again[i] = [job[v] EXCEPT !.run = 2]
        BY <1>7, <3>1, <4>1
      <4>3. PICK w \in Slots : Carrying(w, m) /\ again[k] = [job[w] EXCEPT !.run = 2]
        BY <1>7, <3>1, <4>1
      <4>4. v = w
        BY <2>1, <4>2, <4>3 DEF OneCarrier
      <4> QED
        BY <1>6, <3>1, <4>2, <4>3, <4>4
    <3>2. CASE i \notin DOMAIN again /\ k \notin DOMAIN again
      <4>1. i - n = k - n
        BY <1>9, <2>1, <2>4, <3>2 DEF OneCarrier
      <4> QED
        BY <1>9, <4>1
    <3>3. ASSUME NEW a \in DOMAIN again, NEW b \in DOMAIN queue,
                 CarriedBy(again[a], m), CarriedBy(queue[b], m)
          PROVE  FALSE
      BY <1>7, <2>1, <3>3 DEF OneCarrier
    <3> QED
      BY <1>9, <2>4, <3>1, <3>2, <3>3
  <2>5. OneCarrier(m)'
    BY <2>2, <2>3, <2>4 DEF OneCarrier
  <2>6. ASSUME NEW i \in DOMAIN queue', CarriedBy(queue'[i], m)
        PROVE  <<m, queue'[i].run>> \notin Stored /\ <<m, 2>> \notin Stored
    <3>1. CASE i \in DOMAIN again
      BY <1>7, <1>9, <2>1, <2>6, <3>1 DEF NotYetStored
    <3>2. CASE i \notin DOMAIN again
      BY <1>9, <2>1, <2>6, <3>2 DEF NotYetStored
    <3> QED
      BY <3>1, <3>2
  <2>7. NotYetStored(m)'
    BY <1>3, <1>10, <2>2, <2>3, <2>6 DEF NotYetStored
  <2>8. ASSUME m \notin sent, NEW i \in DOMAIN queue', CarriedBy(queue'[i], m) PROVE FALSE
    BY <1>7, <1>9, <2>1, <2>8 DEF NewUntilSent
  <2>9. NewUntilSent(m)'
    BY <1>3, <1>10, <2>1, <2>2, <2>3, <2>8 DEF NewUntilSent
  <2> QED
    BY <2>5, <2>7, <2>9
<1> QED
  BY <1>11 DEF Once, CarriedOnce

LEMMA NextOnce == ChatInv /\ Once /\ [Next]_vars => Once'
<1> SUFFICES ASSUME ChatInv, Once, [Next]_vars PROVE Once'
  OBVIOUS
<1>1. ASSUME NEW room \in Rooms, NEW batch \in Batches(Messages \ sent), NewMessage(room, batch)
      PROVE  Once'
  <2>1. batch \in Seq(Messages) /\ ToSet(batch) \subseteq Messages \ sent
    <3>1. PICK S \in (SUBSET (Messages \ sent)) \ {{}} : batch \in SetToSeqs(S)
      BY DEF Batches
    <3>2. IsFiniteSet(S)
      BY FS_Subset, ChatMessagesAssumption
    <3>3. batch \in Seq(S)
      BY <3>1, <3>2, SeqsHaveAll
    <3> QED
      BY <3>3, SeqMonotonic DEF ToSet
  <2>2. PICK j : j = SaveJob(batch, room)
    OBVIOUS
  <2>3. j \in Jobs /\ \A m : CarriedBy(j, m) => m \in ToSet(batch)
    BY <2>1, <2>2 DEF SaveJob, Jobs, CarriedBy
  <2>4. /\ queue' = Append(queue, j) /\ sent' = sent \cup ToSet(batch)
        /\ UNCHANGED <<open, job, step, seen>>
    BY <1>1, <2>2 DEF NewMessage, Add, database
  <2> QED
    BY <2>1, <2>3, <2>4, AddOnce DEF ChatInv
<1>2. ASSUME NEW room \in Rooms, NEW user \in Users, NEW ids \in (SUBSET Stored) \ {{}},
             NEW status \in Statuses, UpdateMessageStatus(user, room, ids, status)
      PROVE  Once'
  <2>1. PICK j : j = StatusJob(ids, room, user, status)
    OBVIOUS
  <2>2. j \in Jobs /\ \A m : ~CarriedBy(j, m)
    BY <2>1 DEF StatusJob, Jobs, CarriedBy, Stored
  <2>3. queue' = Append(queue, j) /\ sent' = sent /\ UNCHANGED <<open, job, step, seen>>
    BY <1>2, <2>1 DEF UpdateMessageStatus, Add, database
  <2> QED
    BY <2>2, <2>3, AddOnce DEF ChatInv
<1>3. ASSUME NEW w \in Slots, EndWork(w), Stored' = Stored PROVE Once'
  <2>1. /\ queue' = queue /\ sent' = sent /\ open' = open
        /\ \A v \in Slots : /\ job'[v] = job[v] \/ job'[v] = None
                            /\ step'[v] = "save" => step[v] = "save"
    BY <1>3 DEF EndWork, history, ChatInv, TypeOK
  <2> QED
    BY <1>3, <2>1, OnceStays
<1>4. ASSUME NEW w \in Slots, CompleteJob(w) PROVE Once'
  <2>1. /\ queue' = queue /\ sent' = sent /\ Stored' = Stored /\ open' \subseteq open
        /\ \A v \in Slots : /\ job'[v] = job[v] \/ job'[v] = None
                            /\ step'[v] = step[v]
    BY <1>4 DEF CompleteJob, history, database, ChatInv, TypeOK, Stored
  <2> QED
    BY <2>1, OnceStays
<1>5. ASSUME NEW w \in Slots, ReadStatuses(w) PROVE Once'
  <2>1. Stored' = Stored
    BY <1>5 DEF ReadStatuses, database, Stored
  <2>2. CASE step' = [step EXCEPT ![w] = "update"] /\ UNCHANGED <<queue, reached, open, job, history>>
    <3>1. /\ queue' = queue /\ sent' = sent /\ open' = open /\ job' = job
          /\ \A v \in Slots : step'[v] = "save" => step[v] = "save"
      BY <2>2 DEF history, ChatInv, TypeOK
    <3> QED
      BY <2>1, <3>1, OnceStays
  <2> QED
    BY <1>3, <1>5, <2>1, <2>2 DEF ReadStatuses
<1>6. ASSUME NEW w \in Slots, NEW id \in Ids, WriteStatuses(w, id) PROVE Once'
  <2>1. Stored' = Stored
    <3>1. id \in Stored /\ copy[w][id] \in Lists /\ seen' = [seen EXCEPT ![id] = copy[w][id]]
      BY <1>6 DEF WriteStatuses, ChatInv, TypeOK, JobsInOrder, WorkInOrder
    <3> QED
      BY <3>1, ListsOfUsers DEF Stored, ChatInv, TypeOK
  <2>2. CASE UNCHANGED <<queue, reached, open, job, step, history>>
    <3>1. queue' = queue /\ sent' = sent /\ open' = open /\ job' = job /\ step' = step
      BY <2>2 DEF history
    <3> QED
      BY <2>1, <3>1, OnceStays
  <2> QED
    BY <1>3, <1>6, <2>1, <2>2 DEF WriteStatuses
<1>7. ASSUME NEW w \in Slots, UpdateChatroomOnNewMessage(w) \/ StatusQueryFails(w) PROVE Once'
  BY <1>3, <1>7 DEF UpdateChatroomOnNewMessage, StatusQueryFails, database, Stored
<1>8. CASE UNCHANGED vars
  <2>1. queue' = queue /\ sent' = sent /\ open' = open /\ job' = job /\ step' = step /\ Stored' = Stored
    BY <1>8 DEF vars, Stored
  <2> QED
    BY <2>1, OnceStays
<1>9. CASE ReachRedis
  <2>1. queue' = queue /\ sent' = sent /\ open' = open /\ job' = job /\ step' = step /\ Stored' = Stored
    BY <1>9 DEF ReachRedis, database, history, Stored
  <2> QED
    BY <2>1, OnceStays
<1> QED
  BY <1>1, <1>2, <1>4, <1>5, <1>6, <1>7, <1>8, <1>9, StartOnce, SaveOnce, CrashOnce DEF Next, Work

(* Whatever jobs overlap, end late or are given out again after a crash, no *)
(* message is in two jobs that may still save it, and no job meets a        *)
(* message it has already stored.                                           *)
THEOREM MessagesCarriedOnce == Spec => []CarriedOnce
<1>1. Once => CarriedOnce
  BY DEF Once
<1> QED
  BY <1>1, InitOnce, NextOnce, ChatInvariant, PTL DEF Spec
=============================================================================
