----------------------------- MODULE ChatMessages -----------------------------
(***************************************************************************)
(* How chat messages and their statuses reach the database: ChatGateway     *)
(* puts a job on the Bull queue, ChatDBQueueConsumer starts the matching    *)
(* method of ChatMessageService and does not await it.  A job is complete   *)
(* for the queue once its handler has returned, while its work goes on; the *)
(* work of several jobs interleaves at every await.                         *)
(*                                                                          *)
(* The queue is in Redis and survives the process.  The gateway does not    *)
(* await the add: it tells the client SENT while the job may still be on    *)
(* its way.  A job whose completion had not reached Redis when the process  *)
(* ended is given out once more.                                            *)
(***************************************************************************)
EXTENDS Naturals, FiniteSets, SequencesExt

CONSTANTS
  Users,         \* the connected users; each sends and acknowledges messages
  Rooms,         \* chatrooms
  Participants,  \* the users of each room
  Admins,        \* the users with a role other than USER
  Messages,      \* the messages clients send
  RoomOf,        \* the chatroom a message names
  Statuses,      \* the statuses clients acknowledge messages with
  Slots,         \* slots for the work of started jobs
  Concurrency,   \* how many jobs the processor has open at a time
  MaxWaiting,    \* bound: a job is added to fewer than this many waiting ones
  MaxTold,       \* bound: clients acknowledge so often
  MaxCrashes,    \* bound: the process ends so often
  None           \* no message, no job

(* Stored messages: each run of a job stores its messages under new ids.    *)
Ids == Messages \X {1, 2}

(* What seenStatuses may hold, an entry for each participant.               *)
Lists == UNION {[S -> Statuses \cup {"NOT_DELIVERED"}] : S \in SUBSET Users}

Jobs ==
  [kind : {"save"}, messages : Seq(Messages), room : Rooms, run : {1, 2}] \cup
  [kind : {"status"}, messages : SUBSET Ids, room : Rooms, by : Users,
   status : Statuses, run : {1, 2}]

ASSUME ChatMessagesAssumption ==
  /\ Participants \in [Rooms -> SUBSET Users]
  /\ Admins \subseteq Users
  /\ RoomOf \in [Messages -> Rooms]
  /\ "NOT_DELIVERED" \notin Statuses
  /\ Concurrency \in Nat \ {0}
  /\ MaxWaiting \in Nat \ {0}
  /\ MaxTold \in Nat
  /\ MaxCrashes \in Nat
  /\ IsFiniteSet(Messages) /\ IsFiniteSet(Slots)
  /\ None \notin Lists \cup Jobs

VARIABLES
  queue,        \* the jobs added and not yet started, in order
  reached,      \* how many of them, from the first, have reached Redis
  open,         \* the slots whose job Redis has not seen completed
  job,          \* the job each slot works for
  step,         \* the await its work is at
  copy,         \* the statuses it has read, changed and not yet written
  seen,         \* the committed seenStatuses of each stored message
  lastMessage,  \* the committed lastMessage of each chatroom
  sent,         \* history: the messages clients have sent
  told,         \* history: what each user acknowledged each message with
  crashes,      \* how often the process has ended
  dropped       \* history: the messages whose job had not reached Redis when
                \*   it did, or was saving them and is not given out again

vars == <<queue, reached, open, job, step, copy, seen, lastMessage, sent, told, crashes, dropped>>

database == <<seen, lastMessage>>
history == <<sent, told, crashes, dropped>>

Init ==
  /\ queue = <<>>
  /\ reached = 0
  /\ open = {}
  /\ job = [w \in Slots |-> None]
  /\ step = [w \in Slots |-> "idle"]
  /\ copy = [w \in Slots |-> <<>>]
  /\ seen = [id \in Ids |-> None]
  /\ lastMessage = [r \in Rooms |-> None]
  /\ sent = {}
  /\ told = [id \in Ids |-> [u \in Users |-> {}]]
  /\ crashes = 0
  /\ dropped = {}

Stored == {id \in Ids : seen[id] # None}

-----------------------------------------------------------------------------
(* ChatGateway and ChatQueueService.                                        *)

SaveJob(batch, room) ==
  [kind |-> "save", messages |-> batch, room |-> room, run |-> 1]

StatusJob(ids, room, user, status) ==
  [kind |-> "status", messages |-> ids, room |-> room, by |-> user, status |-> status, run |-> 1]

(* The add is on its way, behind those before it; no one awaits it.         *)
Add(newJob) ==
  /\ Len(queue) < MaxWaiting
  /\ queue' = Append(queue, newJob)
  /\ UNCHANGED reached

ReachRedis ==
  /\ reached < Len(queue)
  /\ reached' = reached + 1
  /\ UNCHANGED <<queue, open, job, step, copy, database, history>>

(* onNewMessage: the messages of a batch name their chatrooms themselves,   *)
(* the payload names one of its own.  The client is told SENT at once.      *)
NewMessage(room, batch) ==
  /\ Add(SaveJob(batch, room))
  /\ sent' = sent \cup ToSet(batch)
  /\ UNCHANGED <<open, job, step, copy, database, told, crashes, dropped>>

(* onUpdateMessageStatus: a client learns a message's id when it is stored. *)
UpdateMessageStatus(user, room, ids, status) ==
  /\ ids \subseteq Stored
  /\ Add(StatusJob(ids, room, user, status))
  /\ told' = [id \in Ids |-> IF id \in ids THEN [told[id] EXCEPT ![user] = @ \cup {status}]
                                           ELSE told[id]]
  /\ UNCHANGED <<open, job, step, copy, database, sent, crashes, dropped>>

-----------------------------------------------------------------------------
(* ChatDBQueueConsumer.                                                     *)

(* Mutation: a job stays in the queue until its handler has returned.       *)
StartWithoutTaking(w) ==
  /\ job[w] = None
  /\ reached > 0
  /\ Cardinality(open) < Concurrency
  /\ open' = open \cup {w}
  /\ job' = [job EXCEPT ![w] = Head(queue)]
  /\ step' = [step EXCEPT ![w] = IF Head(queue).kind = "save" THEN "save" ELSE "find"]
  /\ UNCHANGED <<queue, reached, copy, database, history>>

(* A handler starts the work of the first job and returns.                  *)
StartJob(w) ==
  /\ job[w] = None
  /\ reached > 0
  /\ Cardinality(open) < Concurrency
  /\ open' = open \cup {w}
  /\ job' = [job EXCEPT ![w] = Head(queue)]
  /\ step' = [step EXCEPT ![w] = IF Head(queue).kind = "save" THEN "save" ELSE "find"]
  /\ queue' = Tail(queue)
  /\ reached' = reached - 1
  /\ UNCHANGED <<copy, database, history>>

(* Redis learns that the handler has returned.  The slot is free when the   *)
(* work is over as well.                                                    *)
CompleteJob(w) ==
  /\ w \in open
  /\ open' = open \ {w}
  /\ job' = IF step[w] = "idle" THEN [job EXCEPT ![w] = None] ELSE job
  /\ UNCHANGED <<queue, reached, step, copy, database, history>>

EndWork(w) ==
  /\ step' = [step EXCEPT ![w] = "idle"]
  /\ copy' = [copy EXCEPT ![w] = <<>>]
  /\ job' = IF w \in open THEN job ELSE [job EXCEPT ![w] = None]
  /\ UNCHANGED <<queue, reached, open, history>>

-----------------------------------------------------------------------------
(* createMessageBulk.  That the sender exists and takes part in the room is *)
(* looked up and only logged; a query that fails is an unhandled rejection, *)
(* which ends the process.                                                  *)

Copies(j) == {<<m, j.run>> : m \in ToSet(j.messages)}

(* Mutation: the message as it was before the save gave it an id.           *)
UnsavedMessage(j) == <<Head(j.messages), 0>>

(* All messages of a gateway batch carry one sendingTime, so the first one  *)
(* stays the latest.                                                        *)
LatestMessage(j) == <<Head(j.messages), j.run>>

(* Mutation: an error of the save is logged, as updateMessageStatusesBulk   *)
(* does.                                                                    *)
SaveMessagesOrLog(w) ==
  /\ step[w] = "save"
  /\ EndWork(w)
  /\ UNCHANGED database

SaveMessages(w) ==
  /\ step[w] = "save"
  /\ seen' = [id \in Ids |-> IF id \in Copies(job[w])
                             THEN [u \in Participants[job[w].room] |-> "NOT_DELIVERED"]
                             ELSE seen[id]]
  /\ step' = [step EXCEPT ![w] = "lastMessage"]
  /\ UNCHANGED <<queue, reached, open, job, copy, lastMessage, history>>

(* Mutation: the chatroom of the payload instead of the message's.          *)
UpdatePayloadsChatroom(w) ==
  /\ step[w] = "lastMessage"
  /\ lastMessage' = [lastMessage EXCEPT ![job[w].room] = LatestMessage(job[w])]
  /\ EndWork(w)
  /\ UNCHANGED seen

UpdateChatroomOnNewMessage(w) ==
  /\ step[w] = "lastMessage"
  /\ lastMessage' = [lastMessage EXCEPT ![RoomOf[LatestMessage(job[w])[1]]] = LatestMessage(job[w])]
  /\ EndWork(w)
  /\ UNCHANGED seen

-----------------------------------------------------------------------------
(* updateMessageStatusesBulk.                                               *)

Permitted(user, room) == user \in Participants[room] \cup Admins

(* Mutation: every entry is set, not the acknowledging user's.              *)
EveryEntry(statuses, user, status) == [u \in DOMAIN statuses |-> status]

WithStatus(statuses, user, status) ==
  [u \in DOMAIN statuses |-> IF u = user THEN status ELSE statuses[u]]

(* findChatroomById refuses, or findByIds reads the messages; the changed   *)
(* lists are what will be written.                                          *)
ReadStatuses(w) ==
  /\ step[w] = "find"
  /\ \/ /\ ~Permitted(job[w].by, job[w].room)
        /\ EndWork(w)
     \/ /\ Permitted(job[w].by, job[w].room)
        /\ copy' = [copy EXCEPT ![w] =
                     [id \in job[w].messages |-> WithStatus(seen[id], job[w].by, job[w].status)]]
        /\ step' = [step EXCEPT ![w] = "update"]
        /\ UNCHANGED <<queue, reached, open, job, history>>
  /\ UNCHANGED database

(* Each message is updated with the whole list, in the order it was found.  *)
WriteStatuses(w, id) ==
  /\ step[w] = "update"
  /\ id \in DOMAIN copy[w]
  /\ seen' = [seen EXCEPT ![id] = copy[w][id]]
  /\ LET rest == DOMAIN copy[w] \ {id}
     IN  IF rest = {} THEN EndWork(w)
         ELSE /\ copy' = [copy EXCEPT ![w] = [i \in rest |-> copy[w][i]]]
              /\ UNCHANGED <<queue, reached, open, job, step, history>>
  /\ UNCHANGED lastMessage

(* A query fails: updateMessageStatusesBulk logs the error and returns.     *)
StatusQueryFails(w) ==
  /\ step[w] \in {"find", "update"}
  /\ EndWork(w)
  /\ UNCHANGED database

-----------------------------------------------------------------------------
(* The process ends and is started again.  Bull puts the jobs it finds open *)
(* back in front, in any order; one found open twice has failed for good.   *)
(* What has not reached Redis never does.                                   *)
GivenOutAgain(w) == w \in open /\ job[w].run = 1

CarriedBy(j, m) == j # None /\ j.kind = "save" /\ m \in ToSet(j.messages)
OnItsWay(m) == \E i \in DOMAIN queue : i > reached /\ CarriedBy(queue[i], m)
Saving(w, m) == step[w] = "save" /\ CarriedBy(job[w], m)

Crash ==
  /\ crashes < MaxCrashes
  /\ open # {} \/ reached < Len(queue) \/ \E w \in Slots : step[w] # "idle"
  /\ \E again \in SetToSeqs({[job[w] EXCEPT !.run = 2] : w \in {v \in Slots : GivenOutAgain(v)}}) :
       queue' = again \o SubSeq(queue, 1, reached)
  /\ reached' = Len(queue')
  /\ open' = {}
  /\ job' = [w \in Slots |-> None]
  /\ step' = [w \in Slots |-> "idle"]
  /\ copy' = [w \in Slots |-> <<>>]
  /\ crashes' = crashes + 1
  /\ dropped' = dropped \cup {m \in Messages : OnItsWay(m) \/
                                \E w \in Slots : Saving(w, m) /\ ~GivenOutAgain(w)}
  /\ UNCHANGED <<database, sent, told>>

-----------------------------------------------------------------------------
Work(w) ==
  \/ StartJob(w)
  \/ CompleteJob(w)
  \/ SaveMessages(w)
  \/ UpdateChatroomOnNewMessage(w)
  \/ ReadStatuses(w)
  \/ \E id \in Ids : WriteStatuses(w, id)

Acknowledgements ==
  Cardinality({t \in Ids \X Users \X Statuses : t[3] \in told[t[1]][t[2]]})

Batches(messages) == UNION {SetToSeqs(S) : S \in (SUBSET messages) \ {{}}}

Next ==
  \/ \E room \in Rooms :
       \/ \E batch \in Batches(Messages \ sent) : NewMessage(room, batch)
       \/ \E user \in Users, ids \in (SUBSET Stored) \ {{}}, status \in Statuses :
            /\ Acknowledgements + Cardinality(ids) <= MaxTold
            /\ UpdateMessageStatus(user, room, ids, status)
  \/ ReachRedis
  \/ \E w \in Slots : Work(w) \/ StatusQueryFails(w)
  \/ Crash

Spec == Init /\ [][Next]_vars

-----------------------------------------------------------------------------
(* Types of the variables.                                                  *)
TypeOK ==
  /\ queue \in Seq(Jobs)
  /\ reached \in 0 .. Len(queue)
  /\ open \subseteq Slots
  /\ job \in [Slots -> Jobs \cup {None}]
  /\ step \in [Slots -> {"idle", "save", "lastMessage", "find", "update"}]
  /\ \A w \in Slots : DOMAIN copy[w] \subseteq Ids /\ \A id \in DOMAIN copy[w] : copy[w][id] \in Lists
  /\ seen \in [Ids -> Lists \cup {None}]
  /\ lastMessage \in [Rooms -> Ids \cup {None}]
  /\ sent \subseteq Messages
  /\ told \in [Ids -> [Users -> SUBSET Statuses]]
  /\ crashes \in 0 .. MaxCrashes
  /\ dropped \subseteq Messages

(* The last message of a chatroom is stored and was sent to this chatroom,  *)
(* also when the batch came in under another one, when the work of several  *)
(* save jobs overlaps and after any crash.                                  *)
LastMessageOfRoom ==
  \A r \in Rooms : lastMessage[r] # None =>
    lastMessage[r] \in Stored /\ RoomOf[lastMessage[r][1]] = r

(* However status jobs overlap, fail, are lost or run twice, a message      *)
(* never shows for a user a status that user did not acknowledge it with.   *)
OnlyAcknowledged ==
  \A id \in Stored : \A u \in DOMAIN seen[id] :
    seen[id][u] \in told[id][u] \cup {"NOT_DELIVERED"}

(* A message a client was told is SENT is queued, being saved or stored,    *)
(* whoever sent it and under whichever room, through overlapping work and   *)
(* restarts.  Only two kinds are lost when the process ends: those whose    *)
(* add, which no one awaits, had not reached Redis, and those a job had     *)
(* not yet saved that was already complete, or given out twice.             *)
NoneLost ==
  \A m \in sent \ dropped :
    \/ \E id \in Stored : id[1] = m
    \/ \E i \in DOMAIN queue : CarriedBy(queue[i], m)
    \/ \E w \in Slots : Saving(w, m)

Carrying(w, m) == (w \in open \/ step[w] = "save") /\ CarriedBy(job[w], m)

OneCarrier(m) ==
  /\ \A i, j \in DOMAIN queue : CarriedBy(queue[i], m) /\ CarriedBy(queue[j], m) => i = j
  /\ \A v, w \in Slots : Carrying(v, m) /\ Carrying(w, m) => v = w
  /\ \A i \in DOMAIN queue, w \in Slots : ~(CarriedBy(queue[i], m) /\ Carrying(w, m))

NotYetStored(m) ==
  /\ \A i \in DOMAIN queue : CarriedBy(queue[i], m) =>
       <<m, queue[i].run>> \notin Stored /\ <<m, 2>> \notin Stored
  /\ \A w \in Slots : Saving(w, m) => <<m, job[w].run>> \notin Stored
  /\ \A w \in Slots : w \in open /\ CarriedBy(job[w], m) /\ job[w].run = 1 =>
       <<m, 2>> \notin Stored

(* No message is in two jobs that may still save it, and none in a job that *)
(* has saved it: what restarts duplicate they duplicate once, and no save   *)
(* resets the statuses of a stored message.                                 *)
CarriedOnce == \A m \in Messages : OneCarrier(m) /\ NotYetStored(m)

WritesFor(u, id) == \E w \in Slots : step[w] = "update" /\ job[w].by = u /\ id \in DOMAIN copy[w]

(* The doc comment of updateMessageStatusesBulk: "Now we have to store the  *)
(* seen_status of UserB (userId) as `SEEN`".  A user's entry changes only   *)
(* by the work of a job of this user.                                       *)
OnlyOwnEntryChanges ==
  [][\A id \in Stored : \A u \in DOMAIN seen[id] :
       seen'[id][u] # seen[id][u] => WritesFor(u, id)]_vars
=============================================================================
