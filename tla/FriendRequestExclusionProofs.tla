--------------------- MODULE FriendRequestExclusionProofs ---------------------
(***************************************************************************)
(* Proofs about FriendRequest when no two requests about the same two users *)
(* are past their first SELECT at once: then it implements Friendship.      *)
(***************************************************************************)
EXTENDS FriendRequestExclusion, FriendRequestProofs

relationBar == [c \in TwoUsers |-> RelationOf(c)]

(* What is to be shown of every step.                                       *)
Allowed == ExclusiveInv' /\ [Abstract!Next]_relationBar

(* What a row says, by its status.                                          *)
LEMMA ViewByStatus ==
  ASSUME NEW row
  PROVE  /\ row.status = "WAITING_FOR_CURRENT_USER_RESPONSE" =>
              View(row) = Abstract!RequestedBy(row.sender)
         /\ row.status = "PENDING" => View(row) = Abstract!RequestedBy(row.receiver)
         /\ row.status = "ACCEPTED" => View(row) = Abstract!Friends
         /\ row.status = "BLOCKED_BY_ME" => View(row) = Abstract!BlockedBy(row.sender)
         /\ row.status = "BLOCKED_BY_OTHER_USER" => View(row) = Abstract!BlockedBy(row.receiver)
  BY DEF View, Abstract!RequestedBy, Abstract!Friends, Abstract!BlockedBy

(* Two relations are the same only if they are of one kind and of one user. *)
LEMMA RelationsDiffer ==
  ASSUME NEW u, NEW v
  PROVE  /\ Abstract!Strangers # Abstract!Friends
         /\ Abstract!Strangers # Abstract!RequestedBy(u)
         /\ Abstract!Strangers # Abstract!BlockedBy(u)
         /\ Abstract!Friends # Abstract!RequestedBy(u)
         /\ Abstract!Friends # Abstract!BlockedBy(u)
         /\ Abstract!RequestedBy(u) # Abstract!BlockedBy(v)
         /\ Abstract!RequestedBy(u) = Abstract!RequestedBy(v) => u = v
         /\ Abstract!BlockedBy(u) = Abstract!BlockedBy(v) => u = v
  <1> DEFINE k(x) == x.kind
             b(x) == x.by
  <1>1. /\ k(Abstract!Strangers) = "strangers" /\ k(Abstract!Friends) = "friends"
        /\ \A x : k(Abstract!RequestedBy(x)) = "requested" /\ b(Abstract!RequestedBy(x)) = x
        /\ \A x : k(Abstract!BlockedBy(x)) = "blocked" /\ b(Abstract!BlockedBy(x)) = x
    BY DEF Abstract!Strangers, Abstract!Friends, Abstract!RequestedBy, Abstract!BlockedBy
  <1> HIDE DEF k, b
  <1>q. QED BY <1>1

LEMMA VerdictOfNone == Verdict({}) = Abstract!Strangers
  BY DEF Verdict, Abstract!Strangers

LEMMA VerdictOfOne ==
  ASSUME NEW views, NEW v \in views, \A w \in views : w = v
  PROVE  Verdict(views) = v
  BY DEF Verdict

(* The relation of two users is what any of their rows says.                *)
LEMMA RelationIsView ==
  ASSUME RowsAgree, NEW c
  PROVE  /\ RowsOf(c) = {} => RelationOf(c) = Abstract!Strangers
         /\ \A id \in RowsOf(c) : RelationOf(c) = View(rows[id])
  <1>1. ASSUME RowsOf(c) = {} PROVE RelationOf(c) = Abstract!Strangers
    BY <1>1, VerdictOfNone DEF RelationOf, Views
  <1>2. ASSUME NEW id \in RowsOf(c) PROVE RelationOf(c) = View(rows[id])
    <2>1. View(rows[id]) \in Views(c) /\ \A w \in Views(c) : w = View(rows[id])
      BY DEF Views, RowsOf, RowsAgree
    <2>q. QED BY <2>1, VerdictOfOne DEF RelationOf
  <1>q. QED BY <1>1, <1>2

(* The rows of two users go from one of them to the other.                  *)
LEMMA RowsOfTwo ==
  ASSUME NEW a, NEW b, a # b
  PROVE  RowsOf({a, b}) = RowsFromTo(a, b) \cup RowsFromTo(b, a)
  BY DEF RowsOf, RowsFromTo, CoupleOf

(* A couple none of whose rows changes, appears or disappears stands as it  *)
(* stood.                                                                   *)
LEMMA CoupleStays ==
  ASSUME NEW c,
         \A id \in RowIds : rows'[id] # rows[id] =>
           (Exists(id) => CoupleOf(id) # c) /\ (Exists(id)' => CoupleOf(id)' # c)
  PROVE  /\ RowsOf(c)' = RowsOf(c)
         /\ \A id \in RowsOf(c) : rows'[id] = rows[id]
         /\ RelationOf(c)' = RelationOf(c)
  <1>1. RowsOf(c)' = RowsOf(c) /\ \A id \in RowsOf(c) : rows'[id] = rows[id]
    BY DEF RowsOf, Exists, CoupleOf
  <1>2. Views(c)' = Views(c)
    BY <1>1 DEF Views
  <1>q. QED BY <1>1, <1>2 DEF RelationOf

(* A step that leaves rows alone leaves all relations alone.                *)
LEMMA RowsStay ==
  ASSUME UNCHANGED rows
  PROVE  /\ \A c : RowsOf(c)' = RowsOf(c) /\ RelationOf(c)' = RelationOf(c)
         /\ \A a, b : RowsFromTo(a, b)' = RowsFromTo(a, b)
         /\ RowsAgree => RowsAgree'
         /\ OfTwoUsers => OfTwoUsers'
  <1>1. ASSUME NEW c PROVE RowsOf(c)' = RowsOf(c) /\ RelationOf(c)' = RelationOf(c)
    BY CoupleStays
  <1>q. QED BY <1>1 DEF RowsFromTo, Exists, RowsAgree, OfTwoUsers, CoupleOf

(* The rows a step has changed are rows of c, before and after.             *)
ChangedWithin(c) ==
  \A id \in RowIds : rows'[id] # rows[id] =>
    (Exists(id) => CoupleOf(id) = c) /\ (Exists(id)' => CoupleOf(id)' = c)

(* A commit after which all rows of c say v, or none is left, is a move of  *)
(* c and of no other couple.                                                *)
LEMMA CoupleMoves ==
  ASSUME RowsAgree, OfTwoUsers, NEW c \in TwoUsers, NEW v, ChangedWithin(c),
         \A id \in RowIds : Exists(id)' /\ CoupleOf(id)' = c => View(rows'[id]) = v
  PROVE  /\ RowsAgree'
         /\ OfTwoUsers'
         /\ \A d : d # c => RelationOf(d)' = RelationOf(d)
         /\ RowsOf(c)' = {} => RelationOf(c)' = Abstract!Strangers
         /\ RowsOf(c)' # {} => RelationOf(c)' = v
  <1>1. ASSUME NEW d, d # c
        PROVE  /\ RowsOf(d)' = RowsOf(d) /\ RelationOf(d)' = RelationOf(d)
               /\ \A id \in RowsOf(d) : rows'[id] = rows[id]
    <2>1. \A id \in RowIds : rows'[id] # rows[id] =>
            (Exists(id) => CoupleOf(id) # d) /\ (Exists(id)' => CoupleOf(id)' # d)
      BY <1>1 DEF ChangedWithin
    <2>q. QED BY <2>1, CoupleStays
  <1>2. RowsAgree'
    <2> SUFFICES ASSUME NEW id \in RowIds, NEW i \in RowIds, Exists(id)', Exists(i)',
                        CoupleOf(id)' = CoupleOf(i)'
                 PROVE  View(rows'[id]) = View(rows'[i])
      BY DEF RowsAgree
    <2>1. CASE CoupleOf(id)' = c
      BY <2>1
    <2>2. CASE CoupleOf(id)' # c
      <3>1. PICK d : d = CoupleOf(id)'
        OBVIOUS
      <3>2. id \in RowsOf(d)' /\ i \in RowsOf(d)' /\ d # c
        BY <2>2, <3>1 DEF RowsOf
      <3>3. id \in RowsOf(d) /\ i \in RowsOf(d) /\ rows'[id] = rows[id] /\ rows'[i] = rows[i]
        BY <1>1, <3>2
      <3>q. QED BY <3>3 DEF RowsOf, RowsAgree
    <2>q. QED BY <2>1, <2>2
  <1>3. OfTwoUsers'
    BY DEF OfTwoUsers, ChangedWithin, Exists, CoupleOf, TwoUsers
  <1>4. Views(c)' = {View(rows'[id]) : id \in RowsOf(c)'}
    BY DEF Views
  <1>5. ASSUME RowsOf(c)' = {} PROVE RelationOf(c)' = Abstract!Strangers
    BY <1>4, <1>5, VerdictOfNone DEF RelationOf
  <1>6. ASSUME RowsOf(c)' # {} PROVE RelationOf(c)' = v
    <2>1. \A id \in RowsOf(c)' : View(rows'[id]) = v
      BY DEF RowsOf
    <2>2. v \in Views(c)' /\ \A w \in Views(c)' : w = v
      BY <1>4, <1>6, <2>1
    <2>3. Verdict(Views(c)') = v
      BY <2>2, VerdictOfOne
    <2>q. QED BY <2>3 DEF RelationOf
  <1>q. QED BY <1>1, <1>2, <1>3, <1>5, <1>6

(* The users of a request that is past its check are two.                   *)
LEMMA CheckedCouple ==
  ASSUME TypeOK, RequestsInOrder, NEW r \in Requests, Checked(r) \/ Finding(r, req[r].op),
         pc[r] # "idle"
  PROVE  /\ req[r].me \in Users /\ req[r].other \in Users /\ req[r].me # req[r].other
         /\ CoupleOfRequest(r) \in TwoUsers
         /\ SenderId(r) # ReceiverId(r) /\ CoupleOfRequest(r) = {SenderId(r), ReceiverId(r)}
         /\ RowsOf(CoupleOfRequest(r)) = RowsFromTo(req[r].me, req[r].other)
                                           \cup RowsFromTo(req[r].other, req[r].me)
         /\ RowsOf(CoupleOfRequest(r)) = RowsFromTo(SenderId(r), ReceiverId(r))
                                           \cup RowsFromTo(ReceiverId(r), SenderId(r))
  <1>1. req[r].me \in Users /\ req[r].other \in Users /\ req[r].me # req[r].other
    BY DEF TypeOK, RequestSet, RequestsInOrder, Checked, Finding
  <1>2. CoupleOfRequest(r) \in TwoUsers
    BY <1>1 DEF CoupleOfRequest, TwoUsers
  <1>3. SenderId(r) # ReceiverId(r) /\ CoupleOfRequest(r) = {SenderId(r), ReceiverId(r)}
    BY <1>1 DEF CoupleOfRequest, SenderId, ReceiverId
  <1>q. QED BY <1>1, <1>2, <1>3, RowsOfTwo DEF CoupleOfRequest
(* The first SELECT tells how the two users stand.                          *)
LEMMA CheckFinds ==
  ASSUME TypeOK, RequestsInOrder, MirrorsExist, RowsAgree, NEW r \in Requests,
         Finding(r, req[r].op), NEW status \in FindFriendEntity(r)
  PROVE  LET me == req[r].me
             other == req[r].other
             relation == RelationOf(CoupleOfRequest(r))
         IN  /\ status \in Statuses \cup {"null"}
             /\ status = "null" => relation = Abstract!Strangers
             /\ status = "WAITING_FOR_CURRENT_USER_RESPONSE" => relation = Abstract!RequestedBy(me)
             /\ status = "PENDING" => relation = Abstract!RequestedBy(other)
             /\ status = "ACCEPTED" => relation = Abstract!Friends
             /\ status = "BLOCKED_BY_ME" => relation = Abstract!BlockedBy(me)
             /\ status = "BLOCKED_BY_OTHER_USER" => relation = Abstract!BlockedBy(other)
  <1>0. pc[r] # "idle"
    BY DEF Finding
  <1> DEFINE c == CoupleOfRequest(r)
             found == RowsFromTo(req[r].me, req[r].other)
  <1>1. RowsOf(c) = found \cup RowsFromTo(req[r].other, req[r].me)
    BY <1>0, CheckedCouple
  <1>2. CASE found = {}
    <2>1. ASSUME NEW id \in RowsFromTo(req[r].other, req[r].me) PROVE FALSE
      <3>1. Mirror(id) \in found
        BY MirrorFacts DEF RowsFromTo, MirrorsExist
      <3>q. QED BY <1>2, <3>1
    <2>2. RowsOf(c) = {}
      BY <1>1, <1>2, <2>1
    <2>3. status = "null"
      BY <1>2 DEF FindFriendEntity
    <2>q. QED BY <2>2, <2>3, RelationIsView
  <1>3. CASE found # {}
    <2>1. PICK id \in found : status = rows[id].status
      BY <1>3 DEF FindFriendEntity
    <2>2. RelationOf(c) = View(rows[id])
      BY <1>1, <2>1, RelationIsView
    <2>3. /\ rows[id].sender = req[r].me /\ rows[id].receiver = req[r].other
          /\ rows[id].status \in Statuses
      BY <2>1 DEF RowsFromTo, TypeOK, Exists, Row
    <2>q. QED BY <2>1, <2>2, <2>3, ViewByStatus DEF Statuses
  <1>q. QED BY <1>2, <1>3

(* A request that has not made its check yet, or is over, owes nothing.     *)
LEMMA UncheckedOwesNothing ==
  ASSUME NEW r \in Requests, ~Checked(r)
  PROVE  CheckHolds(r) /\ CoversCouple(r)
  BY DEF Checked, CheckHolds, CoversCouple

LEMMA RowsOfCoupleStay ==
  ASSUME NEW a, NEW b, RowsOf({a, b})' = RowsOf({a, b}),
         \A id \in RowsOf({a, b}) : rows'[id] = rows[id]
  PROVE  RowsFromTo(a, b)' = RowsFromTo(a, b) /\ RowsFromTo(b, a)' = RowsFromTo(b, a)
  <1>1. ASSUME NEW from, NEW to, {from, to} = {a, b}
        PROVE  \A id : id \in RowsFromTo(from, to)' <=> id \in RowsFromTo(from, to)
    <2>1. \A id : id \in RowsFromTo(from, to) <=>
            id \in RowsOf({a, b}) /\ rows[id].sender = from /\ rows[id].receiver = to
      BY <1>1 DEF RowsFromTo, RowsOf, CoupleOf
    <2>2. \A id : id \in RowsFromTo(from, to)' <=>
            id \in RowsOf({a, b})' /\ rows'[id].sender = from /\ rows'[id].receiver = to
      BY <1>1 DEF RowsFromTo, RowsOf, CoupleOf
    <2>q. QED BY <2>1, <2>2
  <1>2. \A id : id \in RowsFromTo(a, b)' <=> id \in RowsFromTo(a, b)
    BY <1>1
  <1>3. \A id : id \in RowsFromTo(b, a)' <=> id \in RowsFromTo(b, a)
    BY <1>1
  <1>q. QED BY <1>2, <1>3 DEF RowsFromTo

(* What a request checked and has written so far is disturbed by no step of *)
(* a request about another couple.                                          *)
LEMMA OthersUndisturbed ==
  ASSUME TypeOK, RequestsInOrder, OnePerCouple, ChecksHold, CouplesCovered, NEW r \in Requests,
         \A q \in Requests \ {r} : /\ pc'[q] = pc[q] /\ req'[q] = req[q]
                                   /\ todo'[q] = todo[q] /\ writes'[q] = writes[q],
         \/ UNCHANGED rows
         \/ Checked(r) /\ ChangedWithin(CoupleOfRequest(r)),
         NEW q \in Requests \ {r}
  PROVE  CheckHolds(q)' /\ CoversCouple(q)'
  <1>1. CASE ~Checked(q)
    BY <1>1 DEF Checked, CheckHolds, CoversCouple
  <1>2. CASE Checked(q)
    <2>1. PICK c, a, b : c = CoupleOfRequest(q) /\ a = SenderId(q) /\ b = ReceiverId(q)
      OBVIOUS
    <2>2. \A id \in RowIds : rows'[id] # rows[id] =>
            (Exists(id) => CoupleOf(id) # c) /\ (Exists(id)' => CoupleOf(id)' # c)
      BY <1>2, <2>1 DEF OnePerCouple, ChangedWithin
    <2>3. /\ RowsOf(c)' = RowsOf(c) /\ \A id \in RowsOf(c) : rows'[id] = rows[id]
          /\ RelationOf(c)' = RelationOf(c)
      BY <2>2, CoupleStays
    <2>4. pc'[q] = pc[q] /\ req'[q] = req[q] /\ todo'[q] = todo[q] /\ writes'[q] = writes[q]
      OBVIOUS
    <2>5. CheckHolds(q)'
      BY <2>1, <2>3, <2>4 DEF ChecksHold, CheckHolds, CoupleOfRequest
    <2>6. SenderId(q)' = a /\ ReceiverId(q)' = b
      BY <2>1, <2>4 DEF SenderId, ReceiverId
    <2>7. c = {a, b} /\ \A id \in RowIds : Reaches(q, id)' <=> Reaches(q, id)
      BY <1>2, <2>1, <2>4, CheckedCouple DEF Checked, Reaches, Wrote
    <2>8. RowsFromTo(a, b)' = RowsFromTo(a, b) /\ RowsFromTo(b, a)' = RowsFromTo(b, a)
      BY <2>3, <2>7, RowsOfCoupleStay
    <2>9. CoupleOfRequest(q)' = c
      BY <2>1, <2>4 DEF CoupleOfRequest
    <2>10. CoversCouple(q)
      BY DEF CouplesCovered
    <2>11. CoversCouple(q)'
      <3>1. pc[q] = "firstRows" => \A id \in RowsFromTo(a, b) : Reaches(q, id)'
        BY <2>1, <2>7, <2>10 DEF CoversCouple, RowsFromTo
      <3>2. pc[q] = "secondRows" => /\ \A id \in RowsFromTo(a, b) : Wrote(q, id)'
                                    /\ \A id \in RowsFromTo(b, a) : Reaches(q, id)'
        BY <2>1, <2>4, <2>7, <2>10 DEF CoversCouple, RowsFromTo, Wrote
      <3>3. pc[q] \in {"removeRows", "commitRemove"} =>
              \A id \in RowIds : Reaches(q, id)' <=> id \in RowsOf(c)
        BY <2>1, <2>7, <2>10 DEF CoversCouple
      <3>q. QED BY <2>3, <2>4, <2>6, <2>8, <2>9, <3>1, <3>2, <3>3 DEF CoversCouple
    <2>q. QED BY <2>5, <2>11
  <1>q. QED BY <1>1, <1>2
(* A step that commits nothing is allowed when its request still has what   *)
(* its check found and has covered what its statements are done with.       *)
LEMMA QuietStep ==
  ASSUME TypeOK, RequestsInOrder, ExclusiveInv, OnePerCouple', NEW r \in Requests,
         \A q \in Requests \ {r} : /\ pc'[q] = pc[q] /\ req'[q] = req[q]
                                   /\ todo'[q] = todo[q] /\ writes'[q] = writes[q],
         UNCHANGED rows, CheckHolds(r)', CoversCouple(r)'
  PROVE  Allowed
  <1>1. ChecksHold' /\ CouplesCovered'
    BY OthersUndisturbed DEF ExclusiveInv, ChecksHold, CouplesCovered
  <1>2. RowsAgree' /\ OfTwoUsers'
    BY RowsStay DEF ExclusiveInv
  <1>3. relationBar' = relationBar
    BY RowsStay DEF relationBar
  <1>q. QED BY <1>1, <1>2, <1>3 DEF Allowed, ExclusiveInv

LEMMA QuietEnd ==
  ASSUME TypeOK, RequestsInOrder, ExclusiveInv, OnePerCouple', NEW r \in Requests,
         \A q \in Requests \ {r} : /\ pc'[q] = pc[q] /\ req'[q] = req[q]
                                   /\ todo'[q] = todo[q] /\ writes'[q] = writes[q],
         UNCHANGED rows, pc'[r] \in {"idle", "find"}
  PROVE  Allowed
  <1>1. CheckHolds(r)' /\ CoversCouple(r)'
    BY DEF CheckHolds, CoversCouple
  <1>q. QED BY <1>1, QuietStep

LEMMA FinishEnds ==
  ASSUME TypeOK, NEW r \in Requests, Finish(r)
  PROVE  /\ \A q \in Requests \ {r} : /\ pc'[q] = pc[q] /\ req'[q] = req[q]
                                     /\ todo'[q] = todo[q] /\ writes'[q] = writes[q]
         /\ pc'[r] = "idle"
  BY DEF Finish, Go, TypeOK

LEMMA RefuseAllowed ==
  ASSUME TypeOK, RequestsInOrder, ExclusiveInv, OnePerCouple', NEW r \in Requests,
         Finish(r), UNCHANGED rows
  PROVE  Allowed
  BY FinishEnds, QuietEnd

(* A request goes on from its check: the check found what the next step     *)
(* relies on.                                                               *)
LEMMA ContinueAllowed ==
  ASSUME TypeOK, RequestsInOrder, ExclusiveInv, OnePerCouple', NEW r \in Requests,
         NEW step \in {"save", "update", "select"}, Continue(r, step),
         LET me == req[r].me
             other == req[r].other
             relation == RelationOf(CoupleOfRequest(r))
         IN  \/ step = "save" /\ relation = Abstract!Strangers
             \/ /\ step = "update" /\ req[r].op = "accept"
                /\ relation = Abstract!RequestedBy(other)
             \/ /\ step = "update" /\ req[r].op # "accept"
                /\ relation # Abstract!Strangers /\ relation # Abstract!BlockedBy(other)
             \/ /\ step = "select"
                /\ \/ req[r].op = "cancel" /\ relation = Abstract!RequestedBy(me)
                   \/ req[r].op = "unblock" /\ relation = Abstract!BlockedBy(me)
                   \/ req[r].op = "unfriend" /\ relation = Abstract!Friends
  PROVE  Allowed
  <1>1. \A q \in Requests \ {r} : /\ pc'[q] = pc[q] /\ req'[q] = req[q]
                                  /\ todo'[q] = todo[q] /\ writes'[q] = writes[q]
    BY DEF Continue, Go, TypeOK
  <1>2. pc'[r] = step /\ UNCHANGED <<rows, req>>
    BY DEF Continue, Go, TypeOK
  <1>3. PICK me, other : me = req[r].me /\ other = req[r].other
    OBVIOUS
  <1>4. RelationOf({me, other})' = RelationOf({me, other})
    BY <1>2, RowsStay
  <1>5. CoupleOfRequest(r) = {me, other}
    BY <1>3 DEF CoupleOfRequest
  <1>6. CheckHolds(r)'
    BY <1>2, <1>3, <1>4, <1>5 DEF CheckHolds
  <1>7. CoversCouple(r)'
    BY <1>2 DEF CoversCouple
  <1>q. QED BY <1>1, <1>2, <1>6, <1>7, QuietStep

(* The handlers' reactions to their first SELECT.                           *)
LEMMA CheckAllowed ==
  ASSUME TypeOK, RequestsInOrder, MirrorsExist, ExclusiveInv, OnePerCouple', NEW r \in Requests,
         \/ SendFriendRequest(r) \/ AcceptFriendRequest(r) \/ CancelSentFriendRequest(r)
         \/ BlockFriend(r) \/ UnblockFriend(r) \/ UnFriend(r)
  PROVE  Allowed
  <1> DEFINE me == req[r].me
             other == req[r].other
             relation == RelationOf(CoupleOfRequest(r))
  <1>1. Finding(r, req[r].op) /\ pc[r] = "find"
    BY DEF SendFriendRequest, AcceptFriendRequest, CancelSentFriendRequest, BlockFriend,
           UnblockFriend, UnFriend, Finding
  <1>2. \A status \in FindFriendEntity(r) :
             /\ status \in Statuses \cup {"null"}
             /\ status = "null" => relation = Abstract!Strangers
             /\ status = "WAITING_FOR_CURRENT_USER_RESPONSE" => relation = Abstract!RequestedBy(me)
             /\ status = "PENDING" => relation = Abstract!RequestedBy(other)
             /\ status = "ACCEPTED" => relation = Abstract!Friends
             /\ status = "BLOCKED_BY_ME" => relation = Abstract!BlockedBy(me)
             /\ status = "BLOCKED_BY_OTHER_USER" => relation = Abstract!BlockedBy(other)
    BY <1>1, CheckFinds DEF ExclusiveInv
  <1>3. me # other
    BY <1>1 DEF Finding
  <1>4. ASSUME Refuse(r) PROVE Allowed
    BY <1>4, RefuseAllowed DEF Refuse
  <1>5. CASE SendFriendRequest(r)
    <2>1. req[r].op = "send"
      BY <1>5 DEF SendFriendRequest, Finding
    <2>2. PICK status \in FindFriendEntity(r) :
            \/ status = "null" /\ Continue(r, "save")
            \/ /\ status = "PENDING" /\ req' = [req EXCEPT ![r].op = "accept"]
               /\ UNCHANGED <<rows, pc, todo, writes>>
            \/ Refuse(r)
      BY <1>5 DEF SendFriendRequest
    <2>3. CASE status = "null" /\ Continue(r, "save")
      BY <1>2, <2>3, ContinueAllowed
    <2>4. CASE /\ req' = [req EXCEPT ![r].op = "accept"]
               /\ UNCHANGED <<rows, pc, todo, writes>>
      <3>1. \A q \in Requests \ {r} : req'[q] = req[q]
        BY <2>4 DEF TypeOK
      <3>q. QED BY <1>1, <2>4, <3>1, QuietEnd
    <2>q. QED BY <1>4, <2>2, <2>3, <2>4
  <1>6. CASE AcceptFriendRequest(r)
    <2>1. PICK status \in FindFriendEntity(r) :
            \/ req[r].op = "accept" /\ status = "PENDING" /\ Continue(r, "update")
            \/ Refuse(r)
      BY <1>6 DEF AcceptFriendRequest, Finding
    <2>q. QED BY <1>2, <1>4, <2>1, ContinueAllowed
  <1>7. CASE CancelSentFriendRequest(r)
    <2>1. PICK status \in FindFriendEntity(r) :
            \/ /\ req[r].op = "cancel" /\ status = "WAITING_FOR_CURRENT_USER_RESPONSE"
               /\ Continue(r, "select")
            \/ Refuse(r)
      BY <1>7 DEF CancelSentFriendRequest, Finding
    <2>q. QED BY <1>2, <1>4, <2>1, ContinueAllowed
  <1>8. CASE BlockFriend(r)
    <2>1. PICK status \in FindFriendEntity(r) :
            \/ status = "null" /\ Continue(r, "save")
            \/ Refuse(r)
            \/ /\ req[r].op = "block" /\ status \notin {"null", "BLOCKED_BY_OTHER_USER"}
               /\ Continue(r, "update")
      BY <1>8 DEF BlockFriend, Finding
    <2>2. CASE status = "null" /\ Continue(r, "save")
      BY <1>2, <2>2, ContinueAllowed
    <2>3. CASE /\ req[r].op = "block" /\ status \notin {"null", "BLOCKED_BY_OTHER_USER"}
               /\ Continue(r, "update")
      <3>1. status \in {"WAITING_FOR_CURRENT_USER_RESPONSE", "PENDING", "ACCEPTED",
                        "BLOCKED_BY_ME"}
        BY <1>2, <2>3 DEF Statuses
      <3>2. relation # Abstract!Strangers /\ relation # Abstract!BlockedBy(other)
        BY <1>2, <1>3, <3>1, RelationsDiffer
      <3>q. QED BY <2>3, <3>2, ContinueAllowed
    <2>q. QED BY <1>4, <2>1, <2>2, <2>3
  <1>9. CASE UnblockFriend(r)
    <2>1. PICK status \in FindFriendEntity(r) :
            \/ req[r].op = "unblock" /\ status = "BLOCKED_BY_ME" /\ Continue(r, "select")
            \/ Refuse(r)
      BY <1>9 DEF UnblockFriend, Finding
    <2>q. QED BY <1>2, <1>4, <2>1, ContinueAllowed
  <1>10. CASE UnFriend(r)
    <2>1. PICK status \in FindFriendEntity(r) :
            \/ req[r].op = "unfriend" /\ status = "ACCEPTED" /\ Continue(r, "select")
            \/ Refuse(r)
      BY <1>10 DEF UnFriend, Finding
    <2>q. QED BY <1>2, <1>4, <2>1, ContinueAllowed
  <1>q. QED BY <1>5, <1>6, <1>7, <1>8, <1>9, <1>10
(* A request that goes on inside its transaction, on the same side of its   *)
(* commit, still has what its check found.                                  *)
LEMMA CheckStillHolds ==
  ASSUME ExclusiveInv, NEW r \in Requests, UNCHANGED rows, req'[r] = req[r],
         \E stage \in {{"save", "commitSave"}, {"update", "firstRows", "secondRows"},
                       {"select", "removeRows", "commitRemove"}} :
           pc[r] \in stage /\ pc'[r] \in stage
  PROVE  CheckHolds(r)'
  <1>1. PICK me, other : me = req[r].me /\ other = req[r].other
    OBVIOUS
  <1>2. RelationOf({me, other})' = RelationOf({me, other})
    BY RowsStay
  <1>3. CheckHolds(r)
    BY DEF ExclusiveInv, ChecksHold
  <1>q. QED BY <1>1, <1>2, <1>3 DEF CheckHolds

LEMMA InsertAllowed ==
  ASSUME TypeOK, RequestsInOrder, ExclusiveInv, OnePerCouple', NEW r \in Requests,
         NEW p \in Pairs, CreateFriendRequestRelations(r, p)
  PROVE  Allowed
  <1>1. CASE Refuse(r)
    BY <1>1, RefuseAllowed DEF Refuse
  <1>2. CASE ~Refuse(r)
    <2>1. /\ pc[r] = "save" /\ pc'[r] = "commitSave" /\ UNCHANGED <<rows, req, todo>>
          /\ \A q \in Requests \ {r} : pc'[q] = pc[q] /\ writes'[q] = writes[q]
      BY <1>2 DEF CreateFriendRequestRelations, Go, TypeOK
    <2>2. CheckHolds(r)' /\ CoversCouple(r)'
      BY <2>1, CheckStillHolds DEF CoversCouple
    <2>q. QED BY <2>1, <2>2, QuietStep
  <1>q. QED BY <1>1, <1>2

(* A statement starts with all the rows its condition selects.              *)
LEMMA StartAllowed ==
  ASSUME TypeOK, RequestsInOrder, ExclusiveInv, OnePerCouple', NEW r \in Requests,
         FirstUpdate(r) \/ SecondUpdate(r) \/ SelectForRemoval(r)
  PROVE  Allowed
  <1>1. /\ \A q \in Requests \ {r} : /\ pc'[q] = pc[q] /\ req'[q] = req[q]
                                    /\ todo'[q] = todo[q] /\ writes'[q] = writes[q]
        /\ UNCHANGED <<rows, req, writes>>
    BY DEF FirstUpdate, SecondUpdate, SelectForRemoval, StartStatement, Go, TypeOK
  <1>2. Checked(r) /\ pc[r] # "idle"
    BY DEF FirstUpdate, SecondUpdate, SelectForRemoval, Checked
  <1>3. PICK a, b, c : a = SenderId(r) /\ b = ReceiverId(r) /\ c = CoupleOfRequest(r)
    OBVIOUS
  <1>4. SenderId(r)' = a /\ ReceiverId(r)' = b /\ CoupleOfRequest(r)' = c
    BY <1>1, <1>3 DEF SenderId, ReceiverId, CoupleOfRequest
  <1>5. /\ RowsFromTo(a, b)' = RowsFromTo(a, b) /\ RowsFromTo(b, a)' = RowsFromTo(b, a)
        /\ RowsOf(c)' = RowsOf(c)
    BY <1>1, RowsStay
  <1>6. \A id \in RowIds : Wrote(r, id)' <=> Wrote(r, id)
    BY <1>1 DEF Wrote
  <1>7. CoversCouple(r)
    BY DEF ExclusiveInv, CouplesCovered
  <1>8. CASE FirstUpdate(r)
    <2>1. pc[r] = "update" /\ pc'[r] = "firstRows" /\ todo'[r] = RowsFromTo(a, b)
      BY <1>3, <1>8 DEF FirstUpdate, StartStatement, Go, TypeOK
    <2>2. CoversCouple(r)'
      BY <1>4, <1>5, <2>1 DEF CoversCouple, Reaches
    <2>3. CheckHolds(r)'
      BY <1>1, <2>1, CheckStillHolds
    <2>q. QED BY <1>1, <2>2, <2>3, QuietStep
  <1>9. CASE SecondUpdate(r)
    <2>1. /\ pc[r] = "firstRows" /\ pc'[r] = "secondRows" /\ todo[r] = {}
          /\ todo'[r] = RowsFromTo(b, a)
      BY <1>3, <1>9 DEF SecondUpdate, StartStatement, Go, TypeOK
    <2>2. \A id \in RowsFromTo(a, b) : id \in RowIds /\ Wrote(r, id)
      BY <1>3, <1>7, <2>1 DEF CoversCouple, Reaches, RowsFromTo
    <2>3. CoversCouple(r)'
      BY <1>4, <1>5, <1>6, <2>1, <2>2 DEF CoversCouple, Reaches
    <2>4. CheckHolds(r)'
      BY <1>1, <2>1, CheckStillHolds
    <2>q. QED BY <1>1, <2>3, <2>4, QuietStep
  <1>10. CASE SelectForRemoval(r)
    <2>1. /\ pc[r] = "select" /\ pc'[r] = "removeRows"
          /\ todo'[r] = RowsFromTo(req[r].me, req[r].other) \cup RowsFromTo(req[r].other, req[r].me)
      BY <1>10 DEF SelectForRemoval, StartStatement, Go, TypeOK
    <2>2. todo'[r] = RowsOf(c)
      BY <1>2, <1>3, <2>1, CheckedCouple
    <2>3. \A id \in RowIds : ~Wrote(r, id)
      BY <2>1 DEF RequestsInOrder, Wrote, NoWrites
    <2>4. CoversCouple(r)'
      BY <1>4, <1>5, <1>6, <2>1, <2>2, <2>3 DEF CoversCouple, Reaches
    <2>5. CheckHolds(r)'
      BY <1>1, <2>1, CheckStillHolds
    <2>q. QED BY <1>1, <2>4, <2>5, QuietStep
  <1>q. QED BY <1>8, <1>9, <1>10

(* A statement reaches a row: the row is written, or gone.                  *)
LEMMA WriteAllowed ==
  ASSUME TypeOK, RequestsInOrder, ExclusiveInv, OnePerCouple', NEW r \in Requests,
         NEW i \in RowIds, UpdateRow(r, i) \/ RemoveRow(r, i)
  PROVE  Allowed
  <1>1. pc[r] \in {"firstRows", "secondRows", "removeRows"} /\ Checked(r) /\ pc[r] # "idle"
    BY DEF UpdateRow, RemoveRow, Checked
  <1>2. PICK value : WriteRow(r, i, value) /\ (Exists(i) => value # Untouched)
    <2>1. ASSUME NEW status \in Statuses, Exists(i)
          PROVE  [rows[i] EXCEPT !.status = status] # Untouched
      <3>1. rows[i] \in Row
        BY <2>1 DEF Exists, TypeOK
      <3>2. [rows[i] EXCEPT !.status = status] \in Row
        BY <3>1 DEF Row
      <3>q. QED BY <3>2, FriendRequestAssumption
    <2>2. SenderFriendShipStatus(r) \in Statuses /\ ReceiverFriendShipStatus(r) \in Statuses
      BY DEF SenderFriendShipStatus, ReceiverFriendShipStatus, Statuses
    <2>q. QED BY <2>1, <2>2, FriendRequestAssumption DEF UpdateRow, RemoveRow
  <1>3. /\ todo'[r] = todo[r] \ {i} /\ UNCHANGED <<rows, req, pc>>
        /\ \A q \in Requests \ {r} : todo'[q] = todo[q] /\ writes'[q] = writes[q]
    BY <1>2 DEF WriteRow, TypeOK
  <1>4. \A id \in RowIds : Wrote(r, id)' <=> (Wrote(r, id) \/ (id = i /\ Exists(i)))
    <2>1. CASE Exists(i)
      <3>1. writes' = [writes EXCEPT ![r][i] = value]
        BY <1>2, <2>1 DEF WriteRow
      <3>q. QED BY <1>2, <2>1, <3>1 DEF TypeOK, Wrote
    <2>2. CASE ~Exists(i)
      BY <1>2, <2>2 DEF WriteRow, Wrote
    <2>q. QED BY <2>1, <2>2
  <1>5. \A id \in RowIds : Exists(id) => (Reaches(r, id)' <=> Reaches(r, id))
    <2>1. i \in todo[r]
      BY <1>2 DEF WriteRow
    <2>q. QED BY <1>3, <1>4, <2>1 DEF Reaches
  <1>6. PICK a, b, c : a = SenderId(r) /\ b = ReceiverId(r) /\ c = CoupleOfRequest(r)
    OBVIOUS
  <1>7. SenderId(r)' = a /\ ReceiverId(r)' = b /\ CoupleOfRequest(r)' = c
    BY <1>3, <1>6 DEF SenderId, ReceiverId, CoupleOfRequest
  <1>8. /\ RowsFromTo(a, b)' = RowsFromTo(a, b) /\ RowsFromTo(b, a)' = RowsFromTo(b, a)
        /\ RowsOf(c)' = RowsOf(c)
    BY <1>3, RowsStay
  <1>9. CoversCouple(r)
    BY DEF ExclusiveInv, CouplesCovered
  <1>10. CASE pc[r] = "removeRows"
    <2>1. \A id \in RowIds : Reaches(r, id) <=> id \in RowsOf(c)
      BY <1>6, <1>9, <1>10 DEF CoversCouple
    <2>2. i \in RowsOf(c)
      BY <1>2, <2>1 DEF WriteRow, Reaches
    <2>3. \A id \in RowIds : ~Exists(id) => (Reaches(r, id)' <=> Reaches(r, id))
      BY <1>3, <1>4, <2>2 DEF Reaches, RowsOf
    <2>4. CoversCouple(r)'
      BY <1>3, <1>5, <1>7, <1>8, <1>10, <2>1, <2>3 DEF CoversCouple
    <2>5. CheckHolds(r)'
      BY <1>3, <1>10, CheckStillHolds
    <2>q. QED BY <1>3, <2>4, <2>5, QuietStep
  <1>11. CASE pc[r] \in {"firstRows", "secondRows"}
    <2>1. \A id \in RowsFromTo(a, b) \cup RowsFromTo(b, a) : id \in RowIds /\ Exists(id)
      BY DEF RowsFromTo
    <2>2. CoversCouple(r)'
      BY <1>3, <1>4, <1>5, <1>6, <1>7, <1>8, <1>9, <1>11, <2>1 DEF CoversCouple
    <2>3. CheckHolds(r)'
      BY <1>3, <1>11, CheckStillHolds
    <2>q. QED BY <1>3, <2>2, <2>3, QuietStep
  <1>q. QED BY <1>1, <1>10, <1>11

LEMMA EndRemovalAllowed ==
  ASSUME TypeOK, RequestsInOrder, ExclusiveInv, OnePerCouple', NEW r \in Requests, EndRemoval(r)
  PROVE  Allowed
  <1>1. /\ pc[r] = "removeRows" /\ pc'[r] = "commitRemove" /\ UNCHANGED <<rows, req, todo, writes>>
        /\ \A q \in Requests \ {r} : pc'[q] = pc[q]
    BY DEF EndRemoval, Go, TypeOK
  <1>2. CheckHolds(r)'
    BY <1>1, CheckStillHolds
  <1>3. PICK c : c = CoupleOfRequest(r)
    OBVIOUS
  <1>4. RowsOf(c)' = RowsOf(c) /\ CoupleOfRequest(r)' = c
    BY <1>1, <1>3, RowsStay DEF CoupleOfRequest
  <1>5. \A id \in RowIds : Reaches(r, id)' <=> Reaches(r, id)
    BY <1>1 DEF Reaches, Wrote
  <1>6. CoversCouple(r)'
    BY <1>1, <1>3, <1>4, <1>5 DEF ExclusiveInv, CouplesCovered, CoversCouple
  <1>q. QED BY <1>1, <1>2, <1>6, QuietStep
-----------------------------------------------------------------------------
(* When one couple's relation changes and no other's, the mapped relation   *)
(* changes at that couple.                                                  *)
LEMMA OneCoupleMoves ==
  ASSUME NEW c \in TwoUsers, NEW from, NEW to, RelationOf(c) = from, RelationOf(c)' = to,
         from # to, \A d : d # c => RelationOf(d)' = RelationOf(d)
  PROVE  /\ Abstract!Change(c, from, to)
         /\ Abstract!Move(c) => Abstract!Next
  <1>1. relationBar[c] = from /\ relationBar'[c] = to
    BY DEF relationBar
  <1>2. relationBar' = [relationBar EXCEPT ![c] = to]
    <2>1. \A d \in TwoUsers : relationBar'[d] = IF d = c THEN to ELSE relationBar[d]
      BY DEF relationBar
    <2>2. relationBar = [d \in TwoUsers |-> relationBar[d]]
      BY DEF relationBar
    <2>3. relationBar' = [d \in TwoUsers |-> relationBar'[d]]
      BY DEF relationBar
    <2>q. QED BY <2>1, <2>2, <2>3
  <1>3. Abstract!Change(c, from, to)
    BY <1>1, <1>2 DEF Abstract!Change, relationBar
  <1>4. Abstract!Move(c) => Abstract!Next
    BY <1>1 DEF Abstract!Next, Abstract!Couples, TwoUsers, relationBar
  <1>q. QED BY <1>3, <1>4

(* The end of a request whose commit changed the rows of its couple only    *)
(* keeps the invariant.                                                     *)
LEMMA CommitKeepsInv ==
  ASSUME TypeOK, RequestsInOrder, ExclusiveInv, OnePerCouple', NEW r \in Requests,
         Checked(r), Finish(r), NEW v, NEW c, c = CoupleOfRequest(r), ChangedWithin(c),
         \A id \in RowIds : Exists(id)' /\ CoupleOf(id)' = c => View(rows'[id]) = v
  PROVE  /\ ExclusiveInv'
         /\ c \in TwoUsers
         /\ \A d : d # c => RelationOf(d)' = RelationOf(d)
         /\ RowsOf(c)' = {} => RelationOf(c)' = Abstract!Strangers
         /\ RowsOf(c)' # {} => RelationOf(c)' = v
  <1>1. c \in TwoUsers
    BY CheckedCouple DEF Checked
  <1>2. /\ RowsAgree' /\ OfTwoUsers'
        /\ \A d : d # c => RelationOf(d)' = RelationOf(d)
        /\ RowsOf(c)' = {} => RelationOf(c)' = Abstract!Strangers
        /\ RowsOf(c)' # {} => RelationOf(c)' = v
    BY <1>1, CoupleMoves DEF ExclusiveInv
  <1>3. ASSUME NEW q \in Requests PROVE CheckHolds(q)' /\ CoversCouple(q)'
    <2>1. CASE q = r
      <3>1. pc'[r] = "idle"
        BY FinishEnds
      <3>q. QED BY <2>1, <3>1 DEF CheckHolds, CoversCouple
    <2>2. CASE q # r
      BY <2>2, FinishEnds, OthersUndisturbed DEF ExclusiveInv
    <2>q. QED BY <2>1, <2>2
  <1>q. QED BY <1>1, <1>2, <1>3 DEF ExclusiveInv, ChecksHold, CouplesCovered

(* Saving makes strangers one who asks and one who is asked, or one who     *)
(* blocks and one who is blocked.                                           *)
LEMMA CommitSaveAllowed ==
  ASSUME TypeOK, RequestsInOrder, InsertsInOrder, ExclusiveInv, OnePerCouple',
         NEW r \in Requests, pc[r] = "commitSave", Commit(r), Finish(r)
  PROVE  Allowed
  <1>1. PICK p \in Pairs : InsertInOrder(r, p)
    BY DEF InsertsInOrder
  <1> DEFINE s == <<p, "sender">>
             t == <<p, "receiver">>
  <1>2. s \in RowIds /\ t \in RowIds
    BY DEF RowIds
  <1>3. Insertion(r, p, s) \in Row /\ Insertion(r, p, t) \in Row
    BY InsertionInserts DEF RequestsInOrder
  <1>4. PICK me, other, c : me = req[r].me /\ other = req[r].other /\ c = CoupleOfRequest(r)
    OBVIOUS
  <1>5. /\ rows'[s] = [sender |-> me, receiver |-> other, status |-> MyNewStatus(r)]
        /\ rows'[t] = [sender |-> other, receiver |-> me, status |-> OthersNewStatus(r)]
    BY <1>1, <1>2, <1>3, <1>4, FriendRequestAssumption DEF Commit, InsertInOrder, Insertion
  <1>6. \A id \in RowIds \ {s, t} : rows'[id] = rows[id]
    BY <1>1 DEF Commit, InsertInOrder, Insertion
  <1>7. ~Exists(s) /\ ~Exists(t)
    BY <1>1 DEF InsertInOrder
  <1>8. Checked(r) /\ me # other /\ c = {me, other} /\ req[r].op \in {"send", "block"}
    BY <1>4 DEF Checked, RequestsInOrder, CoupleOfRequest
  <1>9. PICK v : v = IF req[r].op = "block" THEN Abstract!BlockedBy(me)
                     ELSE Abstract!RequestedBy(me)
    OBVIOUS
  <1>10. View(rows'[s]) = v /\ View(rows'[t]) = v
    BY <1>5, <1>9, ViewByStatus DEF MyNewStatus, OthersNewStatus
  <1>11. RelationOf(c) = Abstract!Strangers
    BY <1>4, <1>8 DEF ExclusiveInv, ChecksHold, CheckHolds
  <1>12. \A id \in RowIds : ~(Exists(id) /\ CoupleOf(id) = c)
    <2>1. ASSUME NEW id \in RowsOf(c) PROVE FALSE
      <3>1. View(rows[id]) = Abstract!Strangers
        BY <1>11, <2>1, RelationIsView DEF ExclusiveInv
      <3>2. rows[id] \in Row
        BY <2>1 DEF RowsOf, Exists, TypeOK
      <3>q. QED BY <3>1, <3>2, ViewByStatus, RelationsDiffer DEF Row, Statuses
    <2>q. QED BY <2>1 DEF RowsOf
  <1>13. Exists(s)' /\ CoupleOf(s)' = c /\ CoupleOf(t)' = c
    <2>1. rows'[s] \in Row
      BY <1>1, <1>2, <1>3, FriendRequestAssumption DEF Commit, InsertInOrder
    <2>q. QED BY <1>5, <1>8, <2>1, FriendRequestAssumption DEF Exists, CoupleOf
  <1>14. ChangedWithin(c)
    BY <1>6, <1>7, <1>13 DEF ChangedWithin
  <1>15. \A id \in RowIds : Exists(id)' /\ CoupleOf(id)' = c => View(rows'[id]) = v
    BY <1>6, <1>10, <1>12 DEF Exists, CoupleOf
  <1>16. RowsOf(c)' # {}
    <2>1. s \in RowsOf(c)'
      BY <1>2, <1>13 DEF RowsOf
    <2>q. QED BY <2>1
  <1>17. /\ ExclusiveInv' /\ c \in TwoUsers /\ RelationOf(c)' = v
         /\ \A d : d # c => RelationOf(d)' = RelationOf(d)
    <2>1. c = CoupleOfRequest(r) /\ Checked(r)
      BY <1>4, <1>8
    <2>2. /\ ExclusiveInv' /\ c \in TwoUsers
          /\ \A d : d # c => RelationOf(d)' = RelationOf(d)
          /\ RowsOf(c)' # {} => RelationOf(c)' = v
      BY <1>14, <1>15, <2>1, CommitKeepsInv
    <2>q. QED BY <1>16, <2>2
  <1>18. v # Abstract!Strangers
    BY <1>9, RelationsDiffer
  <1>19. /\ Abstract!Change(c, Abstract!Strangers, v)
         /\ Abstract!Move(c) => Abstract!Next
    BY <1>11, <1>17, <1>18, OneCoupleMoves
  <1>20. Abstract!Move(c)
    BY <1>8, <1>9, <1>19 DEF Abstract!Move, Abstract!Ask, Abstract!Block
  <1>q. QED BY <1>17, <1>19, <1>20 DEF Allowed

(* Removing leaves strangers: the one who asked withdraws, the one who      *)
(* blocked lifts the block, a friend ends the friendship.                   *)
LEMMA CommitRemoveAllowed ==
  ASSUME TypeOK, RequestsInOrder, RemovalsInOrder, ExclusiveInv, OnePerCouple',
         NEW r \in Requests, pc[r] = "commitRemove", Commit(r), Finish(r)
  PROVE  Allowed
  <1>1. PICK me, other, c : me = req[r].me /\ other = req[r].other /\ c = CoupleOfRequest(r)
    OBVIOUS
  <1>2. Checked(r) /\ c = {me, other} /\ todo[r] = {}
    BY <1>1 DEF Checked, RequestsInOrder, CoupleOfRequest
  <1>3. \A id \in RowIds : Wrote(r, id) <=> id \in RowsOf(c)
    BY <1>1, <1>2 DEF ExclusiveInv, CouplesCovered, CoversCouple, Reaches
  <1>4. \A id \in RowIds : rows'[id] = IF id \in RowsOf(c) THEN NoRow ELSE rows[id]
    BY <1>3 DEF Commit, Wrote, RemovalsInOrder, RemovalInOrder
  <1>5. \A id \in RowIds : ~(Exists(id)' /\ CoupleOf(id)' = c)
    BY <1>4 DEF RowsOf, Exists, CoupleOf
  <1>6. ChangedWithin(c)
    BY <1>4 DEF ChangedWithin, RowsOf, Exists
  <1>7. RowsOf(c)' = {}
    BY <1>5 DEF RowsOf
  <1>8. /\ ExclusiveInv' /\ c \in TwoUsers /\ RelationOf(c)' = Abstract!Strangers
        /\ \A d : d # c => RelationOf(d)' = RelationOf(d)
    BY <1>1, <1>2, <1>5, <1>6, <1>7, CommitKeepsInv
  <1>9. \/ RelationOf(c) = Abstract!RequestedBy(me)
        \/ RelationOf(c) = Abstract!BlockedBy(me)
        \/ RelationOf(c) = Abstract!Friends
    BY <1>1, <1>2 DEF ExclusiveInv, ChecksHold, CheckHolds
  <1>10. PICK from : from = RelationOf(c)
    OBVIOUS
  <1>11. from # Abstract!Strangers
    BY <1>9, <1>10, RelationsDiffer
  <1>12. /\ Abstract!Change(c, from, Abstract!Strangers)
         /\ Abstract!Move(c) => Abstract!Next
    BY <1>8, <1>10, <1>11, OneCoupleMoves
  <1>13. Abstract!Move(c)
    BY <1>2, <1>9, <1>10, <1>12
    DEF Abstract!Move, Abstract!Withdraw, Abstract!Unblock, Abstract!EndFriendship
  <1>q. QED BY <1>8, <1>12, <1>13 DEF Allowed
(* Updating makes friends of the one who asked and the one who was asked,   *)
(* or lets one user block the other, who had not blocked before.            *)
LEMMA CommitUpdateAllowed ==
  ASSUME TypeOK, RequestsInOrder, UpdatesInOrder, ExclusiveInv, OnePerCouple',
         NEW r \in Requests, CommitUpdate(r)
  PROVE  Allowed
  <1>1. /\ pc[r] = "secondRows" /\ pc[r] # "idle" /\ todo[r] = {} /\ Commit(r) /\ Finish(r)
        /\ Checked(r) /\ req[r].op \in {"accept", "block"}
    BY DEF CommitUpdate, RequestsInOrder, Checked
  <1>2. PICK me, other, c : me = req[r].me /\ other = req[r].other /\ c = CoupleOfRequest(r)
    OBVIOUS
  <1>3. me # other /\ c = {me, other} /\ c = {SenderId(r), ReceiverId(r)} /\ c \in TwoUsers
    BY <1>1, <1>2, CheckedCouple DEF CoupleOfRequest
  <1>4. RowsOf(c) = RowsFromTo(SenderId(r), ReceiverId(r)) \cup RowsFromTo(ReceiverId(r), SenderId(r))
    BY <1>1, <1>2, CheckedCouple
  <1>5. \A id \in RowIds : Wrote(r, id) <=> id \in RowsOf(c)
    <2>1. \A id \in RowsOf(c) : id \in RowIds /\ Wrote(r, id)
      BY <1>1, <1>4 DEF ExclusiveInv, CouplesCovered, CoversCouple, Reaches, RowsFromTo
    <2>2. \A id \in RowIds : Wrote(r, id) => id \in RowsOf(c)
      BY <1>1, <1>4 DEF UpdatesInOrder, UpdateInOrder
    <2>q. QED BY <2>1, <2>2
  <1>6. \A id \in RowIds : rows'[id] = IF id \in RowsOf(c) THEN Updated(r, id) ELSE rows[id]
    BY <1>1, <1>5 DEF Commit, Wrote, UpdatesInOrder, UpdateInOrder
  <1>7. PICK v : v = IF req[r].op = "accept" THEN Abstract!Friends ELSE Abstract!BlockedBy(me)
    OBVIOUS
  <1>8. ASSUME NEW id \in RowsOf(c)
        PROVE  Exists(id)' /\ CoupleOf(id)' = c /\ View(rows'[id]) = v
    <2>1. /\ id \in RowIds /\ rows[id] \in Row /\ {rows[id].sender, rows[id].receiver} = c
      BY <1>8 DEF RowsOf, Exists, CoupleOf, TypeOK
    <2>2. rows'[id] = Updated(r, id)
      BY <1>6, <1>8, <2>1
    <2>3. PICK row : row = Updated(r, id)
      OBVIOUS
    <2>4. /\ row \in Row /\ row.sender = rows[id].sender /\ row.receiver = rows[id].receiver
          /\ row.status = IF rows[id].sender = SenderId(r) THEN SenderFriendShipStatus(r)
                          ELSE ReceiverFriendShipStatus(r)
      BY <2>1, <2>3 DEF Updated, Row, SenderFriendShipStatus, ReceiverFriendShipStatus, Statuses
    <2>5. row # NoRow /\ {row.sender, row.receiver} = c
      BY <2>1, <2>4, FriendRequestAssumption
    <2>6. CASE req[r].op = "accept"
      <3>1. row.status = "ACCEPTED"
        BY <2>4, <2>6 DEF SenderFriendShipStatus, ReceiverFriendShipStatus
      <3>q. QED BY <1>7, <2>2, <2>3, <2>5, <2>6, <3>1, ViewByStatus DEF Exists, CoupleOf
    <2>7. CASE req[r].op = "block"
      <3>1. SenderId(r) = me /\ ReceiverId(r) = other
        BY <1>2, <2>7 DEF SenderId, ReceiverId
      <3>2. \/ row.sender = me /\ row.status = "BLOCKED_BY_ME"
            \/ row.receiver = me /\ row.status = "BLOCKED_BY_OTHER_USER"
        BY <1>3, <2>4, <2>5, <2>7, <3>1 DEF SenderFriendShipStatus, ReceiverFriendShipStatus
      <3>3. View(row) = Abstract!BlockedBy(me)
        BY <3>2, ViewByStatus
      <3>q. QED BY <1>7, <2>2, <2>3, <2>5, <2>7, <3>3 DEF Exists, CoupleOf
    <2>q. QED BY <1>1, <2>6, <2>7
  <1>9. ChangedWithin(c)
    BY <1>6, <1>8 DEF ChangedWithin, RowsOf
  <1>10. \A id \in RowIds : Exists(id)' /\ CoupleOf(id)' = c => View(rows'[id]) = v
    BY <1>6, <1>8 DEF RowsOf, Exists, CoupleOf
  <1>11. IF req[r].op = "accept" THEN RelationOf(c) = Abstract!RequestedBy(other)
         ELSE RelationOf(c) # Abstract!Strangers /\ RelationOf(c) # Abstract!BlockedBy(other)
    BY <1>1, <1>2, <1>3 DEF ExclusiveInv, ChecksHold, CheckHolds
  <1>12. PICK id \in RowsOf(c) : RelationOf(c) = View(rows[id])
    <2>1. RelationOf(c) # Abstract!Strangers
      BY <1>11, RelationsDiffer
    <2>2. RowsOf(c) # {}
      BY <2>1, RelationIsView DEF ExclusiveInv
    <2>q. QED BY <2>2, RelationIsView DEF ExclusiveInv
  <1>13. \/ RelationOf(c) = Abstract!Friends
         \/ \E u \in c : RelationOf(c) = Abstract!RequestedBy(u)
         \/ RelationOf(c) = Abstract!BlockedBy(me)
    <2>1. rows[id] \in Row /\ rows[id].sender \in c /\ rows[id].receiver \in c
      BY <1>12 DEF RowsOf, Exists, CoupleOf, TypeOK
    <2>2. \/ RelationOf(c) = Abstract!Friends
          \/ \E u \in c : RelationOf(c) = Abstract!RequestedBy(u)
          \/ \E u \in c : RelationOf(c) = Abstract!BlockedBy(u)
      BY <1>12, <2>1, ViewByStatus DEF Row, Statuses
    <2>q. QED BY <1>3, <1>11, <2>2, RelationsDiffer
  <1>14. RowsOf(c)' # {}
    <2>1. id \in RowsOf(c)'
      BY <1>8 DEF RowsOf
    <2>q. QED BY <2>1
  <1>15. /\ ExclusiveInv' /\ RelationOf(c)' = v
         /\ \A d : d # c => RelationOf(d)' = RelationOf(d)
    <2>1. /\ ExclusiveInv'
          /\ \A d : d # c => RelationOf(d)' = RelationOf(d)
          /\ RowsOf(c)' # {} => RelationOf(c)' = v
      BY <1>1, <1>2, <1>9, <1>10, CommitKeepsInv
    <2>q. QED BY <1>14, <2>1
  <1>16. PICK from : from = RelationOf(c)
    OBVIOUS
  <1>17. CASE from = v
    <2>1. \A d \in TwoUsers : RelationOf(d)' = RelationOf(d)
      BY <1>15, <1>16, <1>17
    <2>2. relationBar' = relationBar
      BY <2>1 DEF relationBar
    <2>q. QED BY <1>15, <2>2 DEF Allowed
  <1>18. CASE from # v
    <2>1. /\ Abstract!Change(c, from, v)
          /\ Abstract!Move(c) => Abstract!Next
      BY <1>3, <1>15, <1>16, <1>18, OneCoupleMoves
    <2>2. Abstract!Move(c)
      <3>1. CASE req[r].op = "accept"
        <4>1. Abstract!Accept(c, me)
          BY <1>3, <1>7, <1>11, <1>16, <2>1, <3>1 DEF Abstract!Accept
        <4>q. QED BY <1>3, <4>1 DEF Abstract!Move
      <3>2. CASE req[r].op # "accept"
        <4>1. Abstract!Block(c, me)
          BY <1>7, <1>13, <1>16, <1>18, <2>1, <3>2 DEF Abstract!Block
        <4>q. QED BY <1>3, <4>1 DEF Abstract!Move
      <3>q. QED BY <3>1, <3>2
    <2>q. QED BY <1>15, <2>1, <2>2 DEF Allowed
  <1>q. QED BY <1>17, <1>18

(* Every step of the service, the database and the clients is allowed.      *)
LEMMA StepAllowed ==
  ASSUME IndInv, ExclusiveInv, [Next /\ OnePerCouple']_vars
  PROVE  Allowed
  <1>1. /\ TypeOK /\ RequestsInOrder /\ MirrorsExist
        /\ InsertsInOrder /\ UpdatesInOrder /\ RemovalsInOrder
    BY DEF IndInv
  <1>2. CASE UNCHANGED vars
    <2>1. UNCHANGED <<rows, req, pc, todo, writes>>
      BY <1>2 DEF vars
    <2>2. relationBar' = relationBar
      BY <2>1, RowsStay DEF relationBar
    <2>3. OnePerCouple' /\ RowsAgree' /\ OfTwoUsers'
      BY <2>1, RowsStay DEF ExclusiveInv, OnePerCouple, Checked, CoupleOfRequest
    <2>4. ASSUME NEW r \in Requests PROVE CheckHolds(r)' /\ CoversCouple(r)'
      <3>1. PICK me, other, a, b, c : /\ me = req[r].me /\ other = req[r].other
                                      /\ a = SenderId(r) /\ b = ReceiverId(r)
                                      /\ c = CoupleOfRequest(r)
        OBVIOUS
      <3>2. SenderId(r)' = a /\ ReceiverId(r)' = b /\ CoupleOfRequest(r)' = c
        BY <2>1, <3>1 DEF SenderId, ReceiverId, CoupleOfRequest
      <3>3. /\ RelationOf({me, other})' = RelationOf({me, other}) /\ RowsOf(c)' = RowsOf(c)
            /\ RowsFromTo(a, b)' = RowsFromTo(a, b) /\ RowsFromTo(b, a)' = RowsFromTo(b, a)
        BY <2>1, RowsStay
      <3>4. CheckHolds(r) /\ CoversCouple(r)
        BY DEF ExclusiveInv, ChecksHold, CouplesCovered
      <3>5. CheckHolds(r)'
        BY <2>1, <3>1, <3>3, <3>4 DEF CheckHolds
      <3>6. \A id : (Reaches(r, id)' <=> Reaches(r, id)) /\ (Wrote(r, id)' <=> Wrote(r, id))
        BY <2>1 DEF Reaches, Wrote
      <3>7. CoversCouple(r)'
        BY <2>1, <3>1, <3>2, <3>3, <3>4, <3>6 DEF CoversCouple
      <3>q. QED BY <3>5, <3>7
    <2>q. QED BY <2>2, <2>3, <2>4 DEF Allowed, ExclusiveInv, ChecksHold, CouplesCovered
  <1>3. CASE Next /\ OnePerCouple'
    <2>1. ASSUME NEW r \in Requests, Handle(r) PROVE Allowed
      <3>1. CASE RefuseSelf(r)
        BY <1>1, <1>3, <3>1, RefuseAllowed DEF RefuseSelf, Refuse
      <3>2. CASE \/ SendFriendRequest(r) \/ AcceptFriendRequest(r) \/ CancelSentFriendRequest(r)
                 \/ BlockFriend(r) \/ UnblockFriend(r) \/ UnFriend(r)
        BY <1>1, <1>3, <3>2, CheckAllowed
      <3>3. CASE \E p \in Pairs : CreateFriendRequestRelations(r, p)
        BY <1>1, <1>3, <3>3, InsertAllowed
      <3>4. CASE FirstUpdate(r) \/ SecondUpdate(r) \/ SelectForRemoval(r)
        BY <1>1, <1>3, <3>4, StartAllowed
      <3>5. CASE \E id \in RowIds : UpdateRow(r, id) \/ RemoveRow(r, id)
        BY <1>1, <1>3, <3>5, WriteAllowed
      <3>6. CASE EndRemoval(r)
        BY <1>1, <1>3, <3>6, EndRemovalAllowed
      <3>7. CASE CommitInBackground(r)
        BY <1>1, <1>3, <3>7, CommitSaveAllowed, CommitRemoveAllowed DEF CommitInBackground
      <3>8. CASE CommitUpdate(r)
        BY <1>1, <1>3, <3>8, CommitUpdateAllowed
      <3>q. QED BY <2>1, <3>1, <3>2, <3>3, <3>4, <3>5, <3>6, <3>7, <3>8 DEF Handle
    <2>2. ASSUME NEW r \in Requests, NEW op \in Offered, NEW me \in Registered, NEW other \in Users,
                 Receive(r, op, me, other)
          PROVE  Allowed
      <3>1. /\ \A q \in Requests \ {r} : pc'[q] = pc[q] /\ req'[q] = req[q]
            /\ pc'[r] = "find" /\ UNCHANGED <<rows, todo, writes>>
        BY <1>1, <2>2 DEF Receive, Go, TypeOK
      <3>q. QED BY <1>1, <1>3, <3>1, QuietEnd
    <2>3. ASSUME NEW r \in Requests, QueryFails(r) PROVE Allowed
      BY <1>1, <1>3, <2>3, RefuseAllowed DEF QueryFails
    <2>4. CASE Crash
      <3>1. UNCHANGED rows /\ \A r \in Requests : pc'[r] = "idle"
        BY <2>4 DEF Crash
      <3>2. ChecksHold' /\ CouplesCovered'
        BY <3>1 DEF ChecksHold, CheckHolds, CouplesCovered, CoversCouple
      <3>3. RowsAgree' /\ OfTwoUsers' /\ relationBar' = relationBar
        BY <3>1, RowsStay DEF ExclusiveInv, relationBar
      <3>q. QED BY <1>3, <3>2, <3>3 DEF Allowed, ExclusiveInv
    <2>q. QED BY <1>3, <2>1, <2>2, <2>3, <2>4 DEF Next
  <1>q. QED BY <1>2, <1>3
LEMMA ExclusiveInit == Init => ExclusiveInv
  <1> SUFFICES ASSUME Init PROVE ExclusiveInv
    OBVIOUS
  <1>1. /\ \A r \in Requests : pc[r] = "idle"
        /\ \A id \in RowIds : ~Exists(id)
    BY DEF Init, Exists
  <1>2. ChecksHold /\ CouplesCovered
    BY <1>1, UncheckedOwesNothing DEF Checked, ChecksHold, CouplesCovered
  <1>q. QED BY <1>1, <1>2 DEF ExclusiveInv, OnePerCouple, Checked, RowsAgree, OfTwoUsers

LEMMA InitImplements == Init => Abstract!Init
  <1> SUFFICES ASSUME Init PROVE Abstract!Init
    OBVIOUS
  <1>1. RowsAgree /\ \A c : RowsOf(c) = {}
    BY ExclusiveInit DEF ExclusiveInv, Init, RowsOf, Exists
  <1>2. \A c : RelationOf(c) = Abstract!Strangers
    BY <1>1, RelationIsView
  <1>q. QED BY <1>2 DEF Abstract!Init, Abstract!Couples, TwoUsers

LEMMA ExclusiveIsSafe == ExclusiveSpec => []IndInv
  <1>1. [Next /\ OnePerCouple']_vars => [Next]_vars
    OBVIOUS
  <1>q. QED BY <1>1, Invariant, PTL DEF Spec, ExclusiveSpec

(* Whatever else interleaves, a transaction that no other request about its *)
(* two users overlaps writes what its check allows, to all of their rows.   *)
THEOREM ExclusiveInvariant == ExclusiveSpec => []ExclusiveInv
  <1>1. IndInv /\ ExclusiveInv /\ [Next /\ OnePerCouple']_vars => ExclusiveInv'
    BY StepAllowed DEF Allowed
  <1>q. QED BY <1>1, ExclusiveInit, ExclusiveIsSafe, PTL DEF ExclusiveSpec

(* Without two requests about one couple at once, whoever is told that the  *)
(* other user has blocked them has been blocked by that user.               *)
THEOREM BlockedByTheOther == ExclusiveSpec => []BlockedByOtherUser
  <1>1. ASSUME IndInv, ExclusiveInv PROVE BlockedByOtherUser
    <2> SUFFICES ASSUME NEW u \in Users, NEW v \in Users, NEW id \in RowsFromTo(u, v),
                        rows[id].status = "BLOCKED_BY_OTHER_USER"
                 PROVE  \E i \in RowsFromTo(v, u) : rows[i].status = "BLOCKED_BY_ME"
      BY DEF BlockedByOtherUser, WithStatus
    <2>0. id \in RowIds /\ Exists(id) /\ rows[id].sender = u /\ rows[id].receiver = v
      BY DEF RowsFromTo
    <2>1. PICK i : i = Mirror(id)
      OBVIOUS
    <2>2. i \in RowIds /\ Exists(i) /\ rows[i].sender = rows[id].receiver
          /\ rows[i].receiver = rows[id].sender
      BY <1>1, <2>0, <2>1 DEF IndInv, MirrorsExist, Mirror, RowIds
    <2>3. CoupleOf(i) = CoupleOf(id) /\ View(rows[i]) = View(rows[id])
          /\ rows[id].sender # rows[id].receiver
      BY <1>1, <2>0, <2>2 DEF CoupleOf, ExclusiveInv, RowsAgree, OfTwoUsers
    <2>4. View(rows[i]) = Abstract!BlockedBy(rows[i].sender)
      BY <2>0, <2>2, <2>3, ViewByStatus
    <2>5. rows[i].status \in Statuses
      BY <1>1, <2>2 DEF IndInv, TypeOK, Exists, Row
    <2>6. rows[i].sender # rows[i].receiver
      BY <2>2, <2>3
    <2>7. rows[i].status = "BLOCKED_BY_ME"
      BY <2>4, <2>5, <2>6, ViewByStatus, RelationsDiffer DEF Statuses
    <2>q. QED BY <2>0, <2>2, <2>7 DEF RowsFromTo
  <1>2. IndInv /\ ExclusiveInv => BlockedByOtherUser
    BY <1>1
  <1>q. QED BY <1>2, ExclusiveIsSafe, ExclusiveInvariant, PTL

(* FriendRequest implements Friendship as long as no two requests about the *)
(* same two users are past their first SELECT at once: of all its steps     *)
(* only a commit changes how users stand, and it makes one move of its      *)
(* couple that the user who asked for it may make.                          *)
THEOREM Refinement == ExclusiveSpec => ImplementsFriendship
  <1>1. IndInv /\ ExclusiveInv /\ [Next /\ OnePerCouple']_vars => [Abstract!Next]_relationBar
    BY StepAllowed DEF Allowed
  <1>q. QED BY <1>1, InitImplements, ExclusiveIsSafe, ExclusiveInvariant, PTL
        DEF ExclusiveSpec, ImplementsFriendship, Abstract!Spec, relationBar

(* In particular a service that serves one request at a time, background    *)
(* work included, implements Friendship as it is.                           *)
THEOREM OneAtATime ==
  ASSUME \A r, q \in Requests : r = q
  PROVE  Spec => ImplementsFriendship
  <1>1. OnePerCouple'
    BY DEF OnePerCouple
  <1>2. [Next]_vars => [Next /\ OnePerCouple']_vars
    BY <1>1
  <1>q. QED BY <1>2, Refinement, PTL DEF Spec, ExclusiveSpec
(* A row keeps its two users as long as it is there.                        *)
LEMMA EndsStay ==
  ASSUME IndInv, [Next]_vars, NEW id \in RowIds, Exists(id), Exists(id)'
  PROVE  CoupleOf(id)' = CoupleOf(id)
  <1>1. TypeOK /\ RequestsInOrder /\ WriteSetsInOrder /\ Committed
    BY DEF IndInv, WriteSetsInOrder, Committed
  <1>2. CASE UNCHANGED rows
    BY <1>2 DEF CoupleOf
  <1>3. ASSUME NEW r \in Requests, RowStep(r, id) PROVE CoupleOf(id)' = CoupleOf(id)
    BY <1>3 DEF RowStep, Exists, CoupleOf
  <1>4. ASSUME NEW r \in Requests, Handle(r) PROVE CoupleOf(id)' = CoupleOf(id)
    <2>1. CASE RefuseSelf(r) \/ SendFriendRequest(r) \/ AcceptFriendRequest(r)
               \/ CancelSentFriendRequest(r) \/ BlockFriend(r) \/ UnblockFriend(r) \/ UnFriend(r)
      BY <1>2, <2>1 DEF RefuseSelf, SendFriendRequest, AcceptFriendRequest, CancelSentFriendRequest,
                        BlockFriend, UnblockFriend, UnFriend, Refuse, Continue
    <2>2. CASE \E p \in Pairs : CreateFriendRequestRelations(r, p)
      BY <1>2, <2>2 DEF CreateFriendRequestRelations, Refuse
    <2>3. CASE FirstUpdate(r) \/ SecondUpdate(r) \/ SelectForRemoval(r) \/ EndRemoval(r)
      BY <1>2, <2>3 DEF FirstUpdate, SecondUpdate, SelectForRemoval, EndRemoval, StartStatement
    <2>4. CASE \E i \in RowIds : UpdateRow(r, i) \/ RemoveRow(r, i)
      BY <1>2, <2>4 DEF UpdateRow, RemoveRow, WriteRow
    <2>5. CASE CommitInBackground(r)
      BY <1>1, <1>3, <2>5, CommitSaveFacts, CommitRemoveFacts DEF CommitInBackground
    <2>6. CASE CommitUpdate(r)
      BY <1>1, <1>3, <2>6, CommitUpdateFacts
    <2>q. QED BY <1>4, <2>1, <2>2, <2>3, <2>4, <2>5, <2>6 DEF Handle
  <1>5. CASE Next
    BY <1>2, <1>4, <1>5 DEF Next, Receive, QueryFails, Crash
  <1>q. QED BY <1>2, <1>5 DEF vars

(* A couple that becomes friends has been waiting for an answer.            *)
LEMMA FriendsWereAsked ==
  ASSUME Abstract!Next, NEW c \in TwoUsers,
         RelationOf(c) # Abstract!Friends, RelationOf(c)' = Abstract!Friends
  PROVE  \E u \in c : RelationOf(c) = Abstract!RequestedBy(u)
  <1>1. relationBar[c] = RelationOf(c) /\ relationBar'[c] = RelationOf(c)'
    BY DEF relationBar
  <1>2. ASSUME NEW d \in TwoUsers, NEW from, NEW to, Abstract!Change(d, from, to)
        PROVE  c = d /\ from = RelationOf(c) /\ to = Abstract!Friends
    <2>1. /\ relationBar[d] = from
          /\ relationBar' = [relationBar EXCEPT ![d] = to]
      BY <1>2 DEF Abstract!Change, relationBar
    <2>2. relationBar'[c] = IF c = d THEN to ELSE relationBar[c]
      BY <2>1 DEF relationBar
    <2>q. QED BY <1>1, <2>1, <2>2
  <1>3. PICK d \in TwoUsers : Abstract!Move(d)
    BY DEF Abstract!Next, Abstract!Couples, TwoUsers
  <1>4. Abstract!Strangers # Abstract!Friends
        /\ \A u : Abstract!RequestedBy(u) # Abstract!Friends /\ Abstract!BlockedBy(u) # Abstract!Friends
    BY RelationsDiffer
  <1>5. ~Abstract!EndFriendship(d) /\ \A u : ~Abstract!Ask(d, u) /\ ~Abstract!Withdraw(d, u)
                                             /\ ~Abstract!Block(d, u) /\ ~Abstract!Unblock(d, u)
    BY <1>2, <1>4 DEF Abstract!EndFriendship, Abstract!Ask, Abstract!Withdraw, Abstract!Block,
                      Abstract!Unblock
  <1>6. PICK u \in d : Abstract!Accept(d, u)
    BY <1>3, <1>5 DEF Abstract!Move
  <1>q. QED BY <1>2, <1>6 DEF Abstract!Accept

(* "Accept a PENDING friend request": without two requests about one couple *)
(* at once no acceptance makes friends of users who have not been asking,   *)
(* nor of users one of whom has blocked the other.                          *)
THEOREM AcceptsWhatIsPending == ExclusiveSpec => AcceptsOnlyPending
  <1>1. ASSUME IndInv, ExclusiveInv, [Next /\ OnePerCouple']_vars PROVE PendingAccepted
    <2> SUFFICES ASSUME NEW id \in RowIds, Exists(id), rows'[id] # NoRow,
                        rows[id].status # "ACCEPTED", rows'[id].status = "ACCEPTED"
                 PROVE  rows[id].status \in {"PENDING", "WAITING_FOR_CURRENT_USER_RESPONSE"}
      BY DEF PendingAccepted
    <2>1. PICK c : c = CoupleOf(id)
      OBVIOUS
    <2>2. CoupleOf(id)' = c /\ Exists(id)'
      BY <1>1, <2>1, EndsStay DEF Exists
    <2>3. rows[id] \in Row
      BY <1>1 DEF IndInv, TypeOK, Exists
    <2>4. c \in TwoUsers
      BY <1>1, <2>1, <2>3 DEF CoupleOf, Row, TwoUsers, ExclusiveInv, OfTwoUsers
    <2>5. ExclusiveInv' /\ [Abstract!Next]_relationBar
      BY <1>1, StepAllowed DEF Allowed
    <2>6. RelationOf(c) = View(rows[id])
      BY <1>1, <2>1, RelationIsView DEF RowsOf, ExclusiveInv
    <2>7. RelationOf(c)' = Abstract!Friends
      <3>1. id \in RowsOf(c)' /\ RowsAgree'
        BY <2>2, <2>5 DEF RowsOf, ExclusiveInv
      <3>2. View(rows'[id]) = Abstract!Friends
        BY ViewByStatus
      <3>3. Views(c)' = {Abstract!Friends}
        BY <3>1, <3>2 DEF Views, RowsOf, RowsAgree
      <3>q. QED BY <3>3, VerdictOfOne DEF RelationOf
    <2>8. RelationOf(c) # Abstract!Friends
      BY <2>3, <2>6, ViewByStatus, RelationsDiffer DEF Row, Statuses
    <2>9. Abstract!Next
      <3>1. relationBar[c] # relationBar'[c]
        BY <2>4, <2>7, <2>8 DEF relationBar
      <3>q. QED BY <2>5, <3>1
    <2>10. PICK u \in c : RelationOf(c) = Abstract!RequestedBy(u)
      BY <2>4, <2>7, <2>8, <2>9, FriendsWereAsked
    <2>11. rows[id].status \notin {"BLOCKED_BY_ME", "BLOCKED_BY_OTHER_USER"}
      <3>1. \A v : Abstract!RequestedBy(u) # Abstract!BlockedBy(v)
        BY RelationsDiffer
      <3>2. PICK row : row = rows[id]
        OBVIOUS
      <3>q. QED BY <2>6, <2>10, <3>1, <3>2, ViewByStatus
    <2>12. rows[id].status \in Statuses
      BY <2>3 DEF Row
    <2>q. QED BY <2>11, <2>12 DEF Statuses
  <1>2. IndInv /\ ExclusiveInv /\ [Next /\ OnePerCouple']_vars => [PendingAccepted]_vars
    BY <1>1
  <1>q. QED BY <1>2, ExclusiveIsSafe, ExclusiveInvariant, PTL DEF ExclusiveSpec, AcceptsOnlyPending
=============================================================================
