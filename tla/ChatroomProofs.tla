---------------------------- MODULE ChatroomProofs ----------------------------
(***************************************************************************)
(* Chatroom's invariants for any users, rooms, messages and requests.        *)
(***************************************************************************)
EXTENDS ChatroomAdditions, PaginationProofs, FiniteSetTheorems

Types ==
  /\ members \in [Rooms -> SUBSET Registered]
  /\ founders \in [Rooms -> SUBSET Registered]
  /\ participated \in [Rooms -> SUBSET Registered]
  /\ lastMessage \in [Rooms -> Messages \cup {None}]
  /\ list \in [Rooms -> Seq(Messages)]
  /\ author \in [Messages -> Registered \cup {None}]
  /\ req \in [Requests -> Records]

RoomsInOrder ==
  \A r \in Rooms :
    /\ founders[r] \subseteq members[r]
    /\ members[r] \subseteq participated[r]
    /\ founders[r] = {} => participated[r] = {}

ListsInOrder ==
  /\ \A r \in Rooms : \A i, j \in DOMAIN list[r] : list[r][i] = list[r][j] => i = j
  /\ \A r1, r2 \in Rooms : r1 # r2 => Listed(r1) \cap Listed(r2) = {}
  /\ \A r \in Rooms : \A m \in Listed(r) : author[m] # None

(* What a reader has still to come to, unless messages move.                *)
Ahead(q) ==
  LET s == list[req[q].room]
  IN {s[i] : i \in {k \in DOMAIN s : Skip(req[q].page, PageSize) < k}}

(* What a request knows at each of its awaits.                              *)
NamesRoom(q) == req[q].step \notin {"done", "find", "create"} => req[q].room \in Rooms

AnswerInOrder(q) ==
  req[q].step = "answer" =>
    /\ Exists(req[q].room)
    /\ Cardinality(req[q].who) = 2 /\ Cardinality(founders[req[q].room]) = 2
         => req[q].who = founders[req[q].room]

AdditionInOrder(q) ==
  req[q].step \in {"reread", "save"} =>
    Exists(req[q].room) /\ founders[req[q].room] \subseteq req[q].copy

UploadInOrder(q) ==
  /\ req[q].step \in {"permit", "author", "image", "last"} =>
       req[q].op = "uploadImage" /\ req[q].user \in Registered
  /\ req[q].step \in {"image", "last"} => req[q].user \in participated[req[q].room]
  /\ req[q].step = "last" => req[q].message \in Listed(req[q].room)
  /\ req[q].step = "done" /\ req[q].op = "uploadImage" =>
       /\ req[q].room \in Rooms /\ lastMessage[req[q].room] \in Listed(req[q].room)
       /\ req[q].user \in participated[req[q].room]

DeletionInOrder(q) == req[q].step \in {"message", "delete"} => req[q].message \in Messages

ReaderInOrder(q) ==
  /\ req[q].step = "page" => req[q].op = "readMessages" /\ req[q].due \subseteq req[q].seen \cup Ahead(q)
  /\ req[q].step = "done" /\ req[q].op = "readMessages" => req[q].due \subseteq req[q].seen

InOrder(q) ==
  /\ NamesRoom(q) /\ AnswerInOrder(q) /\ AdditionInOrder(q)
  /\ UploadInOrder(q) /\ DeletionInOrder(q) /\ ReaderInOrder(q)

RequestsInOrder == \A q \in Requests : InOrder(q)

ChatroomInv == Types /\ RoomsInOrder /\ ListsInOrder /\ RequestsInOrder

-----------------------------------------------------------------------------
(* What a committed step of another request may do.                         *)
RoomsGrow ==
  \A r \in Rooms :
    /\ Exists(r) => founders'[r] = founders[r] /\ Exists(r)'
    /\ participated[r] \subseteq participated'[r]
    /\ Listed(r) \subseteq Listed(r)'
    /\ lastMessage[r] \in Listed(r) => lastMessage'[r] \in Listed(r)'

(* Of the messages a reader is due none comes earlier.                      *)
StaysAhead(q) ==
  \A r \in Rooms : \A i \in DOMAIN list[r] :
    list[r][i] \in req'[q].due =>
      \E j \in DOMAIN list'[r] : i <= j /\ list'[r][j] = list[r][i]

(* The request is as it was, but for messages it is no longer due.          *)
Waits(q) ==
  /\ req'[q] \in Records
  /\ req'[q].step = req[q].step /\ req'[q].op = req[q].op /\ req'[q].room = req[q].room
  /\ req'[q].who = req[q].who /\ req'[q].copy = req[q].copy /\ req'[q].user = req[q].user
  /\ req'[q].message = req[q].message /\ req'[q].page = req[q].page /\ req'[q].seen = req[q].seen
  /\ req'[q].due \subseteq req[q].due

LEMMA OthersStayInOrder ==
  ASSUME Types, list' \in [Rooms -> Seq(Messages)], NEW q \in Requests, InOrder(q), Waits(q),
         RoomsGrow, StaysAhead(q)
  PROVE  InOrder(q)'
<1>1. NamesRoom(q)'
  BY DEF InOrder, NamesRoom, Waits
<1>2. AnswerInOrder(q)'
  BY DEF InOrder, NamesRoom, AnswerInOrder, Waits, RoomsGrow
<1>3. AdditionInOrder(q)'
  BY DEF InOrder, NamesRoom, AdditionInOrder, Waits, RoomsGrow
<1>4. UploadInOrder(q)'
  BY DEF InOrder, NamesRoom, UploadInOrder, Waits, RoomsGrow
<1>5. DeletionInOrder(q)'
  BY DEF InOrder, DeletionInOrder, Waits
<1>6. ReaderInOrder(q)'
  <2>1. SUFFICES ASSUME req[q].step = "page", NEW m \in req'[q].due, m \notin req'[q].seen
                 PROVE  m \in Ahead(q)'
    BY DEF InOrder, ReaderInOrder, Waits
  <2>2. req[q].room \in Rooms /\ req'[q].room = req[q].room
    BY <2>1 DEF InOrder, NamesRoom, Waits
  <2>3. PICK i \in DOMAIN list[req[q].room] : Skip(req[q].page, PageSize) < i /\ m = list[req[q].room][i]
    BY <2>1 DEF InOrder, ReaderInOrder, Waits, Ahead
  <2>4. PICK j \in DOMAIN list'[req[q].room] : i <= j /\ list'[req[q].room][j] = m
    BY <2>1, <2>2, <2>3 DEF StaysAhead
  <2>5. Skip(req[q].page, PageSize) \in Nat
    BY NextSkip, ChatroomAssumption DEF Types, Records
  <2>6. i \in Nat /\ j \in Nat
    BY <2>2, <2>3, <2>4 DEF Types
  <2>7. Skip(req[q].page, PageSize) < j
    BY <2>3, <2>4, <2>5, <2>6
  <2>8. req'[q].page = req[q].page
    BY DEF Waits
  <2> QED
    BY <2>2, <2>4, <2>7, <2>8 DEF Ahead
<1> QED
  BY <1>1, <1>2, <1>3, <1>4, <1>5, <1>6 DEF InOrder
-----------------------------------------------------------------------------
(* Steps that commit nothing.                                               *)
Changes(q, request) == request \in Records /\ req' = [req EXCEPT ![q] = request]

LEMMA RequestSteps ==
  ASSUME Types, NEW q \in Requests, NEW request, Changes(q, request)
  PROVE  /\ req' \in [Requests -> Records] /\ req'[q] = request
         /\ \A p \in Requests \ {q} : Waits(p)
  BY DEF Types, Changes, Waits

LEMMA NothingCommitted ==
  ASSUME ChatroomInv, UNCHANGED <<participants, messages>>, NEW q \in Requests,
         NEW request, Changes(q, request), InOrder(q)'
  PROVE  ChatroomInv'
<1>1. req' \in [Requests -> Records] /\ \A p \in Requests \ {q} : Waits(p)
  BY RequestSteps DEF ChatroomInv
<1>2. Types'
  BY <1>1 DEF ChatroomInv, Types, participants, messages
<1>3. RoomsInOrder' /\ ListsInOrder' /\ RoomsGrow
  BY DEF ChatroomInv, RoomsInOrder, ListsInOrder, RoomsGrow, Listed, Exists, participants, messages
<1>4. ASSUME NEW p \in Requests \ {q} PROVE InOrder(p)'
  <2>1. StaysAhead(p)
    <3>1. SUFFICES ASSUME NEW r \in Rooms, NEW i \in DOMAIN list[r]
                   PROVE  \E j \in DOMAIN list'[r] : i <= j /\ list'[r][j] = list[r][i]
      BY DEF StaysAhead
    <3>2. i \in Nat /\ list' = list
      BY DEF ChatroomInv, Types, messages
    <3> QED
      BY <3>2
  <2> QED
    BY <1>1, <1>2, <1>3, <2>1, OthersStayInOrder DEF ChatroomInv, RequestsInOrder, Types
<1> QED
  BY <1>2, <1>3, <1>4 DEF ChatroomInv, RequestsInOrder

(* A request that ends without an answer.                                   *)
LEMMA IdleInOrder ==
  ASSUME NEW q \in Requests, Failed(q), Types
  PROVE  Changes(q, Idle) /\ InOrder(q)'
<1>1. Idle \in Records
  BY ChatroomAssumption DEF Idle, Records, Steps
<1>2. req'[q] = Idle /\ req' = [req EXCEPT ![q] = Idle]
  BY DEF Failed, Types
<1>3. req'[q].step = "done" /\ req'[q].op = "none"
  BY <1>2 DEF Idle
<1>4. InOrder(q)'
  BY <1>3 DEF InOrder, NamesRoom, AnswerInOrder, AdditionInOrder, UploadInOrder, DeletionInOrder, ReaderInOrder
<1> QED
  BY <1>1, <1>2, <1>4 DEF Changes

LEMMA RefuseKeepsOrder ==
  ASSUME ChatroomInv, NEW q \in Requests, Refuse(q)
  PROVE  ChatroomInv'
  BY IdleInOrder, NothingCommitted DEF ChatroomInv, Refuse

LEMMA InitInOrder == Init => ChatroomInv
<1> SUFFICES ASSUME Init PROVE ChatroomInv
  OBVIOUS
<1>1. Idle \in Records /\ Idle.step = "done" /\ Idle.op = "none"
  BY ChatroomAssumption DEF Idle, Records, Steps
<1>2. Types
  BY <1>1 DEF Init, Types
<1>3. RoomsInOrder
  BY DEF Init, RoomsInOrder
<1>4. \A r \in Rooms : list[r] = << >> /\ Listed(r) = {}
  BY DEF Init, Listed
<1>5. ListsInOrder
  BY <1>4 DEF ListsInOrder
<1>6. ASSUME NEW q \in Requests PROVE InOrder(q)
  <2>1. req[q].step = "done" /\ req[q].op = "none"
    BY <1>1 DEF Init
  <2> QED
    BY <2>1 DEF InOrder, NamesRoom, AnswerInOrder, AdditionInOrder, UploadInOrder, DeletionInOrder, ReaderInOrder
<1> QED
  BY <1>2, <1>3, <1>5, <1>6 DEF ChatroomInv, RequestsInOrder

-----------------------------------------------------------------------------
(* Messages move to the front of their list.                                *)
LEMMA FrontOfList ==
  ASSUME NEW s \in Seq(Messages), NEW m \in Messages,
         \A i, j \in DOMAIN s : s[i] = s[j] => i = j
  PROVE  LET t == ToFront(s, m) IN
         /\ t \in Seq(Messages)
         /\ {t[i] : i \in DOMAIN t} = {s[i] : i \in DOMAIN s} \cup {m}
         /\ \A i, j \in DOMAIN t : t[i] = t[j] => i = j
         /\ \A i \in DOMAIN s : s[i] # m => \E j \in DOMAIN t : i <= j /\ t[j] = s[i]
<1> DEFINE there == {i \in DOMAIN s : s[i] = m}
           p == IF there = {} THEN Len(s) + 1 ELSE CHOOSE i \in there : TRUE
           n == IF there = {} THEN Len(s) + 1 ELSE Len(s)
           t == ToFront(s, m)
<1>1. Len(s) \in Nat /\ DOMAIN s = 1 .. Len(s) /\ \A i \in 1 .. Len(s) : s[i] \in Messages
  OBVIOUS
<1>2. /\ n \in Nat /\ p \in Nat /\ p \in 1 .. n /\ Len(s) <= n
      /\ \A i \in 1 .. n : i # p => i \in 1 .. Len(s) /\ s[i] # m
      /\ p \in 1 .. Len(s) => s[p] = m /\ n = Len(s)
  <2>1. CASE there = {}
    <3>1. n = Len(s) + 1 /\ p = Len(s) + 1 /\ \A i \in 1 .. Len(s) : s[i] # m
      BY <2>1, <1>1
    <3> HIDE DEF there, n, p
    <3>2. n \in Nat /\ p \in Nat /\ p \in 1 .. n /\ Len(s) <= n /\ p \notin 1 .. Len(s)
      BY <3>1, <1>1
    <3>3. \A i \in 1 .. n : i # p => i \in 1 .. Len(s)
      BY <3>1, <1>1
    <3> QED
      BY <3>1, <3>2, <3>3
  <2>2. CASE there # {}
    <3>1. n = Len(s) /\ p \in there
      BY <2>2
    <3>2. p \in 1 .. Len(s) /\ s[p] = m
      BY <3>1, <1>1
    <3> HIDE DEF there, n, p
    <3> QED
      BY <3>1, <3>2, <1>1
  <2> QED
    BY <2>1, <2>2
<1>3. t = [i \in 1 .. n |-> IF i = 1 THEN m ELSE IF i <= p THEN s[i - 1] ELSE s[i]]
  BY DEF ToFront
<1> HIDE DEF there, p, n, t
<1>4. DOMAIN t = 1 .. n /\ t[1] = m /\ 1 \in 1 .. n
  BY <1>2, <1>3
<1>5. \A i \in 2 .. p : t[i] = s[i - 1] /\ i - 1 \in 1 .. Len(s) /\ s[i - 1] # m /\ i - 1 < p
  <2>1. SUFFICES ASSUME NEW i \in 2 .. p
                 PROVE  t[i] = s[i - 1] /\ i - 1 \in 1 .. Len(s) /\ s[i - 1] # m /\ i - 1 < p
    OBVIOUS
  <2>2. i - 1 \in 1 .. n /\ i - 1 # p /\ i \in 1 .. n /\ i # 1 /\ i <= p /\ i - 1 < p
    BY <1>2
  <2> QED
    BY <2>2, <1>2, <1>3
<1>6. \A i \in p + 1 .. n : t[i] = s[i] /\ i \in 1 .. Len(s) /\ s[i] # m
  <2>1. SUFFICES ASSUME NEW i \in p + 1 .. n
                 PROVE  t[i] = s[i] /\ i \in 1 .. Len(s) /\ s[i] # m
    OBVIOUS
  <2>2. i \in 1 .. n /\ i # p /\ i # 1 /\ ~(i <= p)
    BY <1>2
  <2> QED
    BY <2>2, <1>2, <1>3
<1>7. \A i \in 1 .. n : i = 1 \/ i \in 2 .. p \/ i \in p + 1 .. n
  BY <1>2
<1>8. t \in Seq(Messages)
  <2>1. \A i \in 1 .. n : t[i] \in Messages
    BY <1>1, <1>4, <1>5, <1>6, <1>7
  <2>2. t \in [1 .. n -> Messages]
    BY <2>1, <1>3
  <2> QED
    BY <2>2, <1>2
<1>9. \A i \in DOMAIN s : s[i] # m => \E j \in DOMAIN t : i <= j /\ t[j] = s[i]
  <2>1. SUFFICES ASSUME NEW i \in 1 .. Len(s), s[i] # m
                 PROVE  \E j \in 1 .. n : i <= j /\ t[j] = s[i]
    BY <1>1, <1>4
  <2>2. CASE i < p
    <3>1. i + 1 \in 2 .. p /\ i + 1 \in 1 .. n /\ (i + 1) - 1 = i /\ i <= i + 1
      BY <2>2, <1>2
    <3>2. t[i + 1] = s[i]
      BY <3>1, <1>5
    <3> QED
      BY <3>1, <3>2
  <2>3. CASE p < i
    <3>0. Len(s) \in Nat /\ n \in Nat /\ p \in Nat /\ Len(s) <= n
      BY <1>1, <1>2
    <3>1. i \in Nat /\ i <= n /\ 1 <= i
      BY <2>1, <3>0
    <3>2. i \in p + 1 .. n /\ i \in 1 .. n /\ i <= i
      BY <3>0, <3>1, <2>3
    <3> QED
      BY <3>2, <1>6
  <2>4. i # p
    BY <2>1, <1>2
  <2> QED
    BY <2>2, <2>3, <2>4, <1>2
<1>10. {t[i] : i \in DOMAIN t} = {s[i] : i \in DOMAIN s} \cup {m}
  <2>1. \A i \in DOMAIN t : t[i] \in {s[k] : k \in DOMAIN s} \cup {m}
    BY <1>1, <1>4, <1>5, <1>6, <1>7
  <2>2. \A i \in DOMAIN s : s[i] \in {t[k] : k \in DOMAIN t}
    BY <1>4, <1>9
  <2>3. m \in {t[k] : k \in DOMAIN t}
    BY <1>4
  <2> QED
    BY <2>1, <2>2, <2>3
<1>11. ASSUME NEW i \in 1 .. n, NEW j \in 1 .. n, t[i] = t[j] PROVE i = j
  <2>1. \A k \in 1 .. n : k # 1 => t[k] # m
    BY <1>5, <1>6, <1>7
  <2>2. CASE i = 1 \/ j = 1
    BY <2>1, <2>2, <1>4, <1>11
  <2>3. CASE i \in 2 .. p /\ j \in 2 .. p
    <3>1. i - 1 = j - 1
      BY <2>3, <1>1, <1>5, <1>11
    <3> QED
      BY <3>1
  <2>4. CASE i \in p + 1 .. n /\ j \in p + 1 .. n
    BY <2>4, <1>1, <1>6, <1>11
  <2>5. CASE i \in 2 .. p /\ j \in p + 1 .. n
    <3>1. i - 1 = j
      BY <2>5, <1>1, <1>5, <1>6, <1>11
    <3> QED
      BY <3>1, <2>5, <1>2
  <2>6. CASE j \in 2 .. p /\ i \in p + 1 .. n
    <3>1. j - 1 = i
      BY <2>6, <1>1, <1>5, <1>6, <1>11
    <3> QED
      BY <3>1, <2>6, <1>2
  <2> QED
    BY <2>2, <2>3, <2>4, <2>5, <2>6, <1>7
<1> QED
  BY <1>4, <1>8, <1>9, <1>10, <1>11 DEF t

(* A message that is stored is the author's only trace of a change.         *)
LEMMA StoredInOrder ==
  ASSUME Types, ListsInOrder, NEW m \in Messages,
         NEW user \in Registered, NEW r \in Rooms, Stored(m, user, r)
  PROVE  /\ list' \in [Rooms -> Seq(Messages)] /\ author' \in [Messages -> Registered \cup {None}]
         /\ ListsInOrder'
         /\ m \in Listed(r)' /\ \A s \in Rooms : Listed(s) \subseteq Listed(s)'
         /\ \A q \in Requests : StaysAhead(q)
<1>1. /\ list \in [Rooms -> Seq(Messages)] /\ author \in [Messages -> Registered \cup {None}]
      /\ author[m] = None /\ author' = [author EXCEPT ![m] = user]
      /\ list' = [list EXCEPT ![r] = ToFront(list[r], m)]
      /\ user # None
  BY ChatroomAssumption DEF Types, Stored
<1>2. \A s \in Rooms : m \notin Listed(s)
  BY <1>1 DEF ListsInOrder
<1>3. list'[r] = ToFront(list[r], m) /\ \A s \in Rooms \ {r} : list'[s] = list[s]
  BY <1>1
<1>4. /\ list'[r] \in Seq(Messages) /\ Listed(r)' = Listed(r) \cup {m}
      /\ \A i, j \in DOMAIN list'[r] : list'[r][i] = list'[r][j] => i = j
      /\ \A i \in DOMAIN list[r] : list[r][i] # m =>
           \E j \in DOMAIN list'[r] : i <= j /\ list'[r][j] = list[r][i]
  <2>1. list[r] \in Seq(Messages) /\ \A i, j \in DOMAIN list[r] : list[r][i] = list[r][j] => i = j
    BY <1>1 DEF ListsInOrder
  <2> DEFINE t == ToFront(list[r], m)
  <2>2. /\ t \in Seq(Messages)
        /\ {t[i] : i \in DOMAIN t} = {list[r][i] : i \in DOMAIN list[r]} \cup {m}
        /\ \A i, j \in DOMAIN t : t[i] = t[j] => i = j
        /\ \A i \in DOMAIN list[r] : list[r][i] # m =>
             \E j \in DOMAIN t : i <= j /\ t[j] = list[r][i]
    BY <2>1, FrontOfList
  <2> HIDE DEF t
  <2>3. list'[r] = t
    BY <1>3 DEF t
  <2> QED
    BY <2>2, <2>3 DEF Listed
<1>5. \A s \in Rooms \ {r} : Listed(s)' = Listed(s)
  BY <1>3 DEF Listed
<1>6. list' \in [Rooms -> Seq(Messages)] /\ author' \in [Messages -> Registered \cup {None}]
  BY <1>1, <1>3, <1>4
<1>7. ListsInOrder'
  <2>1. \A s \in Rooms : \A i, j \in DOMAIN list'[s] : list'[s][i] = list'[s][j] => i = j
    BY <1>3, <1>4 DEF ListsInOrder
  <2>2. \A s1, s2 \in Rooms : s1 # s2 => Listed(s1)' \cap Listed(s2)' = {}
    BY <1>2, <1>4, <1>5 DEF ListsInOrder
  <2>3. \A s \in Rooms : \A n \in Listed(s)' : author'[n] # None
    <3>1. \A s \in Rooms : \A n \in Listed(s) : n \in Messages
      BY <1>1 DEF Listed
    <3> QED
      BY <3>1, <1>1, <1>2, <1>4, <1>5 DEF ListsInOrder
  <2> QED
    BY <2>1, <2>2, <2>3 DEF ListsInOrder
<1>8. ASSUME NEW s \in Rooms, NEW i \in DOMAIN list[s]
      PROVE  \E j \in DOMAIN list'[s] : i <= j /\ list'[s][j] = list[s][i]
  <2>1. list[s][i] # m
    BY <1>2 DEF Listed
  <2>2. i \in Nat
    BY <1>1
  <2> QED
    BY <2>1, <2>2, <1>3, <1>4
<1> QED
  BY <1>4, <1>5, <1>6, <1>7, <1>8 DEF StaysAhead
(* A message that is written again only moves.                              *)
LEMMA RewrittenInOrder ==
  ASSUME Types, ListsInOrder, author' = author, NEW m \in Messages,
         DOMAIN list' = Rooms, list' = [r \in Rooms |-> list'[r]],
         \A r \in Rooms : list'[r] = list[r] \/ (m \in Listed(r) /\ list'[r] = ToFront(list[r], m))
  PROVE  /\ list' \in [Rooms -> Seq(Messages)]
         /\ ListsInOrder'
         /\ \A r \in Rooms : Listed(r)' = Listed(r)
         /\ \A q \in Requests : m \notin req'[q].due => StaysAhead(q)
<1>1. ASSUME NEW r \in Rooms
      PROVE  /\ list'[r] \in Seq(Messages) /\ Listed(r)' = Listed(r)
             /\ \A i, j \in DOMAIN list'[r] : list'[r][i] = list'[r][j] => i = j
             /\ \A i \in DOMAIN list[r] : list[r][i] # m =>
                  \E j \in DOMAIN list'[r] : i <= j /\ list'[r][j] = list[r][i]
  <2>1. list[r] \in Seq(Messages) /\ \A i, j \in DOMAIN list[r] : list[r][i] = list[r][j] => i = j
    BY DEF Types, ListsInOrder
  <2>2. CASE list'[r] = list[r]
    <3>1. \A i \in DOMAIN list[r] : i <= i
      BY <2>1
    <3> QED
      BY <2>1, <2>2, <3>1 DEF Listed
  <2>3. CASE m \in Listed(r) /\ list'[r] = ToFront(list[r], m)
    <3> DEFINE t == ToFront(list[r], m)
    <3>1. /\ t \in Seq(Messages)
          /\ {t[i] : i \in DOMAIN t} = {list[r][i] : i \in DOMAIN list[r]} \cup {m}
          /\ \A i, j \in DOMAIN t : t[i] = t[j] => i = j
          /\ \A i \in DOMAIN list[r] : list[r][i] # m =>
               \E j \in DOMAIN t : i <= j /\ t[j] = list[r][i]
      BY <2>1, FrontOfList
    <3>2. list'[r] = t
      BY <2>3
    <3>3. m \in {list[r][i] : i \in DOMAIN list[r]}
      BY <2>3 DEF Listed
    <3> HIDE DEF t
    <3>4. {t[i] : i \in DOMAIN t} = {list[r][i] : i \in DOMAIN list[r]}
      BY <3>1, <3>3
    <3>5. Listed(r)' = Listed(r)
      BY <3>2, <3>4 DEF Listed
    <3> QED
      BY <3>1, <3>2, <3>5
  <2> QED
    BY <2>2, <2>3
<1>2. list' \in [Rooms -> Seq(Messages)]
  BY <1>1
<1>3. ListsInOrder'
  <2>1. \A r \in Rooms : \A i, j \in DOMAIN list'[r] : list'[r][i] = list'[r][j] => i = j
    BY <1>1
  <2>2. \A r1, r2 \in Rooms : r1 # r2 => Listed(r1)' \cap Listed(r2)' = {}
    BY <1>1 DEF ListsInOrder
  <2>3. \A r \in Rooms : \A n \in Listed(r)' : author'[n] # None
    BY <1>1 DEF ListsInOrder
  <2> QED
    BY <2>1, <2>2, <2>3 DEF ListsInOrder
<1>4. ASSUME NEW q \in Requests, m \notin req'[q].due PROVE StaysAhead(q)
  BY <1>1, <1>4 DEF StaysAhead
<1> QED
  BY <1>1, <1>2, <1>3, <1>4

(* What is left to show of a step that commits.                             *)
LEMMA Committed ==
  ASSUME ChatroomInv, Types', RoomsInOrder', ListsInOrder', RoomsGrow,
         \A p \in Requests : InOrder(p)' \/ (Waits(p) /\ StaysAhead(p))
  PROVE  ChatroomInv'
  BY OthersStayInOrder DEF ChatroomInv, RequestsInOrder, Types

LEMMA SameListsStayAhead ==
  ASSUME Types, list' = list
  PROVE  \A q \in Requests : StaysAhead(q)
<1>1. SUFFICES ASSUME NEW r \in Rooms, NEW i \in DOMAIN list[r]
               PROVE  \E j \in DOMAIN list'[r] : i <= j /\ list'[r][j] = list[r][i]
  BY DEF StaysAhead
<1>2. i \in Nat
  BY DEF Types
<1> QED
  BY <1>2

LEMMA SameListsInOrder ==
  ASSUME ListsInOrder, list' = list, author' = author
  PROVE  ListsInOrder'
<1>1. \A r \in Rooms : Listed(r)' = Listed(r)
  BY DEF Listed
<1> QED
  BY <1>1 DEF ListsInOrder

-----------------------------------------------------------------------------
(* One lemma for each kind of request.                                      *)
LEMMA ReceiveKeepsOrder ==
  ASSUME ChatroomInv, NEW q \in Requests, NEW op \in Operations \ {"chatJob"}, Receive(q, op)
  PROVE  ChatroomInv'
<1>1. /\ Idle \in Records /\ FindOrCreate \in Records
      /\ Idle.step = "done" /\ Idle.op = "none" /\ FindOrCreate.step = "find"
  <2>1. Idle \in Records /\ Idle.step = "done" /\ Idle.op = "none"
    BY ChatroomAssumption DEF Idle, Records, Steps
  <2>2. FindOrCreate \in Records /\ FindOrCreate.step = "find"
    BY <2>1 DEF FindOrCreate, Records, Steps, Operations
  <2> QED
    BY <2>1, <2>2
<1>2. req \in [Requests -> Records] /\ UNCHANGED <<participants, messages>>
  BY DEF Receive, ChatroomInv, Types
<1>3. ASSUME NEW request \in Records, request.step = "find", Ask(q, request) PROVE ChatroomInv'
  <2>1. Changes(q, request) /\ req'[q].step = "find"
    BY <1>2, <1>3 DEF Ask, Changes
  <2>2. InOrder(q)'
    BY <2>1 DEF InOrder, NamesRoom, AnswerInOrder, AdditionInOrder, UploadInOrder, DeletionInOrder, ReaderInOrder
  <2> QED
    BY <1>2, <2>1, <2>2, NothingCommitted
<1>4. CASE op = "findOrCreate"
  <2>1. PICK user \in Registered, who \in SUBSET Users :
          Ask(q, [FindOrCreate EXCEPT !.user = user, !.who = who])
    BY <1>4 DEF Receive
  <2>2. /\ [FindOrCreate EXCEPT !.user = user, !.who = who] \in Records
        /\ [FindOrCreate EXCEPT !.user = user, !.who = who].step = "find"
    BY <1>1 DEF Records
  <2> QED
    BY <1>3, <2>1, <2>2
<1>5. CASE op = "accept"
  <2>1. PICK who \in SUBSET Registered : Ask(q, [FindOrCreate EXCEPT !.op = "accept", !.who = who])
    BY <1>5 DEF Receive
  <2>2. /\ [FindOrCreate EXCEPT !.op = "accept", !.who = who] \in Records
        /\ [FindOrCreate EXCEPT !.op = "accept", !.who = who].step = "find"
    BY <1>1, ChatroomAssumption DEF Records, Operations
  <2> QED
    BY <1>3, <2>1, <2>2
<1>6. CASE op = "addParticipant"
  <2>1. PICK user \in Registered, p \in Users, r \in Rooms :
          Ask(q, [Idle EXCEPT !.op = "addParticipant", !.step = "load", !.user = user, !.who = {p}, !.room = r])
    BY <1>6 DEF Receive
  <2> DEFINE x == [Idle EXCEPT !.op = "addParticipant", !.step = "load", !.user = user, !.who = {p}, !.room = r]
  <2>2. x \in Records /\ x.step = "load" /\ x.room = r
    BY <1>1 DEF Records, Operations, Steps
  <2> HIDE DEF x
  <2>3. Changes(q, x) /\ req'[q].step = "load" /\ req'[q].room = r
    BY <1>2, <2>1, <2>2 DEF Ask, Changes, x
  <2>4. InOrder(q)'
    BY <2>3 DEF InOrder, NamesRoom, AnswerInOrder, AdditionInOrder, UploadInOrder, DeletionInOrder, ReaderInOrder
  <2> QED
    BY <1>2, <2>3, <2>4, NothingCommitted
<1>7. CASE op = "uploadImage"
  <2>1. PICK user \in Registered, r \in Rooms :
          Ask(q, [Idle EXCEPT !.op = "uploadImage", !.step = "permit", !.user = user, !.room = r])
    BY <1>7 DEF Receive
  <2> DEFINE x == [Idle EXCEPT !.op = "uploadImage", !.step = "permit", !.user = user, !.room = r]
  <2>2. x \in Records /\ x.step = "permit" /\ x.room = r /\ x.op = "uploadImage" /\ x.user = user
    BY <1>1 DEF Records, Operations, Steps
  <2> HIDE DEF x
  <2>3. Changes(q, x) /\ req'[q] = x
    BY <1>2, <2>1, <2>2 DEF Ask, Changes, x
  <2>4. InOrder(q)'
    BY <2>2, <2>3 DEF InOrder, NamesRoom, AnswerInOrder, AdditionInOrder, UploadInOrder, DeletionInOrder, ReaderInOrder
  <2> QED
    BY <1>2, <2>3, <2>4, NothingCommitted
<1>8. CASE op = "deleteMessage"
  <2>1. PICK user \in Registered, r \in Rooms, m \in Messages :
          Ask(q, [Idle EXCEPT !.op = "deleteMessage", !.step = "message", !.user = user, !.room = r, !.message = m])
    BY <1>8 DEF Receive
  <2> DEFINE x == [Idle EXCEPT !.op = "deleteMessage", !.step = "message", !.user = user, !.room = r, !.message = m]
  <2>2. x \in Records /\ x.step = "message" /\ x.room = r /\ x.message = m
    BY <1>1 DEF Records, Operations, Steps
  <2> HIDE DEF x
  <2>3. Changes(q, x) /\ req'[q] = x
    BY <1>2, <2>1, <2>2 DEF Ask, Changes, x
  <2>4. InOrder(q)'
    BY <2>2, <2>3 DEF InOrder, NamesRoom, AnswerInOrder, AdditionInOrder, UploadInOrder, DeletionInOrder, ReaderInOrder
  <2> QED
    BY <1>2, <2>3, <2>4, NothingCommitted
<1>9. CASE op = "readMessages"
  <2>1. PICK r \in Rooms :
          Ask(q, [Idle EXCEPT !.op = "readMessages", !.step = "page", !.room = r, !.due = Listed(r)])
    BY <1>9 DEF Receive
  <2> DEFINE x == [Idle EXCEPT !.op = "readMessages", !.step = "page", !.room = r, !.due = Listed(r)]
  <2>2. Listed(r) \subseteq Messages
    BY DEF ChatroomInv, Types, Listed
  <2>3. x \in Records /\ x.step = "page" /\ x.room = r /\ x.op = "readMessages" /\ x.due = Listed(r)
    BY <1>1, <2>2 DEF Records, Operations, Steps
  <2>4. x.page = 1
    BY DEF Idle
  <2> HIDE DEF x
  <2>5. Changes(q, x) /\ req'[q] = x
    BY <1>2, <2>1, <2>3 DEF Ask, Changes, x
  <2>6. req'[q].page = 1 /\ req'[q].room = r /\ req'[q].step = "page" /\ req'[q].op = "readMessages"
        /\ req'[q].due = Listed(r)
    BY <2>3, <2>4, <2>5
  <2>7. ReaderInOrder(q)'
    <3>1. SUFFICES ASSUME NEW m \in Listed(r) PROVE m \in Ahead(q)'
      BY <2>6 DEF ReaderInOrder
    <3>2. PICK i \in DOMAIN list[r] : list[r][i] = m
      BY DEF Listed
    <3>3. Skip(1, PageSize) = 0 /\ i \in Nat /\ 0 < i /\ list' = list
      <4>1. Skip(1, PageSize) = (1 - 1) * PageSize /\ PageSize \in Nat
        BY NextSkip, ChatroomAssumption
      <4> QED
        BY <1>2, <4>1 DEF ChatroomInv, Types, messages
    <3> QED
      BY <2>6, <3>2, <3>3 DEF Ahead
  <2>8. InOrder(q)'
    BY <2>6, <2>7 DEF InOrder, NamesRoom, AnswerInOrder, AdditionInOrder, UploadInOrder, DeletionInOrder
  <2> QED
    BY <1>2, <2>5, <2>8, NothingCommitted
<1> QED
  BY <1>4, <1>5, <1>6, <1>7, <1>8, <1>9 DEF Operations
LEMMA FindingKeepsOrder ==
  ASSUME ChatroomInv, NEW q \in Requests, CheckIfChatroomExists(q) \/ AnswerExisting(q)
  PROVE  ChatroomInv'
<1>1. req \in [Requests -> Records] /\ req[q] \in Records
  BY DEF ChatroomInv, Types
<1>2. CASE CheckIfChatroomExists(q)
  <2>0. UNCHANGED <<participants, messages>>
    BY <1>2 DEF CheckIfChatroomExists
  <2>1. CASE \E r \in Existing(req[q].who) : Goto(q, [req[q] EXCEPT !.user = None, !.room = r], "answer")
    <3>1. PICK r \in Existing(req[q].who) : Goto(q, [req[q] EXCEPT !.user = None, !.room = r], "answer")
      BY <2>1
    <3> DEFINE x == [[req[q] EXCEPT !.user = None, !.room = r] EXCEPT !.step = "answer"]
    <3>2. r \in Rooms /\ Cardinality(members[r]) = 2 /\ members[r] \subseteq req[q].who
      BY DEF Existing
    <3>3. x \in Records /\ x.step = "answer" /\ x.room = r /\ x.who = req[q].who
      BY <1>1, <3>2 DEF Records, Steps
    <3>4. Changes(q, x)
      BY <3>1, <3>3 DEF Goto, Changes
    <3> HIDE DEF x
    <3>5. req'[q] = x
      BY <1>1, <3>4 DEF Changes
    <3>6. members' = members /\ founders' = founders
      BY <2>0 DEF participants
    <3>7. members[r] # {}
      BY <3>2, FS_EmptySet
    <3>8. ASSUME Cardinality(req[q].who) = 2, Cardinality(founders[r]) = 2
          PROVE  req[q].who = founders[r]
      <4>1. req[q].who \in SUBSET Users /\ founders[r] \subseteq members[r]
        BY <1>1, <3>2 DEF Records, ChatroomInv, RoomsInOrder
      <4>2. IsFiniteSet(req[q].who)
        BY <4>1, FS_Subset, ChatroomAssumption
      <4>3. founders[r] \in SUBSET req[q].who
        BY <4>1, <3>2
      <4> QED
        BY <3>8, <4>2, <4>3, FS_Subset
    <3>9. AnswerInOrder(q)'
      BY <3>3, <3>5, <3>6, <3>7, <3>8 DEF AnswerInOrder, Exists
    <3>10. InOrder(q)'
      BY <3>2, <3>3, <3>5, <3>9 DEF InOrder, NamesRoom, AdditionInOrder, UploadInOrder, DeletionInOrder, ReaderInOrder
    <3> QED
      BY <2>0, <3>4, <3>10, NothingCommitted
  <2>2. CASE Goto(q, req[q], "create")
    <3> DEFINE x == [req[q] EXCEPT !.step = "create"]
    <3>1. x \in Records /\ x.step = "create"
      BY <1>1 DEF Records, Steps
    <3>2. Changes(q, x) /\ req'[q].step = "create"
      BY <1>1, <2>2, <3>1 DEF Goto, Changes
    <3>3. InOrder(q)'
      BY <3>2 DEF InOrder, NamesRoom, AnswerInOrder, AdditionInOrder, UploadInOrder, DeletionInOrder, ReaderInOrder
    <3> QED
      BY <2>0, <3>2, <3>3, NothingCommitted
  <2> QED
    BY <1>2, <2>1, <2>2 DEF CheckIfChatroomExists
<1>3. CASE AnswerExisting(q)
  <2>1. [Idle EXCEPT !.step = "done"] = Idle
    BY DEF Idle
  <2>2. Refuse(q)
    BY <1>3, <2>1 DEF AnswerExisting, Answered, Goto, Refuse, Failed
  <2> QED
    BY <2>2, RefuseKeepsOrder
<1> QED
  BY <1>2, <1>3

LEMMA CreationKeepsOrder ==
  ASSUME ChatroomInv, NEW q \in Requests, CreateChatroom(q)
  PROVE  ChatroomInv'
<1>1. CASE Refuse(q)
  BY <1>1, RefuseKeepsOrder
<1>2. CASE Creatable(req[q]) /\ UNCHANGED messages
           /\ \E r \in Rooms :
                /\ ~Exists(r)
                /\ members' = [members EXCEPT ![r] = req[q].who]
                /\ founders' = [founders EXCEPT ![r] = req[q].who]
                /\ participated' = [participated EXCEPT ![r] = req[q].who]
                /\ Answered(q, Idle)
  <2>1. PICK r \in Rooms :
                /\ ~Exists(r)
                /\ members' = [members EXCEPT ![r] = req[q].who]
                /\ founders' = [founders EXCEPT ![r] = req[q].who]
                /\ participated' = [participated EXCEPT ![r] = req[q].who]
                /\ Answered(q, Idle)
    BY <1>2
  <2>2. Failed(q)
    <3>1. [Idle EXCEPT !.step = "done"] = Idle
      BY DEF Idle
    <3> QED
      BY <2>1, <3>1 DEF Answered, Goto, Failed
  <2>3. Changes(q, Idle) /\ InOrder(q)'
    BY <2>2, IdleInOrder DEF ChatroomInv
  <2>4. req' \in [Requests -> Records] /\ \A p \in Requests \ {q} : Waits(p)
    BY <2>3, RequestSteps DEF ChatroomInv
  <2>5. req[q].who \subseteq Registered /\ list' = list /\ author' = author /\ lastMessage' = lastMessage
    BY <1>2 DEF Creatable, messages
  <2>6. Types'
    BY <2>1, <2>4, <2>5 DEF ChatroomInv, Types
  <2>7. members[r] = {} /\ founders[r] = {} /\ participated[r] = {}
    BY <2>1 DEF ChatroomInv, RoomsInOrder, Exists
  <2>8. RoomsInOrder'
    BY <2>1 DEF ChatroomInv, Types, RoomsInOrder
  <2>9. ListsInOrder'
    BY <2>5, SameListsInOrder DEF ChatroomInv
  <2>10. RoomsGrow
    BY <2>1, <2>5, <2>7 DEF ChatroomInv, Types, RoomsGrow, Exists, Listed
  <2> QED
    BY <2>3, <2>4, <2>5, <2>6, <2>8, <2>9, <2>10, Committed, SameListsStayAhead DEF ChatroomInv
<1> QED
  BY <1>1, <1>2 DEF CreateChatroom

LEMMA AdditionKeepsOrder ==
  ASSUME ChatroomInv, NEW q \in Requests, LoadParticipants(q) \/ Reread(q) \/ SaveParticipants(q)
  PROVE  ChatroomInv'
<1>1. req \in [Requests -> Records] /\ req[q] \in Records /\ InOrder(q)
  BY DEF ChatroomInv, Types, RequestsInOrder
<1> DEFINE r == req[q].room
<1>2. CASE LoadParticipants(q)
  <2> DEFINE x == [Idle EXCEPT !.op = "addParticipant", !.room = r, !.copy = members[r] \cup req[q].who, !.step = "reread"]
  <2>1. CASE Refuse(q)
    BY <2>1, RefuseKeepsOrder
  <2>2. CASE /\ Permitted(req[q].user, r) /\ req[q].who \subseteq Registered \ members[r]
             /\ req' = [req EXCEPT ![q] = x]
             /\ UNCHANGED <<participants, messages>>
    <3>1. r \in Rooms
      BY <1>1, <1>2 DEF LoadParticipants, InOrder, NamesRoom
    <3>2. members[r] \subseteq Registered /\ founders[r] \subseteq members[r]
      BY <3>1 DEF ChatroomInv, Types, RoomsInOrder
    <3>3. Idle \in Records
      BY ChatroomAssumption DEF Idle, Records, Steps
    <3>4. x \in Records /\ x.step = "reread" /\ x.room = r /\ x.copy = members[r] \cup req[q].who
      BY <2>2, <3>1, <3>2, <3>3 DEF Records, Steps, Operations
    <3> HIDE DEF x
    <3>5. Changes(q, x) /\ req'[q] = x
      BY <1>1, <2>2, <3>4 DEF Changes
    <3>6. AdditionInOrder(q)'
      BY <2>2, <3>2, <3>4, <3>5 DEF AdditionInOrder, Permitted, Exists, participants
    <3>7. InOrder(q)'
      BY <3>1, <3>4, <3>5, <3>6 DEF InOrder, NamesRoom, AnswerInOrder, UploadInOrder, DeletionInOrder, ReaderInOrder
    <3> QED
      BY <2>2, <3>5, <3>7, NothingCommitted
  <2> QED
    BY <1>2, <2>1, <2>2 DEF LoadParticipants, Goto
<1>3. CASE Reread(q)
  <2> DEFINE x == [[req[q] EXCEPT !.db = members[req[q].room]] EXCEPT !.step = "save"]
  <2>1. r \in Rooms /\ Exists(r) /\ founders[r] \subseteq req[q].copy /\ members[r] \subseteq Registered
    BY <1>1, <1>3 DEF Reread, InOrder, NamesRoom, AdditionInOrder, ChatroomInv, Types
  <2>2. x \in Records /\ x.step = "save" /\ x.room = r /\ x.copy = req[q].copy
    BY <1>1, <2>1 DEF Records, Steps
  <2>3. Changes(q, x) /\ UNCHANGED <<participants, messages>>
    BY <1>3, <2>2 DEF Reread, Goto, Changes
  <2> HIDE DEF x
  <2>4. req'[q] = x
    BY <1>1, <2>3 DEF Changes
  <2>5. AdditionInOrder(q)'
    BY <2>1, <2>2, <2>3, <2>4 DEF AdditionInOrder, Exists, participants
  <2>6. InOrder(q)'
    BY <2>1, <2>2, <2>4, <2>5 DEF InOrder, NamesRoom, AnswerInOrder, UploadInOrder, DeletionInOrder, ReaderInOrder
  <2> QED
    BY <2>3, <2>6, NothingCommitted
<1>4. CASE SaveParticipants(q)
  <2> DEFINE inserted == req[q].copy \ req[q].db
             deleted == req[q].db \ req[q].copy
  <2>1. CASE Refuse(q)
    BY <2>1, RefuseKeepsOrder
  <2>2. CASE /\ members' = [members EXCEPT ![r] = (@ \ deleted) \cup inserted]
             /\ participated' = [participated EXCEPT ![r] = @ \cup inserted]
             /\ Answered(q, Idle)
             /\ UNCHANGED <<founders, messages>>
    <3>1. r \in Rooms /\ members[r] # {} /\ founders[r] \subseteq req[q].copy
      BY <1>1, <1>4 DEF SaveParticipants, InOrder, NamesRoom, AdditionInOrder, Exists
    <3>2. inserted \subseteq Registered
      BY <1>1 DEF Records
    <3>3. Failed(q)
      <4>1. [Idle EXCEPT !.step = "done"] = Idle
        BY DEF Idle
      <4> QED
        BY <2>2, <4>1 DEF Answered, Goto, Failed
    <3>4. Changes(q, Idle) /\ InOrder(q)'
      BY <3>3, IdleInOrder DEF ChatroomInv
    <3>5. req' \in [Requests -> Records] /\ \A p \in Requests \ {q} : Waits(p)
      BY <3>4, RequestSteps DEF ChatroomInv
    <3>6. list' = list /\ author' = author /\ lastMessage' = lastMessage /\ founders' = founders
      BY <2>2 DEF messages
    <3>7. Types'
      BY <2>2, <3>1, <3>2, <3>5, <3>6 DEF ChatroomInv, Types
    <3>8. founders[r] # {} /\ founders[r] \subseteq members[r] \ deleted
      BY <3>1 DEF ChatroomInv, RoomsInOrder
    <3> HIDE DEF inserted, deleted
    <3>9. RoomsInOrder'
      BY <2>2, <3>1, <3>6, <3>8 DEF ChatroomInv, Types, RoomsInOrder
    <3>10. ListsInOrder'
      BY <3>6, SameListsInOrder DEF ChatroomInv
    <3>11. RoomsGrow
      BY <2>2, <3>1, <3>6, <3>8 DEF ChatroomInv, Types, RoomsGrow, Exists, Listed
    <3> QED
      BY <3>4, <3>5, <3>6, <3>7, <3>9, <3>10, <3>11, Committed, SameListsStayAhead DEF ChatroomInv
  <2> QED
    BY <1>4, <2>1, <2>2 DEF SaveParticipants
<1> QED
  BY <1>2, <1>3, <1>4
LEMMA UploadKeepsOrder ==
  ASSUME ChatroomInv, NEW q \in Requests,
         FindChatroomById(q) \/ CheckAuthor(q) \/ SaveImage(q) \/ UpdateChatroomOnNewMessage(q)
  PROVE  ChatroomInv'
<1>1. req \in [Requests -> Records] /\ req[q] \in Records /\ InOrder(q)
  BY DEF ChatroomInv, Types, RequestsInOrder
<1>2. /\ req[q].step \in {"permit", "author", "image", "last"}
      /\ req[q].room \in Rooms /\ req[q].op = "uploadImage" /\ req[q].user \in Registered
  BY <1>1 DEF FindChatroomById, CheckAuthor, SaveImage, UpdateChatroomOnNewMessage, InOrder,
              NamesRoom, UploadInOrder
<1> DEFINE r == req[q].room
<1>3. CASE FindChatroomById(q)
  <2> DEFINE x == [req[q] EXCEPT !.step = "author"]
  <2>1. CASE Refuse(q)
    BY <2>1, RefuseKeepsOrder
  <2>2. CASE Goto(q, req[q], "author") /\ UNCHANGED <<participants, messages>>
    <3>1. /\ x \in Records /\ x.step = "author" /\ x.room = r /\ x.op = "uploadImage"
          /\ x.user = req[q].user /\ x.message = req[q].message
      BY <1>1, <1>2 DEF Records, Steps
    <3>2. Changes(q, x) /\ req'[q] = x
      BY <1>1, <2>2, <3>1 DEF Goto, Changes
    <3> HIDE DEF x
    <3>3. InOrder(q)'
      BY <1>1, <1>2, <2>2, <3>1, <3>2 DEF InOrder, NamesRoom, AnswerInOrder, AdditionInOrder,
         UploadInOrder, DeletionInOrder, ReaderInOrder, participants
    <3> QED
      BY <2>2, <3>2, <3>3, NothingCommitted
  <2> QED
    BY <1>3, <2>1, <2>2 DEF FindChatroomById, Refuse
<1>4. CASE CheckAuthor(q)
  <2> DEFINE x == [req[q] EXCEPT !.step = "image"]
  <2>1. CASE Refuse(q)
    BY <2>1, RefuseKeepsOrder
  <2>2. CASE req[q].user \in members[r] /\ Goto(q, req[q], "image") /\ UNCHANGED <<participants, messages>>
    <3>1. x \in Records /\ x.step = "image" /\ x.room = r /\ x.op = "uploadImage" /\ x.user = req[q].user
      BY <1>1, <1>2 DEF Records, Steps
    <3>2. Changes(q, x) /\ req'[q] = x
      BY <1>1, <2>2, <3>1 DEF Goto, Changes
    <3>3. req[q].user \in participated'[r]
      BY <1>2, <2>2 DEF ChatroomInv, RoomsInOrder, participants
    <3> HIDE DEF x
    <3>4. InOrder(q)'
      BY <1>2, <3>1, <3>2, <3>3 DEF InOrder, NamesRoom, AnswerInOrder, AdditionInOrder, UploadInOrder, DeletionInOrder, ReaderInOrder
    <3> QED
      BY <2>2, <3>2, <3>4, NothingCommitted
  <2> QED
    BY <1>4, <2>1, <2>2 DEF CheckAuthor, Refuse
<1>5. CASE SaveImage(q)
  <2>1. PICK m \in Messages :
          Stored(m, req[q].user, req[q].room) /\ Goto(q, [req[q] EXCEPT !.message = m], "last")
    BY <1>5 DEF SaveImage
  <2>0. PICK home \in Rooms : home = req[q].room
    BY <1>2
  <2> DEFINE x == [[req[q] EXCEPT !.message = m] EXCEPT !.step = "last"]
  <2>2. members' = members /\ founders' = founders /\ participated' = participated /\ lastMessage' = lastMessage
    BY <1>5 DEF SaveImage, participants
  <2>3. req[q].user \in participated[home]
    BY <1>1, <1>5, <2>0 DEF SaveImage, InOrder, UploadInOrder
  <2>4. /\ list' \in [Rooms -> Seq(Messages)] /\ author' \in [Messages -> Registered \cup {None}]
        /\ ListsInOrder'
        /\ m \in Listed(home)' /\ \A s \in Rooms : Listed(s) \subseteq Listed(s)'
        /\ \A p \in Requests : StaysAhead(p)
    BY <1>2, <2>0, <2>1, <2>2, <2>3, StoredInOrder DEF ChatroomInv
  <2>5. x \in Records /\ x.step = "last" /\ x.room = r /\ x.op = "uploadImage"
        /\ x.user = req[q].user /\ x.message = m
    BY <1>1, <1>2 DEF Records, Steps
  <2>6. Changes(q, x)
    BY <2>1, <2>5 DEF Goto, Changes
  <2>7. req' \in [Requests -> Records] /\ req'[q] = x /\ \A p \in Requests \ {q} : Waits(p)
    BY <2>6, RequestSteps DEF ChatroomInv
  <2> HIDE DEF x
  <2>8. Types'
    BY <2>2, <2>4, <2>7 DEF ChatroomInv, Types
  <2>9. RoomsInOrder' /\ RoomsGrow
    BY <2>2, <2>4 DEF ChatroomInv, RoomsInOrder, RoomsGrow, Exists
  <2>10. UploadInOrder(q)'
    <3>1. req'[q].message \in Listed(home)' /\ req'[q].room = home
      BY <2>0, <2>4, <2>5, <2>7
    <3>2. req'[q].user \in participated'[home]
      BY <2>2, <2>3, <2>5, <2>7
    <3> QED
      BY <1>2, <2>5, <2>7, <3>1, <3>2 DEF UploadInOrder, Listed
  <2>11. InOrder(q)'
    BY <1>2, <2>5, <2>7, <2>10 DEF InOrder, NamesRoom, AnswerInOrder, AdditionInOrder, DeletionInOrder, ReaderInOrder
  <2> QED
    BY <2>4, <2>7, <2>8, <2>9, <2>11, Committed
<1>6. CASE UpdateChatroomOnNewMessage(q)
  <2> DEFINE x == [req[q] EXCEPT !.step = "done"]
  <2>1. /\ lastMessage' = [lastMessage EXCEPT ![r] = req[q].message] /\ req' = [req EXCEPT ![q] = x]
        /\ members' = members /\ founders' = founders /\ participated' = participated
        /\ list' = list /\ author' = author
    BY <1>6 DEF UpdateChatroomOnNewMessage, Answered, Goto, participants
  <2>2. req[q].message \in Listed(r) /\ req[q].message \in Messages
    BY <1>1, <1>2, <1>6 DEF UpdateChatroomOnNewMessage, InOrder, UploadInOrder, ChatroomInv, Types, Listed
  <2>3. /\ x \in Records /\ x.step = "done" /\ x.room = r /\ x.op = "uploadImage"
        /\ x.user = req[q].user /\ req[q].user \in participated[r]
    BY <1>1, <1>2, <1>6 DEF Records, Steps, UpdateChatroomOnNewMessage, InOrder, UploadInOrder
  <2>4. Changes(q, x)
    BY <2>1, <2>3 DEF Changes
  <2>5. req' \in [Requests -> Records] /\ req'[q] = x /\ \A p \in Requests \ {q} : Waits(p)
    BY <2>4, RequestSteps DEF ChatroomInv
  <2> HIDE DEF x
  <2>6. Types'
    BY <1>2, <2>1, <2>2, <2>5 DEF ChatroomInv, Types
  <2>7. RoomsInOrder' /\ ListsInOrder'
    BY <2>1, SameListsInOrder DEF ChatroomInv, RoomsInOrder
  <2>8. \A s \in Rooms : Listed(s)' = Listed(s)
    BY <2>1 DEF Listed
  <2>9. lastMessage'[r] = req[q].message /\ \A s \in Rooms \ {r} : lastMessage'[s] = lastMessage[s]
    BY <1>2, <2>1 DEF ChatroomInv, Types
  <2>10. RoomsGrow
    BY <2>1, <2>2, <2>8, <2>9 DEF RoomsGrow, Exists
  <2>11. UploadInOrder(q)'
    BY <1>2, <2>1, <2>2, <2>3, <2>5, <2>9 DEF UploadInOrder, Listed
  <2>12. InOrder(q)'
    BY <2>3, <2>5, <2>11 DEF InOrder, NamesRoom, AnswerInOrder, AdditionInOrder, DeletionInOrder, ReaderInOrder
  <2> QED
    BY <2>1, <2>5, <2>6, <2>7, <2>10, <2>12, Committed, SameListsStayAhead DEF ChatroomInv
<1> QED
  BY <1>3, <1>4, <1>5, <1>6

LEMMA DeletionKeepsOrder ==
  ASSUME ChatroomInv, NEW q \in Requests, FindMessage(q) \/ DeleteMessage(q)
  PROVE  ChatroomInv'
<1>1. req \in [Requests -> Records] /\ req[q] \in Records /\ InOrder(q)
  BY DEF ChatroomInv, Types, RequestsInOrder
<1>2. req[q].step \in {"message", "delete"} /\ req[q].room \in Rooms /\ req[q].message \in Messages
  BY <1>1 DEF FindMessage, DeleteMessage, InOrder, NamesRoom, DeletionInOrder
<1> DEFINE m == req[q].message
<1>3. CASE FindMessage(q)
  <2> DEFINE x == [req[q] EXCEPT !.step = "delete"]
  <2>1. CASE Refuse(q)
    BY <2>1, RefuseKeepsOrder
  <2>2. CASE Goto(q, req[q], "delete") /\ UNCHANGED <<participants, messages>>
    <3>1. x \in Records /\ x.step = "delete" /\ x.room = req[q].room /\ x.message = m
      BY <1>1 DEF Records, Steps
    <3>2. Changes(q, x) /\ req'[q] = x
      BY <1>1, <2>2, <3>1 DEF Goto, Changes
    <3> HIDE DEF x
    <3>3. InOrder(q)'
      BY <1>2, <3>1, <3>2 DEF InOrder, NamesRoom, AnswerInOrder, AdditionInOrder, UploadInOrder, DeletionInOrder, ReaderInOrder
    <3> QED
      BY <2>2, <3>2, <3>3, NothingCommitted
  <2> QED
    BY <1>3, <2>1, <2>2 DEF FindMessage, Refuse
<1>4. CASE DeleteMessage(q)
  <2>1. /\ list' = [s \in Rooms |-> IF m \in Listed(s) THEN ToFront(list[s], m) ELSE list[s]]
        /\ req' = Touch([req EXCEPT ![q] = Idle], m)
        /\ members' = members /\ founders' = founders /\ participated' = participated
        /\ lastMessage' = lastMessage /\ author' = author
    BY <1>4 DEF DeleteMessage, participants
  <2>2. Idle \in Records /\ Idle.step = "done" /\ Idle.op = "none"
    BY ChatroomAssumption DEF Idle, Records, Steps
  <2>3. ASSUME NEW p \in Requests \ {q} PROVE Waits(p) /\ m \notin req'[p].due
    <3>1. req[p] \in Records /\ req'[p] = [req[p] EXCEPT !.due = req[p].due \ {m}]
      BY <1>1, <2>1 DEF Touch
    <3> QED
      BY <3>1 DEF Records, Waits
  <2>4. req'[q] \in Records /\ req'[q].step = "done" /\ req'[q].op = "none"
    <3>1. req'[q] = [Idle EXCEPT !.due = @ \ {m}]
      BY <1>1, <2>1 DEF Touch
    <3> QED
      BY <2>2, <3>1 DEF Records
  <2>5. req' \in [Requests -> Records]
    <3>1. \A p \in Requests : req'[p] \in Records
      BY <2>3, <2>4 DEF Waits
    <3> QED
      BY <2>1, <3>1 DEF Touch
  <2>6. /\ DOMAIN list' = Rooms /\ list' = [r \in Rooms |-> list'[r]]
        /\ \A r \in Rooms : list'[r] = list[r] \/ (m \in Listed(r) /\ list'[r] = ToFront(list[r], m))
    BY <2>1
  <2>7. /\ list' \in [Rooms -> Seq(Messages)] /\ ListsInOrder'
        /\ \A r \in Rooms : Listed(r)' = Listed(r)
        /\ \A p \in Requests : m \notin req'[p].due => StaysAhead(p)
    BY <1>2, <2>1, <2>6, RewrittenInOrder DEF ChatroomInv
  <2>8. Types'
    BY <2>1, <2>5, <2>7 DEF ChatroomInv, Types
  <2>9. RoomsInOrder' /\ RoomsGrow
    BY <2>1, <2>7 DEF ChatroomInv, RoomsInOrder, RoomsGrow, Exists
  <2>10. InOrder(q)'
    BY <2>4 DEF InOrder, NamesRoom, AnswerInOrder, AdditionInOrder, UploadInOrder, DeletionInOrder, ReaderInOrder
  <2> QED
    BY <2>3, <2>7, <2>8, <2>9, <2>10, Committed
<1> QED
  BY <1>3, <1>4

(* After a page the reader has seen what it was due, or has it ahead.       *)
LEMMA ReadingKeepsOrder ==
  ASSUME ChatroomInv, NEW q \in Requests, ReadPage(q)
  PROVE  ChatroomInv'
<1>1. req \in [Requests -> Records] /\ req[q] \in Records /\ InOrder(q) /\ req[q].step = "page"
  BY DEF ChatroomInv, Types, RequestsInOrder, ReadPage
<1>2. req[q].room \in Rooms /\ req[q].op = "readMessages" /\ req[q].due \subseteq req[q].seen \cup Ahead(q)
  BY <1>1 DEF InOrder, NamesRoom, ReaderInOrder
<1> DEFINE s == list[req[q].room]
           page == req[q].page
           rows == Rows(Skip(page, PageSize), Take(PageSize), Len(s))
           after == [req[q] EXCEPT !.seen = @ \cup {s[i] : i \in rows}, !.page = @ + 1]
<1>3. s \in Seq(Messages) /\ Len(s) \in Nat /\ DOMAIN s = 1 .. Len(s) /\ page \in Nat \ {0} /\ PageSize \in Nat \ {0}
  BY <1>1, <1>2, ChatroomAssumption DEF ChatroomInv, Types, Records
<1>4. /\ Skip(page, PageSize) \in Nat /\ Skip(page + 1, PageSize) = Skip(page, PageSize) + PageSize
      /\ rows = {i \in 1 .. Len(s) : Skip(page, PageSize) < i /\ i <= Skip(page, PageSize) + PageSize}
  <2>1. Take(PageSize) = PageSize
    BY <1>3 DEF Take
  <2> QED
    BY <1>3, <2>1, NextSkip DEF Rows
<1>5. PICK step \in {"done", "page"} :
        /\ step = "done" => Cardinality(rows) < PageSize
        /\ req' = [req EXCEPT ![q] = [after EXCEPT !.step = step]]
        /\ UNCHANGED <<participants, messages>>
  BY DEF ReadPage, Answered, Goto
<1> DEFINE x == [after EXCEPT !.step = step]
<1>6. {s[i] : i \in rows} \subseteq Messages
  BY <1>3, <1>4
<1> HIDE DEF rows, s, page
<1>7. /\ x \in Records /\ x.step = step /\ x.op = "readMessages" /\ x.room = req[q].room
      /\ x.due = req[q].due /\ x.seen = req[q].seen \cup {s[i] : i \in rows} /\ x.page = page + 1
  <2>1. after \in Records
    <3>1. req[q].seen \cup {s[i] : i \in rows} \in SUBSET Messages
      BY <1>1, <1>6 DEF Records
    <3>2. req[q].page + 1 \in Nat \ {0}
      BY <1>3 DEF page
    <3> DEFINE seen == req[q].seen \cup {s[i] : i \in rows}
               next == req[q].page + 1
    <3>3. after = [req[q] EXCEPT !.seen = seen, !.page = next]
      OBVIOUS
    <3> HIDE DEF seen, next, after
    <3>4. seen \in SUBSET Messages /\ next \in Nat \ {0}
      BY <3>1, <3>2 DEF seen, next
    <3> QED
      BY <1>1, <3>3, <3>4 DEF Records
  <2>2. x \in Records /\ x.step = step
    BY <2>1 DEF Records, Steps
  <2> QED
    BY <1>1, <1>2, <2>2 DEF Records, page
<1> HIDE DEF x, after
<1>8. Changes(q, x) /\ req'[q] = x
  BY <1>1, <1>5, <1>7 DEF Changes, x
<1>9. ASSUME NEW m \in req[q].due, m \notin x.seen
      PROVE  \E i \in DOMAIN s : Skip(page + 1, PageSize) < i /\ s[i] = m
  <2>1. PICK i \in DOMAIN s : Skip(page, PageSize) < i /\ s[i] = m
    BY <1>2, <1>7, <1>9 DEF Ahead, s, page
  <2>2. i \notin rows
    BY <1>7, <1>9, <2>1
  <2>3. i \in 1 .. Len(s) /\ i \in Nat
    BY <1>3, <2>1
  <2>4. Skip(page + 1, PageSize) < i
    BY <1>3, <1>4, <2>1, <2>2, <2>3
  <2> QED
    BY <2>1, <2>4
<1>10. CASE step = "page"
  <2>1. list' = list /\ req'[q].page = page + 1 /\ req'[q].room = req[q].room
    BY <1>5, <1>7, <1>8 DEF messages
  <2>2. \A m \in req[q].due : m \notin x.seen => m \in Ahead(q)'
    BY <1>9, <2>1 DEF Ahead, s
  <2>3. ReaderInOrder(q)'
    BY <1>7, <1>8, <1>10, <2>2 DEF ReaderInOrder
  <2>4. InOrder(q)'
    BY <1>2, <1>7, <1>8, <1>10, <2>3 DEF InOrder, NamesRoom, AnswerInOrder, AdditionInOrder, UploadInOrder, DeletionInOrder
  <2> QED
    BY <1>5, <1>8, <2>4, NothingCommitted
<1>11. CASE step = "done"
  <2>1. ASSUME NEW m \in req[q].due, m \notin x.seen PROVE FALSE
    <3>1. PICK i \in DOMAIN s : Skip(page + 1, PageSize) < i /\ s[i] = m
      BY <1>9, <2>1
    <3> DEFINE skip == Skip(page, PageSize)
    <3>2. i \in Nat /\ i <= Len(s) /\ skip + PageSize < i /\ skip \in Nat
      BY <1>3, <1>4, <3>1
    <3>3. skip + 1 .. skip + PageSize = rows
      BY <1>3, <1>4, <3>2
    <3> HIDE DEF skip
    <3>4. Cardinality(skip + 1 .. skip + PageSize) = PageSize
      <4>1. /\ skip + 1 \in Int /\ skip + PageSize \in Int /\ ~(skip + 1 > skip + PageSize)
            /\ (skip + PageSize) - (skip + 1) + 1 = PageSize
        BY <1>3, <3>2
      <4> QED
        BY <4>1, FS_Interval
    <3> QED
      BY <1>3, <1>5, <1>11, <3>3, <3>4
  <2>2. ReaderInOrder(q)'
    BY <1>7, <1>8, <1>11, <2>1 DEF ReaderInOrder
  <2>3. InOrder(q)'
    BY <1>7, <1>8, <1>11, <2>2 DEF InOrder, NamesRoom, AnswerInOrder, AdditionInOrder, UploadInOrder, DeletionInOrder
  <2> QED
    BY <1>5, <1>8, <2>3, NothingCommitted
<1> QED
  BY <1>10, <1>11
LEMMA ChatJobsKeepOrder ==
  ASSUME ChatroomInv, ChatJob
  PROVE  ChatroomInv'
<1>1. PICK m \in Messages, r \in Rooms :
        \/ WriteStatuses(m, r) \/ NameLastMessage(m, r)
        \/ \E user \in Users : StoreMessage(m, user, r)
  BY DEF ChatJob
<1>2. CASE WriteStatuses(m, r)
  <2>1. /\ m \in Listed(r) /\ list' = [list EXCEPT ![r] = ToFront(list[r], m)] /\ req' = Touch(req, m)
        /\ members' = members /\ founders' = founders /\ participated' = participated
        /\ lastMessage' = lastMessage /\ author' = author
    BY <1>2 DEF WriteStatuses, participants
  <2>2. ASSUME NEW p \in Requests PROVE Waits(p) /\ m \notin req'[p].due
    <3>1. req[p] \in Records /\ req'[p] = [req[p] EXCEPT !.due = req[p].due \ {m}]
      BY <2>1 DEF Touch, ChatroomInv, Types
    <3> QED
      BY <3>1 DEF Records, Waits
  <2>3. req' \in [Requests -> Records]
    BY <2>1, <2>2 DEF Touch, Waits
  <2>4. /\ DOMAIN list' = Rooms /\ list' = [s \in Rooms |-> list'[s]]
        /\ \A s \in Rooms : list'[s] = list[s] \/ (m \in Listed(s) /\ list'[s] = ToFront(list[s], m))
    BY <2>1 DEF ChatroomInv, Types
  <2>5. /\ list' \in [Rooms -> Seq(Messages)] /\ ListsInOrder'
        /\ \A s \in Rooms : Listed(s)' = Listed(s)
        /\ \A p \in Requests : m \notin req'[p].due => StaysAhead(p)
    BY <2>1, <2>4, RewrittenInOrder DEF ChatroomInv
  <2>6. Types'
    BY <2>1, <2>3, <2>5 DEF ChatroomInv, Types
  <2>7. RoomsInOrder' /\ RoomsGrow
    BY <2>1, <2>5 DEF ChatroomInv, RoomsInOrder, RoomsGrow, Exists
  <2> QED
    BY <2>2, <2>5, <2>6, <2>7, Committed
<1>3. ASSUME NEW user \in Users, StoreMessage(m, user, r) PROVE ChatroomInv'
  <2>1. /\ user \in Registered /\ Stored(m, user, r) /\ req' = req
        /\ members' = members /\ founders' = founders /\ participated' = participated
        /\ lastMessage' = lastMessage
    BY <1>3 DEF StoreMessage, participants
  <2>3. /\ list' \in [Rooms -> Seq(Messages)] /\ author' \in [Messages -> Registered \cup {None}]
        /\ ListsInOrder' /\ \A s \in Rooms : Listed(s) \subseteq Listed(s)'
        /\ \A p \in Requests : StaysAhead(p)
    BY <2>1, StoredInOrder DEF ChatroomInv
  <2>4. \A p \in Requests : Waits(p)
    BY <2>1 DEF ChatroomInv, Types, Waits
  <2>5. Types'
    BY <2>1, <2>3 DEF ChatroomInv, Types
  <2>6. RoomsInOrder' /\ RoomsGrow
    BY <2>1, <2>3 DEF ChatroomInv, RoomsInOrder, RoomsGrow, Exists
  <2> QED
    BY <2>3, <2>4, <2>5, <2>6, Committed
<1>4. CASE NameLastMessage(m, r)
  <2>1. /\ m \in Listed(r) /\ lastMessage' = [lastMessage EXCEPT ![r] = m] /\ req' = req
        /\ members' = members /\ founders' = founders /\ participated' = participated
        /\ list' = list /\ author' = author
    BY <1>4 DEF NameLastMessage, participants
  <2>2. Types'
    BY <2>1 DEF ChatroomInv, Types
  <2>3. RoomsInOrder' /\ ListsInOrder'
    BY <2>1, SameListsInOrder DEF ChatroomInv, RoomsInOrder
  <2>4. \A s \in Rooms : Listed(s)' = Listed(s)
    BY <2>1 DEF Listed
  <2>5. lastMessage'[r] = m /\ \A s \in Rooms \ {r} : lastMessage'[s] = lastMessage[s]
    BY <2>1 DEF ChatroomInv, Types
  <2>6. RoomsGrow
    BY <2>1, <2>4, <2>5 DEF RoomsGrow, Exists
  <2>7. \A p \in Requests : Waits(p)
    BY <2>1 DEF ChatroomInv, Types, Waits
  <2> QED
    BY <2>1, <2>2, <2>3, <2>6, <2>7, Committed, SameListsStayAhead DEF ChatroomInv
<1> QED
  BY <1>1, <1>2, <1>3, <1>4

-----------------------------------------------------------------------------
LEMMA NextKeepsOrder == ChatroomInv /\ [Next]_vars => ChatroomInv'
<1> SUFFICES ASSUME ChatroomInv, [Next]_vars PROVE ChatroomInv'
  OBVIOUS
<1>1. ASSUME NEW q \in Requests, Step(q) PROVE ChatroomInv'
  <2>1. CASE QueryFails(q)
    BY <2>1, RefuseKeepsOrder DEF QueryFails
  <2> QED
    BY <1>1, <2>1, FindingKeepsOrder, CreationKeepsOrder, AdditionKeepsOrder, UploadKeepsOrder,
       DeletionKeepsOrder, ReadingKeepsOrder DEF Step
<1>2. ASSUME NEW q \in Requests, NEW op \in Operations \ {"chatJob"}, Receive(q, op)
      PROVE  ChatroomInv'
  BY <1>2, ReceiveKeepsOrder
<1>3. CASE ChatJob
  BY <1>3, ChatJobsKeepOrder
<1>4. CASE UNCHANGED vars
  <2>1. UNCHANGED <<participants, messages>> /\ req' = req
    BY <1>4 DEF vars, participants, messages
  <2>2. Types' /\ RoomsInOrder' /\ RoomsGrow
    BY <2>1 DEF ChatroomInv, Types, RoomsInOrder, RoomsGrow, Listed, Exists, participants, messages
  <2>3. ListsInOrder'
    BY <2>1, SameListsInOrder DEF ChatroomInv, participants, messages
  <2>4. \A q \in Requests : Waits(q) /\ StaysAhead(q)
    BY <2>1, SameListsStayAhead DEF ChatroomInv, Types, Waits, messages
  <2> QED
    BY <2>2, <2>3, <2>4, Committed
<1> QED
  BY <1>1, <1>2, <1>3, <1>4 DEF Next, NextOf

(* Rooms, lists and every open request are in order after any steps of any  *)
(* requests and of the chat queue's jobs, also those that store messages of *)
(* users who are not in the room.                                           *)
THEOREM ChatroomInvariant == Spec => []ChatroomInv
  BY InitInOrder, NextKeepsOrder, PTL DEF Spec

(* Types, and that a message is in one room's list, once.                   *)
THEOREM ChatroomTypes == Spec => []TypeOK
<1>1. ChatroomInv => TypeOK
  <2> SUFFICES ASSUME ChatroomInv PROVE TypeOK
    OBVIOUS
  <2>1. \A r \in Rooms : Exists(r) <=> participated[r] # {}
    BY DEF ChatroomInv, RoomsInOrder, Exists
  <2>2. \A r \in Rooms : Listed(r) \subseteq {m \in Messages : author[m] # None}
    BY DEF ChatroomInv, Types, ListsInOrder, Listed
  <2>3. \A r \in Rooms : founders[r] \cup members[r] \subseteq participated[r]
    BY DEF ChatroomInv, RoomsInOrder
  <2> QED
    BY <2>1, <2>2, <2>3 DEF ChatroomInv, Types, ListsInOrder, TypeOK
<1> QED
  BY <1>1, ChatroomInvariant, PTL

(* However many additions overwrite each other (addParticipantToChatroom),  *)
(* whom a room was created with stays in it.                                *)
THEOREM FoundersAlwaysStay == Spec => []FoundersStay
<1>1. ChatroomInv => FoundersStay
  BY DEF ChatroomInv, RoomsInOrder, FoundersStay
<1> QED
  BY <1>1, ChatroomInvariant, PTL

(* A room that was founded with two users and is found for two users        *)
(* (GET_EXISTING_PRIVATE_CHATROOM) has both of them, whenever findOne reads *)
(* it for the answer.  Of a room founded with one, whose second participant *)
(* an addition may undo, it does not speak.                                 *)
THEOREM AnswersHaveBoth == Spec => []AnswerHasBoth
<1>1. ChatroomInv => AnswerHasBoth
  <2> SUFFICES ASSUME ChatroomInv, NEW q \in Requests, req[q].step = "answer",
                      Cardinality(req[q].who) = 2, Cardinality(founders[req[q].room]) = 2
               PROVE  req[q].who \subseteq members[req[q].room]
    BY DEF AnswerHasBoth
  <2>1. req[q].room \in Rooms /\ req[q].who = founders[req[q].room]
    BY DEF ChatroomInv, RequestsInOrder, InOrder, NamesRoom, AnswerInOrder
  <2> QED
    BY <2>1 DEF ChatroomInv, RoomsInOrder
<1> QED
  BY <1>1, ChatroomInvariant, PTL

(* uploadChatImage stores an image only for one who was a participant of    *)
(* the room, whatever administrators may see and whoever is added meanwhile.*)
THEOREM UploadersTookPart == Spec => []UploaderTookPart
<1>1. ChatroomInv => UploaderTookPart
  BY DEF ChatroomInv, RequestsInOrder, InOrder, UploadInOrder, UploaderTookPart
<1> QED
  BY <1>1, ChatroomInvariant, PTL

(* updateChatroomOnNewMessage comes before the answer: whoever is told that *)
(* an image was sent finds its room among their chatrooms.                  *)
THEOREM ImageRoomsAreListed == Spec => []ImageRoomIsListed
<1>1. ChatroomInv => ImageRoomIsListed
  BY DEF ChatroomInv, RequestsInOrder, InOrder, UploadInOrder, ImageRoomIsListed, ChatroomsOf
<1> QED
  BY <1>1, ChatroomInvariant, PTL

(* Pages by updatedAt skip no message that stays as it is, for any number   *)
(* of messages and size of pages: what is written moves to the front, so    *)
(* others only move to later pages.                                         *)
THEOREM UntouchedAreAlwaysRead == Spec => []UntouchedAreRead
<1>1. ChatroomInv => UntouchedAreRead
  BY DEF ChatroomInv, RequestsInOrder, InOrder, ReaderInOrder, UntouchedAreRead
<1> QED
  BY <1>1, ChatroomInvariant, PTL
-----------------------------------------------------------------------------
(* Additions that do not overlap.                                           *)

(* The request is as it was, but for messages it is no longer due.          *)
Rests(q) ==
  /\ req'[q].step = req[q].step /\ req'[q].room = req[q].room
  /\ req'[q].who = req[q].who /\ req'[q].copy = req[q].copy /\ req'[q].db = req[q].db

(* A request whose room no other one changes goes on adding one user.       *)
LEMMA RestingAddsOne ==
  ASSUME NEW q \in Requests, AddsOne(q), Rests(q),
         \A r \in Rooms : Adding(q, r) => members'[r] = members[r],
         req[q].step = "save" => req[q].room \in Rooms
  PROVE  AddsOne(q)'
<1>1. req'[q].step = "load" => \E p \in Users : req'[q].who = {p}
  BY DEF AddsOne, Rests
<1>2. \A r \in Rooms : Adding(q, r)' =>
        \E p \in Registered \ members'[r] : req'[q].copy = members'[r] \cup {p}
  BY DEF AddsOne, Rests, Adding
<1>3. req'[q].step = "save" => req'[q].db = members'[req'[q].room]
  BY DEF AddsOne, Rests, Adding
<1> QED
  BY <1>1, <1>2, <1>3 DEF AddsOne

LEMMA OthersRest ==
  ASSUME Types, NEW q \in Requests, NEW request, req' = [req EXCEPT ![q] = request]
  PROVE  req'[q] = request /\ \A p \in Requests \ {q} : Rests(p)
  BY DEF Types, Rests

(* A request at none of the awaits of an addition.                          *)
LEMMA ElsewhereAddsOne ==
  ASSUME NEW q \in Requests, req[q].step \notin {"load", "reread", "save"}
  PROVE  AddsOne(q)
  BY DEF AddsOne, Adding

LEMMA TouchedRest ==
  ASSUME Types, NEW requests \in [Requests -> Records], NEW m, req' = Touch(requests, m),
         NEW q \in Requests
  PROVE  /\ req'[q].step = requests[q].step /\ req'[q].room = requests[q].room
         /\ req'[q].who = requests[q].who /\ req'[q].copy = requests[q].copy
         /\ req'[q].db = requests[q].db
  BY DEF Touch, Records
(* Steps of one request that leave the participants alone.                  *)
LEMMA OneRequestMoves ==
  ASSUME ChatroomInv, AdditionsInv, members' = members, NEW q \in Requests, NEW request,
         req' = [req EXCEPT ![q] = request], AddsOne(q)'
  PROVE  \A p \in Requests : AddsOne(p)'
<1>1. \A p \in Requests \ {q} : Rests(p)
  BY OthersRest DEF ChatroomInv
<1>2. ASSUME NEW p \in Requests \ {q} PROVE AddsOne(p)'
  <2>1. req[p].step = "save" => req[p].room \in Rooms
    BY DEF ChatroomInv, RequestsInOrder, InOrder, NamesRoom
  <2> QED
    BY <1>1, <2>1, RestingAddsOne DEF AdditionsInv
<1> QED
  BY <1>2

(* Whatever else a request does, it does not come to an addition.           *)
GoesElsewhere(q) ==
  /\ members' = members
  /\ \E request : /\ req' = [req EXCEPT ![q] = request]
                  /\ request.step \notin {"load", "reread", "save"}

LEMMA GoingElsewhere ==
  ASSUME ChatroomInv, AdditionsInv, NEW q \in Requests, GoesElsewhere(q)
  PROVE  \A p \in Requests : AddsOne(p)'
<1>1. PICK request : /\ req' = [req EXCEPT ![q] = request]
                     /\ request.step \notin {"load", "reread", "save"}
  BY DEF GoesElsewhere
<1>2. req'[q].step \notin {"load", "reread", "save"}
  BY <1>1 DEF ChatroomInv, Types
<1>3. AddsOne(q)'
  BY <1>2, ElsewhereAddsOne DEF AddsOne, Adding
<1> QED
  BY <1>1, <1>3, OneRequestMoves DEF GoesElsewhere

LEMMA GotoStep ==
  ASSUME ChatroomInv, NEW q \in Requests, NEW request \in Records, NEW step, Goto(q, request, step),
         step \notin {"load", "reread", "save"}, members' = members
  PROVE  GoesElsewhere(q)
<1>1. [request EXCEPT !.step = step].step = step
  BY DEF Records
<1> QED
  BY <1>1 DEF Goto, GoesElsewhere

LEMMA FailedStep ==
  ASSUME NEW q \in Requests, Failed(q), members' = members
  PROVE  GoesElsewhere(q)
<1>1. Idle.step = "done"
  BY DEF Idle
<1> QED
  BY <1>1 DEF Failed, GoesElsewhere

LEMMA IdleIsRecord == Idle \in Records
  BY ChatroomAssumption DEF Idle, Records, Steps

LEMMA UnrelatedSteps ==
  ASSUME ChatroomInv, NEW q \in Requests,
         \/ CheckIfChatroomExists(q) \/ AnswerExisting(q) \/ Refuse(q)
         \/ FindChatroomById(q) \/ CheckAuthor(q) \/ SaveImage(q)
         \/ UpdateChatroomOnNewMessage(q) \/ FindMessage(q) \/ ReadPage(q)
  PROVE  GoesElsewhere(q)
<1>1. req[q] \in Records /\ Idle \in Records
  BY IdleIsRecord DEF ChatroomInv, Types
<1>2. members' = members
  BY DEF CheckIfChatroomExists, AnswerExisting, Refuse, FindChatroomById, CheckAuthor, SaveImage,
         UpdateChatroomOnNewMessage, FindMessage, ReadPage, participants
<1>3. CASE Failed(q)
  BY <1>2, <1>3, FailedStep
<1>4. CASE \E step \in Steps \ {"load", "reread", "save"} : Goto(q, req[q], step)
  BY <1>1, <1>2, <1>4, GotoStep
<1>5. CASE CheckIfChatroomExists(q)
  <2>1. CASE \E r \in Existing(req[q].who) : Goto(q, [req[q] EXCEPT !.user = None, !.room = r], "answer")
    <3>1. PICK r \in Existing(req[q].who) : Goto(q, [req[q] EXCEPT !.user = None, !.room = r], "answer")
      BY <2>1
    <3>2. [req[q] EXCEPT !.user = None, !.room = r] \in Records
      BY <1>1 DEF Records, Existing
    <3> QED
      BY <1>2, <3>1, <3>2, GotoStep
  <2> QED
    BY <1>4, <1>5, <2>1 DEF CheckIfChatroomExists, Steps
<1>6. CASE AnswerExisting(q)
  BY <1>1, <1>2, <1>6, GotoStep DEF AnswerExisting, Answered
<1>7. CASE SaveImage(q)
  <2>1. PICK m \in Messages : Goto(q, [req[q] EXCEPT !.message = m], "last")
    BY <1>7 DEF SaveImage
  <2>2. [req[q] EXCEPT !.message = m] \in Records
    BY <1>1 DEF Records
  <2> QED
    BY <1>2, <2>1, <2>2, GotoStep
<1>8. CASE ReadPage(q)
  <2>1. PICK rows : rows = Rows(Skip(req[q].page, PageSize), Take(PageSize), Len(list[req[q].room]))
    OBVIOUS
  <2>2. PICK after : after = [req[q] EXCEPT !.seen = @ \cup {list[req[q].room][i] : i \in rows}, !.page = @ + 1]
    OBVIOUS
  <2>3. Goto(q, after, "done") \/ Goto(q, after, "page")
    BY <1>8, <2>1, <2>2 DEF ReadPage, Answered
  <2>4. [after EXCEPT !.step = "done"].step = "done" /\ [after EXCEPT !.step = "page"].step = "page"
    BY <1>1, <2>2 DEF Records
  <2> QED
    BY <1>2, <2>3, <2>4 DEF Goto, GoesElsewhere
<1>9. CASE FindChatroomById(q) \/ CheckAuthor(q) \/ UpdateChatroomOnNewMessage(q) \/ FindMessage(q)
  BY <1>3, <1>4, <1>9 DEF FindChatroomById, CheckAuthor, UpdateChatroomOnNewMessage, FindMessage, Answered, Steps
<1> QED
  BY <1>3, <1>5, <1>6, <1>7, <1>8, <1>9 DEF Refuse
LEMMA CreationAddsNone ==
  ASSUME ChatroomInv, AdditionsInv, NEW q \in Requests, CreateChatroom(q)
  PROVE  (\A p \in Requests : AddsOne(p)') /\ (members' = members \/ Abstract!Next)
<1>1. CASE Refuse(q)
  <2>1. GoesElsewhere(q)
    BY <1>1, UnrelatedSteps
  <2> QED
    BY <2>1, GoingElsewhere DEF GoesElsewhere
<1>2. CASE /\ Creatable(req[q])
           /\ \E r \in Rooms :
                /\ ~Exists(r)
                /\ members' = [members EXCEPT ![r] = req[q].who]
                /\ Answered(q, Idle)
  <2>1. PICK r \in Rooms :
          ~Exists(r) /\ members' = [members EXCEPT ![r] = req[q].who] /\ Answered(q, Idle)
    BY <1>2
  <2>2. members \in [Rooms -> SUBSET Registered] /\ members[r] = {} /\ req[q].who \subseteq Registered
    BY <1>2, <2>1 DEF ChatroomInv, Types, Exists, Creatable
  <2>3. PICK request : req' = [req EXCEPT ![q] = request] /\ request.step = "done"
    <3>1. [Idle EXCEPT !.step = "done"].step = "done"
      BY DEF Idle
    <3> QED
      BY <2>1, <3>1 DEF Answered, Goto
  <2>4. req'[q].step = "done" /\ \A p \in Requests \ {q} : Rests(p)
    BY <2>3, OthersRest DEF ChatroomInv, Types
  <2>5. AddsOne(q)'
    BY <2>4 DEF AddsOne, Adding
  <2>6. ASSUME NEW p \in Requests \ {q} PROVE AddsOne(p)'
    <3>1. \A s \in Rooms : Adding(p, s) => s # r
      BY <2>1 DEF ChatroomInv, RequestsInOrder, InOrder, AdditionInOrder, Adding
    <3>2. \A s \in Rooms : Adding(p, s) => members'[s] = members[s]
      BY <2>1, <2>2, <3>1
    <3>3. req[p].step = "save" => req[p].room \in Rooms
      BY DEF ChatroomInv, RequestsInOrder, InOrder, NamesRoom
    <3> QED
      BY <2>4, <3>2, <3>3, RestingAddsOne DEF AdditionsInv
  <2>7. CASE req[q].who = {}
    BY <2>1, <2>2, <2>5, <2>6, <2>7
  <2>8. CASE req[q].who # {}
    <3>1. Abstract!Create(r, req[q].who)
      BY <2>1, <2>2, <2>8 DEF Abstract!Create
    <3>2. Abstract!Next
      BY <2>2, <3>1 DEF Abstract!Next
    <3> QED
      BY <2>5, <2>6, <3>2
  <2> QED
    BY <2>7, <2>8
<1> QED
  BY <1>1, <1>2 DEF CreateChatroom

LEMMA LoadingAddsOne ==
  ASSUME ChatroomInv, AdditionsInv, NEW q \in Requests, LoadParticipants(q)
  PROVE  (\A p \in Requests : AddsOne(p)') /\ members' = members
<1> DEFINE r == req[q].room
           x == [Idle EXCEPT !.op = "addParticipant", !.room = r, !.copy = members[r] \cup req[q].who, !.step = "reread"]
<1>1. CASE Refuse(q)
  <2>1. GoesElsewhere(q)
    BY <1>1, UnrelatedSteps
  <2> QED
    BY <2>1, GoingElsewhere DEF GoesElsewhere
<1>2. CASE /\ req[q].who \subseteq Registered \ members[r]
           /\ req' = [req EXCEPT ![q] = x]
           /\ UNCHANGED <<participants, messages>>
  <2>1. x.step = "reread" /\ x.room = r /\ x.copy = members[r] \cup req[q].who
    BY DEF Idle
  <2>2. PICK p \in Users : req[q].who = {p}
    BY DEF AdditionsInv, AddsOne, LoadParticipants
  <2> HIDE DEF x
  <2>3. req'[q] = x /\ members' = members
    BY <1>2 DEF ChatroomInv, Types, participants
  <2>4. AddsOne(q)'
    BY <1>2, <2>1, <2>2, <2>3 DEF AddsOne, Adding
  <2> QED
    BY <1>2, <2>3, <2>4, OneRequestMoves
<1> QED
  BY <1>1, <1>2 DEF LoadParticipants, Goto

LEMMA RereadingAddsOne ==
  ASSUME ChatroomInv, AdditionsInv, NEW q \in Requests, Reread(q)
  PROVE  (\A p \in Requests : AddsOne(p)') /\ members' = members
<1> DEFINE x == [[req[q] EXCEPT !.db = members[req[q].room]] EXCEPT !.step = "save"]
<1>1. req[q] \in Records /\ req[q].step = "reread" /\ req' = [req EXCEPT ![q] = x] /\ members' = members
  BY DEF ChatroomInv, Types, Reread, Goto, participants
<1>2. x.step = "save" /\ x.room = req[q].room /\ x.copy = req[q].copy /\ x.db = members[req[q].room]
  BY <1>1 DEF Records
<1> HIDE DEF x
<1>3. req'[q] = x
  BY <1>1 DEF ChatroomInv, Types
<1>4. AddsOne(q)'
  BY <1>1, <1>2, <1>3 DEF AdditionsInv, AddsOne, Adding
<1> QED
  BY <1>1, <1>4, OneRequestMoves

(* The copy has one user more than the room: save() inserts that user.      *)
LEMMA SavingAddsOne ==
  ASSUME ChatroomInv, AdditionsInv, NEW q \in Requests, SaveParticipants(q)
  PROVE  (\A p \in Requests : AddsOne(p)') /\ (members' = members \/ Abstract!Next)
<1> DEFINE r == req[q].room
           inserted == req[q].copy \ req[q].db
           deleted == req[q].db \ req[q].copy
<1>1. CASE Refuse(q)
  <2>1. GoesElsewhere(q)
    BY <1>1, UnrelatedSteps
  <2> QED
    BY <2>1, GoingElsewhere DEF GoesElsewhere
<1>2. CASE members' = [members EXCEPT ![r] = (@ \ deleted) \cup inserted] /\ Answered(q, Idle)
  <2>1. req[q].step = "save" /\ r \in Rooms /\ Exists(r) /\ Adding(q, r)
    BY DEF SaveParticipants, ChatroomInv, RequestsInOrder, InOrder, NamesRoom, AdditionInOrder, Adding
  <2>2. PICK p \in Registered \ members[r] : req[q].copy = members[r] \cup {p}
    BY <2>1 DEF AdditionsInv, AddsOne
  <2>3. req[q].db = members[r]
    BY <2>1 DEF AdditionsInv, AddsOne
  <2>4. inserted = {p} /\ deleted = {}
    BY <2>2, <2>3
  <2> HIDE DEF inserted, deleted
  <2>5. members' = [members EXCEPT ![r] = @ \cup {p}]
    BY <1>2, <2>4
  <2>6. PICK request : req' = [req EXCEPT ![q] = request] /\ request.step = "done"
    <3>1. [Idle EXCEPT !.step = "done"].step = "done"
      BY DEF Idle
    <3> QED
      BY <1>2, <3>1 DEF Answered, Goto
  <2>7. req'[q].step = "done" /\ \A s \in Requests \ {q} : Rests(s)
    BY <2>6, OthersRest DEF ChatroomInv, Types
  <2>8. AddsOne(q)'
    BY <2>7 DEF AddsOne, Adding
  <2>9. ASSUME NEW s \in Requests \ {q} PROVE AddsOne(s)'
    <3>1. \A t \in Rooms : Adding(s, t) => t # r
      BY <2>1 DEF AdditionsInv, AdditionsApart
    <3>2. \A t \in Rooms : Adding(s, t) => members'[t] = members[t]
      BY <2>5, <3>1 DEF ChatroomInv, Types
    <3>3. req[s].step = "save" => req[s].room \in Rooms
      BY DEF ChatroomInv, RequestsInOrder, InOrder, NamesRoom
    <3> QED
      BY <2>7, <3>2, <3>3, RestingAddsOne DEF AdditionsInv
  <2>10. Abstract!Add(r, p)
    BY <2>1, <2>2, <2>5 DEF Abstract!Add, Exists
  <2>11. Abstract!Next
    BY <2>1, <2>2, <2>10 DEF Abstract!Next
  <2> QED
    BY <2>8, <2>9, <2>11
<1> QED
  BY <1>1, <1>2 DEF SaveParticipants
LEMMA AllRest ==
  ASSUME ChatroomInv, AdditionsInv, members' = members, \A p \in Requests : Rests(p)
  PROVE  \A p \in Requests : AddsOne(p)'
<1>1. ASSUME NEW p \in Requests PROVE AddsOne(p)'
  <2>1. req[p].step = "save" => req[p].room \in Rooms
    BY DEF ChatroomInv, RequestsInOrder, InOrder, NamesRoom
  <2> QED
    BY <2>1, RestingAddsOne DEF AdditionsInv
<1> QED
  BY <1>1

(* A write of a message touches what readers are due, nothing else of a     *)
(* request.                                                                 *)
LEMMA MessagesAddNone ==
  ASSUME ChatroomInv, AdditionsInv, ChatJob \/ \E q \in Requests : DeleteMessage(q)
  PROVE  (\A p \in Requests : AddsOne(p)') /\ members' = members
<1>1. req \in [Requests -> Records]
  BY DEF ChatroomInv, Types
<1>2. ASSUME NEW q \in Requests, DeleteMessage(q)
      PROVE  (\A p \in Requests : AddsOne(p)') /\ members' = members
  <2>1. /\ req' = Touch([req EXCEPT ![q] = Idle], req[q].message) /\ members' = members
        /\ [req EXCEPT ![q] = Idle] \in [Requests -> Records]
    BY <1>1, <1>2, IdleIsRecord DEF DeleteMessage, participants
  <2>2. req'[q].step = "done"
    <3>1. Idle.step = "done"
      BY DEF Idle
    <3> QED
      BY <1>1, <2>1, <3>1, TouchedRest DEF ChatroomInv
  <2>3. AddsOne(q)'
    BY <2>2 DEF AddsOne, Adding
  <2>4. ASSUME NEW p \in Requests \ {q} PROVE AddsOne(p)'
    <3>1. [req EXCEPT ![q] = Idle][p] = req[p]
      BY <1>1
    <3>2. Rests(p)
      BY <2>1, <3>1, TouchedRest DEF Rests, ChatroomInv
    <3>3. req[p].step = "save" => req[p].room \in Rooms
      BY DEF ChatroomInv, RequestsInOrder, InOrder, NamesRoom
    <3> QED
      BY <2>1, <3>2, <3>3, RestingAddsOne DEF AdditionsInv
  <2> QED
    BY <2>1, <2>3, <2>4
<1>3. ASSUME NEW m \in Messages, NEW r \in Rooms, WriteStatuses(m, r)
      PROVE  (\A p \in Requests : AddsOne(p)') /\ members' = members
  <2>1. req' = Touch(req, m) /\ members' = members
    BY <1>3 DEF WriteStatuses, participants
  <2>2. \A p \in Requests : Rests(p)
    BY <1>1, <2>1, TouchedRest DEF Rests, ChatroomInv
  <2> QED
    BY <2>1, <2>2, AllRest
<1>4. ASSUME NEW m \in Messages, NEW r \in Rooms, NEW user \in Users, StoreMessage(m, user, r)
      PROVE  (\A p \in Requests : AddsOne(p)') /\ members' = members
  <2>1. members' = members /\ \A p \in Requests : Rests(p)
    BY <1>4 DEF StoreMessage, participants, Rests
  <2> QED
    BY <2>1, AllRest
<1>5. ASSUME NEW m \in Messages, NEW r \in Rooms, NameLastMessage(m, r)
      PROVE  (\A p \in Requests : AddsOne(p)') /\ members' = members
  <2>1. members' = members /\ \A p \in Requests : Rests(p)
    BY <1>5 DEF NameLastMessage, participants, Rests
  <2> QED
    BY <2>1, AllRest
<1> QED
  BY <1>2, <1>3, <1>4, <1>5 DEF ChatJob

LEMMA ReceiveAddsNone ==
  ASSUME ChatroomInv, AdditionsInv, NEW q \in Requests, NEW op \in Operations \ {"chatJob"},
         Receive(q, op)
  PROVE  (\A p \in Requests : AddsOne(p)') /\ members' = members
<1>1. members' = members /\ req \in [Requests -> Records]
  BY DEF Receive, participants, ChatroomInv, Types
<1>2. ASSUME NEW request, Ask(q, request), request.step \notin {"load", "reread", "save"}
      PROVE  \A p \in Requests : AddsOne(p)'
  BY <1>1, <1>2, GoingElsewhere DEF GoesElsewhere, Ask
<1>3. ASSUME NEW user \in Registered, NEW who \in SUBSET Users
      PROVE  /\ [FindOrCreate EXCEPT !.user = user, !.who = who].step = "find"
             /\ [FindOrCreate EXCEPT !.op = "accept", !.who = who].step = "find"
  BY DEF FindOrCreate, Idle
<1>4. CASE op = "findOrCreate"
  <2>1. PICK user \in Registered, who \in SUBSET Users :
          Ask(q, [FindOrCreate EXCEPT !.user = user, !.who = who])
    BY <1>4 DEF Receive
  <2> QED
    BY <1>1, <1>2, <1>3, <2>1
<1>5. CASE op = "accept"
  <2>1. PICK who \in SUBSET Registered : Ask(q, [FindOrCreate EXCEPT !.op = op, !.who = who])
    BY <1>5 DEF Receive
  <2>2. [FindOrCreate EXCEPT !.op = op, !.who = who].step = "find"
    BY DEF FindOrCreate, Idle
  <2> QED
    BY <1>1, <1>2, <2>1, <2>2
<1>6. CASE op = "addParticipant"
  <2>1. PICK user \in Registered, p \in Users, r \in Rooms :
          Ask(q, [Idle EXCEPT !.op = op, !.step = "load", !.user = user, !.who = {p}, !.room = r])
    BY <1>6 DEF Receive
  <2> DEFINE x == [Idle EXCEPT !.op = op, !.step = "load", !.user = user, !.who = {p}, !.room = r]
  <2>2. x.step = "load" /\ x.who = {p}
    BY DEF Idle
  <2> HIDE DEF x
  <2>3. req' = [req EXCEPT ![q] = x] /\ req'[q] = x
    BY <1>1, <2>1 DEF Ask, x
  <2>4. AddsOne(q)'
    BY <2>2, <2>3 DEF AddsOne, Adding
  <2> QED
    BY <1>1, <2>3, <2>4, OneRequestMoves
<1>7. CASE op = "uploadImage"
  <2>1. PICK user \in Registered, r \in Rooms :
          Ask(q, [Idle EXCEPT !.op = op, !.step = "permit", !.user = user, !.room = r])
    BY <1>7 DEF Receive
  <2>2. [Idle EXCEPT !.op = op, !.step = "permit", !.user = user, !.room = r].step = "permit"
    BY DEF Idle
  <2> QED
    BY <1>1, <1>2, <2>1, <2>2
<1>8. CASE op = "deleteMessage"
  <2>1. PICK user \in Registered, r \in Rooms, m \in Messages :
          Ask(q, [Idle EXCEPT !.op = op, !.step = "message", !.user = user, !.room = r, !.message = m])
    BY <1>8 DEF Receive
  <2>2. [Idle EXCEPT !.op = op, !.step = "message", !.user = user, !.room = r, !.message = m].step = "message"
    BY DEF Idle
  <2> QED
    BY <1>1, <1>2, <2>1, <2>2
<1>9. CASE op = "readMessages"
  <2>1. PICK r \in Rooms :
          Ask(q, [Idle EXCEPT !.op = op, !.step = "page", !.room = r, !.due = Listed(r)])
    BY <1>9 DEF Receive
  <2>2. [Idle EXCEPT !.op = op, !.step = "page", !.room = r, !.due = Listed(r)].step = "page"
    BY DEF Idle
  <2> QED
    BY <1>1, <1>2, <2>1, <2>2
<1> QED
  BY <1>1, <1>4, <1>5, <1>6, <1>7, <1>8, <1>9 DEF Operations

LEMMA NextAddsOne ==
  ASSUME ChatroomInv, AdditionsInv, [Next /\ AdditionsApart']_vars
  PROVE  AdditionsInv' /\ [Abstract!Next]_members
<1>1. ASSUME NEW q \in Requests, Step(q)
      PROVE  (\A p \in Requests : AddsOne(p)') /\ (members' = members \/ Abstract!Next)
  <2>1. CASE \/ CheckIfChatroomExists(q) \/ AnswerExisting(q) \/ QueryFails(q)
             \/ FindChatroomById(q) \/ CheckAuthor(q) \/ SaveImage(q)
             \/ UpdateChatroomOnNewMessage(q) \/ FindMessage(q) \/ ReadPage(q)
    <3>1. GoesElsewhere(q)
      BY <2>1, UnrelatedSteps DEF QueryFails
    <3> QED
      BY <3>1, GoingElsewhere DEF GoesElsewhere
  <2> QED
    BY <1>1, <2>1, CreationAddsNone, LoadingAddsOne, RereadingAddsOne, SavingAddsOne, MessagesAddNone
       DEF Step
<1>2. CASE UNCHANGED vars
  <2>1. members' = members /\ req' = req
    BY <1>2 DEF vars
  <2>2. AdditionsApart' /\ \A p \in Requests : Rests(p)
    BY <2>1 DEF AdditionsInv, AdditionsApart, Adding, Rests
  <2> QED
    BY <2>1, <2>2, AllRest DEF AdditionsInv
<1>3. CASE Next /\ AdditionsApart'
  <2>1. (\A p \in Requests : AddsOne(p)') /\ (members' = members \/ Abstract!Next)
    BY <1>1, <1>3, ReceiveAddsNone, MessagesAddNone DEF Next, NextOf
  <2> QED
    BY <1>3, <2>1 DEF AdditionsInv
<1> QED
  BY <1>2, <1>3

LEMMA InitAddsOne == Init => AdditionsInv /\ Abstract!Init
<1> SUFFICES ASSUME Init PROVE AdditionsInv /\ Abstract!Init
  OBVIOUS
<1>1. \A q \in Requests : req[q].step = "done"
  BY DEF Init, Idle
<1> QED
  BY <1>1 DEF Init, AdditionsInv, AdditionsApart, Adding, AddsOne, Abstract!Init

(* Additions that do not overlap in one room (addParticipantToChatroom)     *)
(* implement the abstract ones, whatever else happens in that room and      *)
(* whoever is added to others: each commit lets one registered user in, and *)
(* removes nobody.  FoundersAlwaysStay is all that is left without the      *)
(* restriction.                                                             *)
THEOREM AdditionsAreAtomic == ApartSpec => ImplementsParticipants
<1>1. Init => ChatroomInv /\ AdditionsInv /\ Abstract!Init
  BY InitInOrder, InitAddsOne
<1>2. ChatroomInv /\ AdditionsInv /\ [Next /\ AdditionsApart']_vars
        => ChatroomInv' /\ AdditionsInv' /\ [Abstract!Next]_members
  BY NextKeepsOrder, NextAddsOne
<1> QED
  BY <1>1, <1>2, PTL DEF ApartSpec, ImplementsParticipants, Abstract!Spec
=============================================================================
