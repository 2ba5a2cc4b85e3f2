---------------------------- MODULE AccountsProofs ----------------------------
(***************************************************************************)
(* Accounts' invariants and action properties for any users, codes, sessions *)
(* and requests.                                                             *)
(***************************************************************************)
EXTENDS Accounts, SequenceTheorems, TLAPS

(* What a handler awaits next.                                              *)
Follows ==
  {<<"available", "insert">>, <<"insert", "session">>,
   <<"find", "session">>, <<"find", "issue">>, <<"find", "code">>, <<"find", "verify">>,
   <<"findId", "issue">>, <<"findId", "remove">>, <<"findAddress", "latest">>,
   <<"latest", "readId">>, <<"code", "key">>, <<"code", "read">>, <<"key", "session">>,
   <<"read", "load">>, <<"readId", "load">>, <<"load", "write">>,
   <<"write", "issue">>, <<"write", "expire">>}

Orderly(op, todo) ==
  /\ \A i \in 1 .. Len(todo) - 1 :
       <<todo[i], todo[i + 1]>> \in Follows /\ (op = "refreshToken" => todo[i + 1] = "verify")
  /\ todo # << >> => todo[Len(todo)] # "code"
  /\ op \in Completing => \A i \in 1 .. Len(todo) : todo[i] # "readId"

(* Awaits before which no user is known.                                    *)
Searching == {"available", "insert", "find", "findAddress", "read", "verify"}

Confirmed(id, kind) == CodesOf(id, kind) \cap accepted # {}

Proved(id, kind) == Confirmed(id, kind) \/ <<id, kind>> \in vouched

(* What a request knows at an await, nameOf being the name each id had      *)
(* first: the row it is about to save may be stale, but it is of this user  *)
(* and marks nothing that has not been proved.                              *)
Knows(q, nameOf) ==
  LET r == req[q]
      await == Head(r.todo)
  IN /\ r.mark # None => r.kind \in Kinds
     /\ r.todo # << >> =>
        /\ await \in {"available", "insert"} => r.name \in Names
        /\ await \notin Searching => r.id \in Ids
        /\ await = "code" => r.id \in used /\ r.name = nameOf[r.id]
        /\ await = "read" /\ r.op \in Completing =>
             r.id \in used /\ r.name = nameOf[r.id] /\ Confirmed(r.id, r.kind)
        /\ await \in {"load", "write"} =>
             /\ r.copy \in Rows /\ r.id \in used /\ r.copy.name = nameOf[r.id]
             /\ \A kind \in Kinds : r.copy.verified[kind] =>
                  Proved(r.id, kind) \/ (r.mark = TRUE /\ r.kind = kind)

RetiredExpired == \A c \in retired : code[c] # None /\ code[c].expired

Fits(nameOf) ==
  /\ \A id \in Ids : user[id] # None => user[id].name = nameOf[id]
  /\ \A q \in Requests : Orderly(req[q].op, req[q].todo) /\ Knows(q, nameOf)

Typed ==
  /\ user \in [Ids -> Rows \cup {None}]
  /\ {id \in Ids : user[id] # None} \subseteq used /\ used \subseteq Ids
  /\ code \in [Codes -> Issued \cup {None}]
  /\ \A c \in Codes : code[c] # None => user[code[c].user] # None
  /\ session \in [Tokens -> Ids \cup {None, Ended}]
  /\ \A t \in Tokens : session[t] \in Ids => user[session[t]] # None
  /\ accepted \subseteq Codes /\ retired \subseteq Codes /\ vouched \subseteq Ids \X Kinds
  /\ req \in [Requests -> Handlers]

Stored == Typed /\ Unique /\ RetiredExpired /\ VerifiedUserHadCode

AccountsInv == Stored /\ \E nameOf \in [Ids -> Names \cup {None}] : Fits(nameOf)

-----------------------------------------------------------------------------
(* Handlers as they start, and as they go on.                               *)
LEMMA Programs ==
  ASSUME NEW op \in Operations
  PROVE  /\ Program(op) \in Seq(Awaits) /\ Program(op) # << >> /\ Orderly(op, Program(op))
         /\ Head(Program(op)) \in {"available", "find", "findId", "findAddress", "latest", "read", "readId",
                                   "logout", "addKey"}
         /\ Head(Program(op)) = "available" => ByName(op)
         /\ Head(Program(op)) \in {"findId", "readId", "latest", "logout", "addKey"} => ById(op)
         /\ op \in Completing => Head(Program(op)) = "find"
<1> USE DEF Program, Awaits, Orderly, Follows, ByName, ById, Completing, Linking
<1>1. CASE op = "signup"
  BY <1>1
<1>2. CASE op = "getAccessTokens"
  BY <1>2
<1>3. CASE op = "getLoginOtp"
  BY <1>3
<1>4. CASE op = "signin"
  BY <1>4
<1>5. CASE op = "resendOTP"
  BY <1>5
<1>6. CASE op = "validateOTP"
  BY <1>6
<1>7. CASE op = "completeSignup"
  BY <1>7
<1>8. CASE op = "linkEmail"
  BY <1>8
<1>9. CASE op = "linkPhoneNumber"
  BY <1>9
<1>10. CASE op = "completeEmailUsingOtp"
  BY <1>10
<1>11. CASE op = "completePhoneUsingOtp"
  BY <1>11
<1>12. CASE op = "update"
  BY <1>12
<1>13. CASE op = "updateUser"
  BY <1>13
<1>14. CASE op = "remove"
  BY <1>14
<1>15. CASE op = "refreshToken"
  BY <1>15
<1>16. CASE op = "logout"
  BY <1>16
<1>17. CASE op = "addPublicKey"
  BY <1>17
<1> QED
  BY <1>1, <1>2, <1>3, <1>4, <1>5, <1>6, <1>7, <1>8, <1>9, <1>10, <1>11, <1>12, <1>13, <1>14, <1>15, <1>16, <1>17 DEF Operations

LEMMA IdleIsTyped ==
  /\ Idle \in Handlers /\ Idle.todo = << >> /\ Idle.mark = None /\ Idle.op = "none"
<1>1. None \in AllAddresses /\ "login" \in Types /\ << >> \in Seq(Awaits)
  <2>1. None \in AllAddresses
    BY DEF AllAddresses
  <2>2. "login" \in Types
    BY DEF Types
  <2> QED
    BY <2>1, <2>2, EmptySeq
<1> QED
  <2>1. Idle.todo = << >> /\ Idle.mark = None /\ Idle.op = "none"
    BY DEF Idle
  <2>2. Idle \in Handlers
    BY <1>1, Zenon DEF Idle, Handlers
  <2> QED
    BY <2>1, <2>2

LEMMA OrderlyTail ==
  ASSUME NEW op, NEW todo \in Seq(Awaits), Orderly(op, todo), Len(todo) # 1, todo # << >>
  PROVE  /\ Tail(todo) \in Seq(Awaits) /\ Tail(todo) # << >> /\ Orderly(op, Tail(todo))
         /\ <<Head(todo), Head(Tail(todo))>> \in Follows
         /\ op = "refreshToken" => Head(Tail(todo)) = "verify"
<1>1. Len(todo) \in Nat /\ Len(todo) > 1
  <2>1. Len(todo) \in Nat \ {0} /\ Len(todo) # 1
    BY EmptySeq
  <2> DEFINE n == Len(todo)
  <2>2. n \in Nat /\ n # 0 /\ n # 1
    BY <2>1
  <2> HIDE DEF n
  <2>3. n > 1
    BY <2>2
  <2> QED
    BY <2>2, <2>3 DEF n
<1>2. /\ Tail(todo) \in Seq(Awaits) /\ Len(Tail(todo)) = Len(todo) - 1
      /\ \A i \in 1 .. Len(todo) - 1 : Tail(todo)[i] = todo[i + 1]
      /\ Head(todo) = todo[1]
  BY <1>1
<1>3. Tail(todo) # << >> /\ Head(Tail(todo)) = todo[2]
  <2>1. Tail(todo) # << >>
    BY <1>1, <1>2, EmptySeq
  <2> QED
    BY <1>1, <1>2, <2>1
<1>4. <<todo[1], todo[2]>> \in Follows /\ (op = "refreshToken" => todo[2] = "verify")
  BY <1>1 DEF Orderly
<1>5. Tail(todo)[Len(Tail(todo))] = todo[Len(todo)] /\ todo[Len(todo)] # "code"
  BY <1>1, <1>2 DEF Orderly
<1>6. ASSUME NEW i \in 1 .. Len(Tail(todo)) - 1
      PROVE  /\ <<Tail(todo)[i], Tail(todo)[i + 1]>> \in Follows
             /\ op = "refreshToken" => Tail(todo)[i + 1] = "verify"
  <2>1. i + 1 \in 1 .. Len(todo) - 1 /\ i \in 1 .. Len(todo) - 1
    BY <1>1, <1>2
  <2>2. Tail(todo)[i] = todo[i + 1] /\ Tail(todo)[i + 1] = todo[(i + 1) + 1]
    BY <1>2, <2>1
  <2> QED
    BY <2>1, <2>2 DEF Orderly
<1> QED
  BY <1>2, <1>3, <1>4, <1>5, <1>6 DEF Orderly
LEMMA Fields ==
  ASSUME NEW r \in Handlers
  PROVE  /\ r.op \in Operations \cup {"none"} /\ r.todo \in Seq(Awaits) /\ r.name \in Names \cup {None}
         /\ r.id \in Ids \cup {None} /\ r.kind \in Types /\ r.address \in AllAddresses
         /\ r.mark \in BOOLEAN \cup {None} /\ r.code \in Codes \cup {0} /\ r.token \in Tokens \cup {None}
         /\ r.copy \in Rows \cup {None} /\ r.base \in Rows \cup {None}
  BY DEF Handlers

(* What a step of q does to the requests, r being what q knows after it.    *)
Moved(q, r) ==
  /\ req' \in [Requests -> Handlers]
  /\ \A p \in Requests \ {q} : req'[p] = req[p]
  /\ Orderly(req'[q].op, req'[q].todo)
  /\ \/ req'[q] = Idle
     \/ /\ req'[q] = [r EXCEPT !.todo = Tail(r.todo)]
        /\ req'[q].todo = Tail(r.todo) /\ Tail(r.todo) # << >>
        /\ <<Head(r.todo), Head(Tail(r.todo))>> \in Follows
        /\ r.op = "refreshToken" => Head(Tail(r.todo)) = "verify"
        /\ req'[q].op = r.op /\ req'[q].name = r.name /\ req'[q].id = r.id /\ req'[q].kind = r.kind
        /\ req'[q].mark = r.mark /\ req'[q].copy = r.copy

LEMMA OrderlyIdle == Orderly(Idle.op, Idle.todo)
  <1>1. Idle.todo = << >> /\ Idle.op \notin Completing
    BY IdleIsTyped DEF Completing
  <1> QED
    BY <1>1, EmptySeq DEF Orderly

LEMMA Advance ==
  ASSUME Typed, NEW q \in Requests, Orderly(req[q].op, req[q].todo),
         NEW r \in Handlers, r.todo = req[q].todo, r.op = req[q].op, r.todo # << >>, GoOn(q, r)
  PROVE  Moved(q, r)
<1>1. r.todo \in Seq(Awaits)
  BY Fields
<1>2. CASE Len(r.todo) = 1
  <2>1. req' = [req EXCEPT ![q] = Idle]
    BY <1>2 DEF GoOn
  <2>2. req' \in [Requests -> Handlers] /\ req'[q] = Idle /\ \A p \in Requests \ {q} : req'[p] = req[p]
    BY <2>1, IdleIsTyped DEF Typed
  <2> QED
    BY <2>2, OrderlyIdle DEF Moved
<1>3. CASE Len(r.todo) # 1
  <2>1. req' = [req EXCEPT ![q] = [r EXCEPT !.todo = Tail(r.todo)]]
    BY <1>3 DEF GoOn
  <2>2. /\ Tail(r.todo) \in Seq(Awaits) /\ Tail(r.todo) # << >> /\ Orderly(r.op, Tail(r.todo))
        /\ <<Head(r.todo), Head(Tail(r.todo))>> \in Follows
        /\ r.op = "refreshToken" => Head(Tail(r.todo)) = "verify"
    BY <1>1, <1>3, OrderlyTail
  <2>3. [r EXCEPT !.todo = Tail(r.todo)] \in Handlers
    BY <2>2 DEF Handlers
  <2>4. /\ req' \in [Requests -> Handlers] /\ req'[q] = [r EXCEPT !.todo = Tail(r.todo)]
        /\ \A p \in Requests \ {q} : req'[p] = req[p]
    BY <2>1, <2>3 DEF Typed
  <2>5. /\ req'[q].todo = Tail(r.todo)
        /\ req'[q].op = r.op /\ req'[q].name = r.name /\ req'[q].id = r.id /\ req'[q].kind = r.kind
        /\ req'[q].mark = r.mark /\ req'[q].copy = r.copy
    BY <2>4 DEF Handlers
  <2> QED
    BY <2>2, <2>4, <2>5 DEF Moved
<1> QED
  BY <1>2, <1>3

LEMMA Refused ==
  ASSUME Typed, NEW q \in Requests, Refuse(q)
  PROVE  Moved(q, req[q]) /\ req'[q] = Idle
<1>1. req' \in [Requests -> Handlers] /\ req'[q] = Idle /\ \A p \in Requests \ {q} : req'[p] = req[p]
  BY IdleIsTyped DEF Typed, Refuse
<1> QED
  BY <1>1, OrderlyIdle DEF Moved

LEMMA IdleKnows ==
  ASSUME NEW q, NEW nameOf, req'[q] = Idle
  PROVE  Knows(q, nameOf)'
  BY IdleIsTyped DEF Knows

-----------------------------------------------------------------------------
(* What the others know stays true when only more ids are given out and more *)
(* is proved.                                                               *)
Grown ==
  /\ used \subseteq used' /\ vouched \subseteq vouched'
  /\ \A id, kind : Confirmed(id, kind) => Confirmed(id, kind)'

LEMMA OthersKnow ==
  ASSUME NEW p, NEW nameOf, NEW newName, Grown, \A id \in used : newName[id] = nameOf[id],
         req'[p] = req[p], Knows(p, nameOf)
  PROVE  Knows(p, newName)'
<1> DEFINE r == req[p]
           await == Head(r.todo)
<1>1. \A id, kind : Proved(id, kind) => Proved(id, kind)'
  BY DEF Grown, Proved
<1>2. r' = r
  OBVIOUS
<1>3. r.mark # None => r.kind \in Kinds
  BY DEF Knows
<1>4. ASSUME r.todo # << >>
      PROVE  /\ await \in {"available", "insert"} => r.name \in Names
             /\ await \notin Searching => r.id \in Ids
             /\ await = "code" => r.id \in used' /\ r.name = newName[r.id]
             /\ await = "read" /\ r.op \in Completing =>
                  r.id \in used' /\ r.name = newName[r.id] /\ Confirmed(r.id, r.kind)'
             /\ await \in {"load", "write"} =>
                  /\ r.copy \in Rows /\ r.id \in used' /\ r.copy.name = newName[r.id]
                  /\ \A kind \in Kinds : r.copy.verified[kind] =>
                       Proved(r.id, kind)' \/ (r.mark = TRUE /\ r.kind = kind)
  <2>1. /\ await \in {"available", "insert"} => r.name \in Names
        /\ await \notin Searching => r.id \in Ids
        /\ await = "code" => r.id \in used /\ r.name = nameOf[r.id]
        /\ await = "read" /\ r.op \in Completing =>
             r.id \in used /\ r.name = nameOf[r.id] /\ Confirmed(r.id, r.kind)
        /\ await \in {"load", "write"} =>
             /\ r.copy \in Rows /\ r.id \in used /\ r.copy.name = nameOf[r.id]
             /\ \A kind \in Kinds : r.copy.verified[kind] =>
                  Proved(r.id, kind) \/ (r.mark = TRUE /\ r.kind = kind)
    BY <1>4 DEF Knows
  <2>2. used \subseteq used' /\ (Confirmed(r.id, r.kind) => Confirmed(r.id, r.kind)')
    BY DEF Grown
  <2>3. \A kind : Proved(r.id, kind) => Proved(r.id, kind)'
    BY <1>1
  <2> HIDE DEF r, await
  <2>4. r.id \in used => r.id \in used' /\ newName[r.id] = nameOf[r.id]
    BY <2>2
  <2>5. await \in {"load", "write"} =>
          /\ r.copy \in Rows /\ r.id \in used' /\ r.copy.name = newName[r.id]
          /\ \A kind \in Kinds : r.copy.verified[kind] =>
               Proved(r.id, kind)' \/ (r.mark = TRUE /\ r.kind = kind)
    BY <2>1, <2>3, <2>4, Zenon
  <2> QED
    BY <2>1, <2>2, <2>4, <2>5
<1> QED
  BY <1>2, <1>3, <1>4 DEF Knows

LEMMA FitsNext ==
  ASSUME NEW nameOf, Fits(nameOf), NEW newName, \A id \in used : newName[id] = nameOf[id], Grown,
         \A id \in Ids : user'[id] # None => user'[id].name = newName[id],
         NEW q \in Requests, \A p \in Requests \ {q} : req'[p] = req[p],
         Orderly(req'[q].op, req'[q].todo), Knows(q, newName)'
  PROVE  Fits(newName)'
<1>1. ASSUME NEW p \in Requests
      PROVE  Orderly(req'[p].op, req'[p].todo) /\ Knows(p, newName)'
  <2>1. CASE p = q
    BY <2>1
  <2>2. CASE p # q
    <3>1. req'[p] = req[p] /\ Orderly(req[p].op, req[p].todo) /\ Knows(p, nameOf)
      BY <2>2 DEF Fits
    <3> QED
      BY <3>1, OthersKnow
  <2> QED
    BY <2>1, <2>2
<1> QED
  BY <1>1 DEF Fits

(* Steps that change nothing but the requests.                              *)
Silent == UNCHANGED <<users, codes, session>>

LEMMA SilentGrows ==
  ASSUME Silent
  PROVE  /\ Grown /\ UNCHANGED <<user, used, vouched, code, accepted, retired, session>>
         /\ \A id, kind : Confirmed(id, kind)' = Confirmed(id, kind)
<1>1. UNCHANGED <<user, used, vouched, code, accepted, retired, session>>
  BY DEF Silent, users, codes
<1>2. \A id, kind : Confirmed(id, kind)' = Confirmed(id, kind)
  BY <1>1 DEF Confirmed, CodesOf
<1> QED
  BY <1>1, <1>2 DEF Grown

LEMMA SilentStores ==
  ASSUME Stored, Silent, req' \in [Requests -> Handlers]
  PROVE  Stored'
<1>1. UNCHANGED <<user, used, vouched, code, accepted, retired, session>>
  BY SilentGrows
<1>2. Typed'
  BY <1>1 DEF Stored, Typed
<1>3. Unique' /\ RetiredExpired'
  BY <1>1 DEF Stored, Unique, RetiredExpired
<1>4. VerifiedUserHadCode'
  BY <1>1 DEF Stored, VerifiedUserHadCode, CodesOf
<1> QED
  BY <1>2, <1>3, <1>4 DEF Stored

LEMMA SilentKeeps ==
  ASSUME Stored, NEW nameOf \in [Ids -> Names \cup {None}], Fits(nameOf), Silent,
         NEW q \in Requests, NEW r, Moved(q, r), Knows(q, nameOf)'
  PROVE  AccountsInv'
<1>1. Stored'
  BY SilentStores DEF Moved
<1>2. \A id \in Ids : user'[id] # None => user'[id].name = nameOf[id]
  BY SilentGrows DEF Fits
<1>3. Fits(nameOf)'
  BY <1>2, SilentGrows, FitsNext DEF Moved
<1> QED
  BY <1>1, <1>3 DEF AccountsInv
-----------------------------------------------------------------------------
(* The steps that change nothing but the requests, one by one.              *)
LEMMA Context ==
  ASSUME Stored, NEW nameOf, Fits(nameOf), NEW q \in Requests
  PROVE  /\ Typed /\ req[q] \in Handlers /\ Orderly(req[q].op, req[q].todo) /\ Knows(q, nameOf)
         /\ req[q].mark # None => req[q].kind \in Kinds
  BY DEF Stored, Typed, Fits, Knows

LEMMA KnowsLittle ==
  ASSUME NEW q, NEW nameOf, NEW r, Moved(q, r), r.mark # None => r.kind \in Kinds,
         Head(Tail(r.todo)) \notin {"available", "insert", "code", "read", "load", "write"},
         Head(Tail(r.todo)) \in Searching \/ r.id \in Ids
  PROVE  Knows(q, nameOf)'
<1>1. CASE req'[q] = Idle
  BY <1>1, IdleKnows
<1>2. CASE req'[q] # Idle
  <2>1. /\ req'[q].todo = Tail(r.todo) /\ req'[q].mark = r.mark /\ req'[q].kind = r.kind
        /\ req'[q].id = r.id
    BY <1>2 DEF Moved
  <2> QED
    BY <2>1 DEF Knows
<1> QED
  BY <1>1, <1>2

LEMMA RefuseKeeps ==
  ASSUME Stored, NEW nameOf \in [Ids -> Names \cup {None}], Fits(nameOf), NEW q \in Requests, Refuse(q)
  PROVE  AccountsInv'
<1>1. Moved(q, req[q]) /\ req'[q] = Idle /\ Silent
  BY Context, Refused DEF Refuse, Silent
<1> QED
  BY <1>1, IdleKnows, SilentKeeps

LEMMA CrashKeeps ==
  ASSUME Stored, NEW nameOf \in [Ids -> Names \cup {None}], Fits(nameOf), Crash
  PROVE  AccountsInv'
<1>1. Silent /\ req' \in [Requests -> Handlers] /\ \A q \in Requests : req'[q] = Idle
  BY IdleIsTyped DEF Crash, Silent
<1>2. Stored'
  BY <1>1, SilentStores
<1>3. \A id \in Ids : user'[id] # None => user'[id].name = nameOf[id]
  BY <1>1, SilentGrows DEF Fits
<1>4. \A q \in Requests : Orderly(req'[q].op, req'[q].todo) /\ Knows(q, nameOf)'
  BY <1>1, OrderlyIdle, IdleKnows
<1> QED
  BY <1>2, <1>3, <1>4 DEF AccountsInv, Fits

LEMMA UsernameAvailableKeeps ==
  ASSUME Stored, NEW nameOf \in [Ids -> Names \cup {None}], Fits(nameOf), NEW q \in Requests, UsernameAvailable(q)
  PROVE  AccountsInv'
<1>1. CASE Refuse(q)
  BY <1>1, RefuseKeeps
<1>2. CASE GoOn(q, req[q]) /\ Silent
  <2>1. /\ req[q].todo # << >> /\ Head(req[q].todo) = "available" /\ req[q].name \in Names
        /\ req[q].mark # None => req[q].kind \in Kinds
    BY Context DEF UsernameAvailable, At, Knows
  <2>2. Moved(q, req[q])
    BY <1>2, <2>1, Context, Advance
  <2>3. Knows(q, nameOf)'
    <3>1. CASE req'[q] = Idle
      BY <3>1, IdleKnows
    <3>2. CASE req'[q] # Idle
      <4>1. /\ <<"available", Head(req'[q].todo)>> \in Follows
            /\ req'[q].name \in Names /\ (req'[q].mark # None => req'[q].kind \in Kinds)
        BY <2>1, <2>2, <3>2 DEF Moved
      <4>2. Head(req'[q].todo) = "insert"
        BY <4>1 DEF Follows
      <4> QED
        BY <4>1, <4>2 DEF Knows, Searching
    <3> QED
      BY <3>1, <3>2
  <2> QED
    BY <1>2, <2>2, <2>3, SilentKeeps
<1> QED
  BY <1>1, <1>2 DEF UsernameAvailable, Silent

LEMMA FindUserKeeps ==
  ASSUME Stored, NEW nameOf \in [Ids -> Names \cup {None}], Fits(nameOf), NEW q \in Requests, FindUser(q)
  PROVE  AccountsInv'
<1>1. /\ Typed /\ req[q] \in Handlers /\ (req[q].mark # None => req[q].kind \in Kinds)
      /\ req[q].todo # << >> /\ Head(req[q].todo) = "find"
  BY Context DEF FindUser, At
<1>2. CASE Refuse(q)
  BY <1>2, RefuseKeeps
<1>3. CASE req[q].op = "refreshToken" /\ GoOn(q, req[q]) /\ Silent
  <2>1. Moved(q, req[q])
    BY <1>1, <1>3, Context, Advance
  <2>2. req'[q] = Idle \/ Head(Tail(req[q].todo)) = "verify"
    BY <1>3, <2>1 DEF Moved
  <2>3. Knows(q, nameOf)'
    <3>1. CASE req'[q] = Idle
      BY <3>1, IdleKnows
    <3>2. CASE Head(Tail(req[q].todo)) = "verify"
      BY <1>1, <2>1, <3>2, KnowsLittle DEF Searching
    <3> QED
      BY <2>2, <3>1, <3>2
  <2> QED
    BY <1>3, <2>1, <2>3, SilentKeeps
<1>4. ASSUME Silent, NEW id \in Wanted(req[q]), GoOn(q, [req[q] EXCEPT !.id = id])
      PROVE  AccountsInv'
  <2>1. id \in Ids /\ user[id] # None /\ (req[q].op # "refreshToken" => user[id].name = req[q].name)
    BY DEF Wanted, WithAddress, Named
  <2>2. id \in used /\ (req[q].op # "refreshToken" => req[q].name = nameOf[id])
    BY <1>1, <2>1 DEF Typed, Fits
  <2>3. PICK r : r = [req[q] EXCEPT !.id = id]
    OBVIOUS
  <2>4. /\ r \in Handlers /\ r.todo = req[q].todo /\ r.op = req[q].op /\ r.name = req[q].name
        /\ r.id = id /\ r.mark = req[q].mark /\ r.kind = req[q].kind
    BY <1>1, <2>1, <2>3 DEF Handlers
  <2>5. Moved(q, r)
    BY <1>1, <1>4, <2>3, <2>4, Context, Advance
  <2>6. Knows(q, nameOf)'
    <3>1. CASE req'[q] = Idle
      BY <3>1, IdleKnows
    <3>2. CASE req'[q] # Idle
      <4>1. /\ <<"find", Head(req'[q].todo)>> \in Follows
            /\ req'[q].id = id /\ req'[q].name = req[q].name
            /\ req'[q].mark # None => req'[q].kind \in Kinds
        BY <1>1, <2>4, <2>5, <3>2 DEF Moved
      <4>2. /\ Head(req'[q].todo) \in {"session", "issue", "code", "verify"}
            /\ req[q].op = "refreshToken" => Head(req'[q].todo) = "verify"
        BY <2>4, <2>5, <3>2, <4>1 DEF Follows, Moved
      <4>3. id \in used'
        BY <1>4, <2>2, SilentGrows
      <4> QED
        BY <2>1, <2>2, <4>1, <4>2, <4>3 DEF Knows
    <3> QED
      BY <3>1, <3>2
  <2> QED
    BY <1>4, <2>5, <2>6, SilentKeeps
<1> QED
  BY <1>2, <1>3, <1>4 DEF FindUser, Silent

LEMMA FindByAddressKeeps ==
  ASSUME Stored, NEW nameOf \in [Ids -> Names \cup {None}], Fits(nameOf), NEW q \in Requests, FindByAddress(q)
  PROVE  AccountsInv'
<1>1. /\ Typed /\ req[q] \in Handlers /\ (req[q].mark # None => req[q].kind \in Kinds)
      /\ req[q].todo # << >> /\ Head(req[q].todo) = "findAddress"
  BY Context DEF FindByAddress, At
<1>2. CASE Refuse(q)
  BY <1>2, RefuseKeeps
<1>3. ASSUME Silent, NEW id \in Ids, GoOn(q, [req[q] EXCEPT !.id = id, !.address = None])
      PROVE  AccountsInv'
  <2>1. PICK r : r = [req[q] EXCEPT !.id = id, !.address = None]
    OBVIOUS
  <2>2. /\ r \in Handlers /\ r.todo = req[q].todo /\ r.op = req[q].op
        /\ r.id = id /\ r.mark = req[q].mark /\ r.kind = req[q].kind
    BY <1>1, <2>1 DEF Handlers, AllAddresses
  <2>3. Moved(q, r)
    BY <1>1, <1>3, <2>1, <2>2, Context, Advance
  <2>4. CASE req'[q] = Idle
    BY <1>3, <2>3, <2>4, IdleKnows, SilentKeeps
  <2>5. CASE req'[q] # Idle
    <3>1. <<"findAddress", Head(Tail(r.todo))>> \in Follows
      BY <1>1, <2>2, <2>3, <2>5 DEF Moved
    <3>2. Head(Tail(r.todo)) = "latest"
      BY <3>1 DEF Follows
    <3>3. Knows(q, nameOf)'
      BY <1>1, <2>2, <2>3, <3>2, KnowsLittle
    <3> QED
      BY <1>3, <2>3, <3>3, SilentKeeps
  <2> QED
    BY <2>4, <2>5
<1> QED
  BY <1>2, <1>3 DEF FindByAddress, WithAddress, Silent
LEMMA FindOneByIdKeeps ==
  ASSUME Stored, NEW nameOf \in [Ids -> Names \cup {None}], Fits(nameOf), NEW q \in Requests, FindOneById(q)
  PROVE  AccountsInv'
<1>1. CASE Refuse(q)
  BY <1>1, RefuseKeeps
<1>2. CASE Silent /\ GoOn(q, req[q])
  <2>1. /\ Typed /\ req[q] \in Handlers /\ (req[q].mark # None => req[q].kind \in Kinds)
        /\ req[q].todo # << >> /\ Head(req[q].todo) = "findId"
    BY Context DEF FindOneById, At
  <2>2. req[q].id \in Ids
    BY <2>1, Context DEF Knows, Searching
  <2>3. Moved(q, req[q])
    BY <1>2, <2>1, Context, Advance
  <2>4. CASE req'[q] = Idle
    BY <1>2, <2>3, <2>4, IdleKnows, SilentKeeps
  <2>5. CASE req'[q] # Idle
    <3>1. <<"findId", Head(Tail(req[q].todo))>> \in Follows
      BY <2>1, <2>3, <2>5 DEF Moved
    <3>2. Head(Tail(req[q].todo)) \in {"issue", "remove"}
      BY <3>1 DEF Follows
    <3>3. Knows(q, nameOf)'
      BY <2>1, <2>2, <2>3, <3>2, KnowsLittle
    <3> QED
      BY <1>2, <2>3, <3>3, SilentKeeps
  <2> QED
    BY <2>4, <2>5
<1> QED
  BY <1>1, <1>2 DEF FindOneById, Silent

LEMMA AssignedRow ==
  ASSUME NEW r \in Handlers, r.mark # None => r.kind \in Kinds, NEW row \in Rows
  PROVE  /\ Assigned(r, row) \in Rows /\ Assigned(r, row).name = row.name
         /\ \A kind \in Kinds : Assigned(r, row).verified[kind] =>
              \/ row.verified[kind]
              \/ r.op \in Completing /\ r.kind = kind
              \/ r.mark = TRUE /\ r.kind = kind
<1>1. /\ row.name \in Names /\ row.address \in [Kinds -> AllAddresses] /\ row.verified \in [Kinds -> BOOLEAN]
      /\ row = [name |-> row.name, address |-> row.address, verified |-> row.verified]
  BY DEF Rows
<1>2. r.address \in AllAddresses /\ (r.mark = None \/ r.mark \in BOOLEAN)
  BY Fields
<1>3. CASE r.op \in Linking
  <2>1. Assigned(r, row) = [row EXCEPT !.address = [row.address EXCEPT ![r.kind] = r.address],
                                       !.verified = [row.verified EXCEPT ![r.kind] = FALSE]]
    BY <1>3 DEF Assigned, Linking, Completing
  <2>2. [row.address EXCEPT ![r.kind] = r.address] \in [Kinds -> AllAddresses]
    BY <1>1, <1>2
  <2>3. /\ [row.verified EXCEPT ![r.kind] = FALSE] \in [Kinds -> BOOLEAN]
        /\ \A kind \in Kinds : [row.verified EXCEPT ![r.kind] = FALSE][kind] => row.verified[kind]
    BY <1>1
  <2> QED
    BY <1>1, <2>1, <2>2, <2>3 DEF Rows
<1>4. CASE r.op \in Completing
  <2>1. Assigned(r, row) = [row EXCEPT !.verified = [row.verified EXCEPT ![r.kind] = TRUE]]
    BY <1>4 DEF Assigned, Linking, Completing
  <2>2. /\ [row.verified EXCEPT ![r.kind] = TRUE] \in [Kinds -> BOOLEAN]
        /\ \A kind \in Kinds : [row.verified EXCEPT ![r.kind] = TRUE][kind] =>
             row.verified[kind] \/ r.kind = kind
    BY <1>1
  <2> QED
    BY <1>1, <1>4, <2>1, <2>2 DEF Rows
<1>5. CASE r.op = "updateUser"
  <2> DEFINE address == IF r.address = None THEN row.address ELSE [row.address EXCEPT ![r.kind] = r.address]
             verified == IF r.mark = None THEN row.verified ELSE [row.verified EXCEPT ![r.kind] = r.mark]
  <2>1. Assigned(r, row) = [row EXCEPT !.address = address, !.verified = verified]
    BY <1>5 DEF Assigned, Linking, Completing
  <2>2. address \in [Kinds -> AllAddresses]
    BY <1>1, <1>2
  <2>3. verified \in [Kinds -> BOOLEAN]
    BY <1>1, <1>2
  <2>4. \A kind \in Kinds : verified[kind] => row.verified[kind] \/ (r.mark = TRUE /\ r.kind = kind)
    BY <1>1, <1>2
  <2> HIDE DEF address, verified
  <2> QED
    BY <1>1, <2>1, <2>2, <2>3, <2>4 DEF Rows
<1>6. CASE r.op \notin Linking \cup Completing \cup {"updateUser"}
  <2>1. Assigned(r, row) = row
    BY <1>6 DEF Assigned
  <2> QED
    BY <2>1
<1> QED
  BY <1>3, <1>4, <1>5, <1>6

LEMMA ReadUserKeeps ==
  ASSUME Stored, NEW nameOf \in [Ids -> Names \cup {None}], Fits(nameOf), NEW q \in Requests, ReadUser(q)
  PROVE  AccountsInv'
<1>1. /\ Typed /\ req[q] \in Handlers /\ (req[q].mark # None => req[q].kind \in Kinds)
      /\ req[q].todo # << >> /\ Head(req[q].todo) \in {"read", "readId"}
      /\ Orderly(req[q].op, req[q].todo) /\ Knows(q, nameOf)
  BY Context DEF ReadUser, At
<1>2. CASE Refuse(q)
  BY <1>2, RefuseKeeps
<1>3. ASSUME Silent, NEW id \in Ids, user[id] # None,
             At(q, "read") => id \in Named(req[q].name),
             GoOn(q, [req[q] EXCEPT !.id = id, !.copy = Assigned(req[q], user[id])])
      PROVE  AccountsInv'
  <2>1. user[id] \in Rows /\ id \in used /\ user[id].name = nameOf[id]
    BY <1>1, <1>3 DEF Typed, Fits
  <2>2. \A kind \in Kinds : user[id].verified[kind] => Proved(id, kind)
    BY <1>3 DEF Stored, VerifiedUserHadCode, Proved, Confirmed
  <2>3. ASSUME req[q].op \in Completing
        PROVE  Confirmed(id, req[q].kind)
    <3>1. Head(req[q].todo) = "read"
      <4>1. req[q].todo \in Seq(Awaits) /\ Len(req[q].todo) \in Nat \ {0}
        BY <1>1, Fields, EmptySeq
      <4>2. 1 \in 1 .. Len(req[q].todo) /\ Head(req[q].todo) = req[q].todo[1]
        BY <4>1
      <4>3. req[q].todo[1] # "readId"
        BY <1>1, <2>3, <4>2 DEF Orderly
      <4> QED
        BY <1>1, <4>2, <4>3
    <3>2. /\ req[q].id \in Ids /\ req[q].name = nameOf[req[q].id] /\ Confirmed(req[q].id, req[q].kind)
      BY <1>1, <2>3, <3>1 DEF Knows, Typed
    <3>3. PICK c \in Codes : code[c] # None /\ code[c].user = req[q].id
      BY <3>2 DEF Confirmed, CodesOf
    <3>4. user[req[q].id] # None
      BY <1>1, <3>3 DEF Typed
    <3>5. user[req[q].id].name = req[q].name
      BY <3>2, <3>4 DEF Fits
    <3>6. user[id].name = req[q].name
      BY <1>1, <1>3, <3>1 DEF At, Named
    <3>7. id = req[q].id
      BY <1>3, <3>2, <3>4, <3>5, <3>6 DEF Stored, Unique
    <3> QED
      BY <3>2, <3>7
  <2>4. /\ Assigned(req[q], user[id]) \in Rows /\ Assigned(req[q], user[id]).name = nameOf[id]
        /\ \A kind \in Kinds : Assigned(req[q], user[id]).verified[kind] =>
             Proved(id, kind) \/ (req[q].mark = TRUE /\ req[q].kind = kind)
    <3>1. /\ Assigned(req[q], user[id]) \in Rows /\ Assigned(req[q], user[id]).name = user[id].name
          /\ \A kind \in Kinds : Assigned(req[q], user[id]).verified[kind] =>
               \/ user[id].verified[kind]
               \/ req[q].op \in Completing /\ req[q].kind = kind
               \/ req[q].mark = TRUE /\ req[q].kind = kind
      BY <1>1, <2>1, AssignedRow
    <3>2. \A kind \in Kinds : req[q].op \in Completing /\ req[q].kind = kind => Proved(id, kind)
      BY <2>3 DEF Proved
    <3> QED
      BY <2>1, <2>2, <3>1, <3>2
  <2>5. PICK copy : copy = Assigned(req[q], user[id])
    OBVIOUS
  <2>6. PICK r : r = [req[q] EXCEPT !.id = id, !.copy = copy]
    OBVIOUS
  <2>7. /\ r \in Handlers /\ r.todo = req[q].todo /\ r.op = req[q].op /\ r.copy = copy
        /\ r.id = id /\ r.mark = req[q].mark /\ r.kind = req[q].kind
    BY <1>1, <2>4, <2>5, <2>6 DEF Handlers
  <2>8. Moved(q, r)
    BY <1>1, <1>3, <2>5, <2>6, <2>7, Advance
  <2>9. CASE req'[q] = Idle
    BY <1>3, <2>8, <2>9, IdleKnows, SilentKeeps
  <2>10. CASE req'[q] # Idle
    <3>1. /\ <<Head(req[q].todo), Head(req'[q].todo)>> \in Follows
          /\ req'[q].id = id /\ req'[q].copy = copy
          /\ req'[q].mark = req[q].mark /\ req'[q].kind = req[q].kind
      BY <1>1, <2>7, <2>8, <2>10 DEF Moved
    <3>2. Head(req'[q].todo) = "load"
      BY <1>1, <3>1 DEF Follows
    <3>3. id \in used' /\ \A kind \in Kinds : copy.verified[kind] =>
            Proved(id, kind)' \/ (req[q].mark = TRUE /\ req[q].kind = kind)
      <4>1. \A kind \in Kinds : Proved(id, kind) => Proved(id, kind)'
        BY <1>3, SilentGrows DEF Grown, Proved
      <4> QED
        BY <1>3, <2>1, <2>4, <2>5, <4>1, SilentGrows
    <3>4. copy \in Rows /\ copy.name = nameOf[id]
      BY <2>4, <2>5
    <3>5. Knows(q, nameOf)'
      BY <1>1, <3>1, <3>2, <3>3, <3>4 DEF Knows
    <3> QED
      BY <1>3, <2>8, <3>5, SilentKeeps
  <2> QED
    BY <2>9, <2>10
<1>4. ~ Refuse(q) => Silent /\ \E id \in Ids : /\ user[id] # None /\ (At(q, "read") => id \in Named(req[q].name))
                                   /\ GoOn(q, [req[q] EXCEPT !.id = id, !.copy = Assigned(req[q], user[id])])
  <2>1. Head(req[q].todo) = "readId" => req[q].id \in Ids
    BY <1>1 DEF Knows, Searching
  <2>2. CASE At(q, "read")
    BY <2>2 DEF ReadUser, Silent, Named
  <2>3. CASE ~At(q, "read") /\ At(q, "readId")
    BY <2>1, <2>3 DEF ReadUser, Silent, At
  <2> QED
    BY <2>2, <2>3 DEF ReadUser
<1> QED
  BY <1>2, <1>3, <1>4

LEMMA LoadAgainKeeps ==
  ASSUME Stored, NEW nameOf \in [Ids -> Names \cup {None}], Fits(nameOf), NEW q \in Requests, LoadAgain(q)
  PROVE  AccountsInv'
<1>1. /\ Typed /\ req[q] \in Handlers /\ (req[q].mark # None => req[q].kind \in Kinds)
      /\ req[q].todo # << >> /\ Head(req[q].todo) = "load"
      /\ Knows(q, nameOf) /\ Silent
  BY Context DEF LoadAgain, At, Silent
<1>2. /\ req[q].id \in Ids /\ req[q].copy \in Rows /\ req[q].id \in used
      /\ req[q].copy.name = nameOf[req[q].id]
      /\ \A kind \in Kinds : req[q].copy.verified[kind] =>
           Proved(req[q].id, kind) \/ (req[q].mark = TRUE /\ req[q].kind = kind)
  BY <1>1 DEF Knows, Typed
<1>3. PICK r : r = [req[q] EXCEPT !.base = user[req[q].id]]
  OBVIOUS
<1>4. /\ r \in Handlers /\ r.todo = req[q].todo /\ r.op = req[q].op /\ r.copy = req[q].copy
      /\ r.id = req[q].id /\ r.mark = req[q].mark /\ r.kind = req[q].kind
  <2>1. user[req[q].id] \in Rows \cup {None}
    BY <1>1, <1>2 DEF Typed
  <2> QED
    BY <1>1, <1>3, <2>1 DEF Handlers
<1>5. Moved(q, r)
  BY <1>1, <1>3, <1>4, Context, Advance DEF LoadAgain
<1>6. CASE req'[q] = Idle
  BY <1>1, <1>5, <1>6, IdleKnows, SilentKeeps
<1>7. CASE req'[q] # Idle
  <2>1. PICK id, copy : id = req[q].id /\ copy = req[q].copy
    OBVIOUS
  <2>2. /\ <<"load", Head(req'[q].todo)>> \in Follows
        /\ req'[q].id = id /\ req'[q].copy = copy
        /\ req'[q].mark = req[q].mark /\ req'[q].kind = req[q].kind
    BY <1>1, <1>4, <1>5, <1>7, <2>1 DEF Moved
  <2>3. Head(req'[q].todo) = "write"
    BY <2>2 DEF Follows
  <2>4. \A kind \in Kinds : Proved(id, kind) => Proved(id, kind)'
    BY <1>1, SilentGrows DEF Grown, Proved
  <2>5. id \in used' /\ \A kind \in Kinds : copy.verified[kind] =>
          Proved(id, kind)' \/ (req[q].mark = TRUE /\ req[q].kind = kind)
    BY <1>1, <1>2, <2>1, <2>4, SilentGrows
  <2>6. copy \in Rows /\ copy.name = nameOf[id] /\ id \in Ids
    BY <1>2, <2>1
  <2>7. Knows(q, nameOf)'
    BY <1>1, <2>2, <2>3, <2>5, <2>6 DEF Knows
  <2> QED
    BY <1>1, <1>5, <2>7, SilentKeeps
<1> QED
  BY <1>6, <1>7

LEMMA GetPublicKeyKeeps ==
  ASSUME Stored, NEW nameOf \in [Ids -> Names \cup {None}], Fits(nameOf), NEW q \in Requests, GetPublicKey(q)
  PROVE  AccountsInv'
<1>1. CASE Refuse(q)
  BY <1>1, RefuseKeeps
<1>2. CASE Silent /\ GoOn(q, req[q])
  <2>1. /\ Typed /\ req[q] \in Handlers /\ (req[q].mark # None => req[q].kind \in Kinds)
        /\ req[q].todo # << >> /\ Head(req[q].todo) = "key"
    BY Context DEF GetPublicKey, At
  <2>2. req[q].id \in Ids
    BY <2>1, Context DEF Knows, Searching
  <2>3. Moved(q, req[q])
    BY <1>2, <2>1, Context, Advance
  <2>4. CASE req'[q] = Idle
    BY <1>2, <2>3, <2>4, IdleKnows, SilentKeeps
  <2>5. CASE req'[q] # Idle
    <3>1. <<"key", Head(Tail(req[q].todo))>> \in Follows
      BY <2>1, <2>3, <2>5 DEF Moved
    <3>2. Head(Tail(req[q].todo)) = "session"
      BY <3>1 DEF Follows
    <3>3. Knows(q, nameOf)'
      BY <2>1, <2>2, <2>3, <3>2, KnowsLittle
    <3> QED
      BY <1>2, <2>3, <3>3, SilentKeeps
  <2> QED
    BY <2>4, <2>5
<1> QED
  BY <1>1, <1>2 DEF GetPublicKey, Silent

(* A request as it comes in.                                                *)
LEMMA ReceiveKeeps ==
  ASSUME Stored, NEW nameOf \in [Ids -> Names \cup {None}], Fits(nameOf), NEW q \in Requests,
         NEW op \in Operations, Receive(q, op)
  PROVE  AccountsInv'
<1>1. PICK name \in IF ByName(op) THEN Names ELSE {None},
           id \in IF ById(op) THEN Ids ELSE {None},
           kind \in KindsOf(op),
           mark \in IF op = "updateUser" THEN BOOLEAN \cup {None} ELSE {None},
           c \in IF ByCode(op) THEN Codes ELSE {0},
           t \in IF BySession(op) THEN Tokens ELSE {None} :
        \E address \in AddressesOf(op, kind) :
          req' = [req EXCEPT ![q] = [Idle EXCEPT !.op = op, !.todo = Program(op), !.name = name,
                     !.id = id, !.kind = kind, !.address = address, !.mark = mark, !.code = c,
                     !.token = t]]
  BY DEF Receive
<1>12. PICK address \in AddressesOf(op, kind) :
      req' = [req EXCEPT ![q] = [Idle EXCEPT !.op = op, !.todo = Program(op), !.name = name,
                 !.id = id, !.kind = kind, !.address = address, !.mark = mark, !.code = c,
                 !.token = t]]
  BY <1>1
<1>2. /\ name \in Names \cup {None} /\ id \in Ids \cup {None} /\ mark \in BOOLEAN \cup {None}
      /\ c \in Codes \cup {0} /\ t \in Tokens \cup {None}
      /\ ByName(op) => name \in Names
      /\ ById(op) => id \in Ids
      /\ mark # None => op = "updateUser"
  BY <1>1
<1>3. kind \in Types /\ (op = "updateUser" => kind \in Kinds)
  BY <1>1 DEF KindsOf, Types, Kinds, Completing
<1>4. address \in AllAddresses
  <2>1. address = None \/ (kind \in Kinds /\ address \in Addresses[kind])
    BY <1>1 DEF AddressesOf, KindsOf, Linking, Completing, Kinds
  <2> QED
    BY <2>1 DEF AllAddresses
<1>5. PICK r : r = [Idle EXCEPT !.op = op, !.todo = Program(op), !.name = name,
                   !.id = id, !.kind = kind, !.address = address, !.mark = mark, !.code = c,
                   !.token = t]
  OBVIOUS
<1>6. /\ r \in Handlers /\ r.todo = Program(op) /\ r.op = op /\ r.name = name /\ r.id = id
      /\ r.kind = kind /\ r.mark = mark
  <2>1. r = [op |-> op, todo |-> Program(op), name |-> name, id |-> id, kind |-> kind, address |-> address,
             mark |-> mark, code |-> c, token |-> t, copy |-> None, base |-> None]
    BY <1>5 DEF Idle
  <2>2. op \in Operations \cup {"none"} /\ Program(op) \in Seq(Awaits)
    BY Programs
  <2>3. r \in Handlers
    BY <1>2, <1>3, <1>4, <2>1, <2>2, Zenon DEF Handlers
  <2> QED
    BY <2>1, <2>3
<1>7. Silent /\ Typed
  BY DEF Receive, Silent, Stored
<1>8. req' \in [Requests -> Handlers] /\ req'[q] = r /\ \A p \in Requests \ {q} : req'[p] = req[p]
  BY <1>12, <1>5, <1>6, <1>7 DEF Typed
<1>9. Knows(q, nameOf)'
  <2>1. Head(Program(op)) = "available" => name \in Names
    BY <1>2, Programs
  <2>2. Head(Program(op)) \in {"findId", "readId", "latest", "logout", "addKey"} => id \in Ids
    BY <1>2, Programs
  <2>3. Head(Program(op)) \in {"available", "find", "findId", "findAddress", "latest", "read", "readId",
                               "logout", "addKey"} /\ (op \in Completing => Head(Program(op)) = "find")
    BY Programs
  <2> QED
    BY <1>2, <1>3, <1>6, <1>8, <2>1, <2>2, <2>3 DEF Knows, Searching
<1>10. Stored'
  BY <1>7, <1>8, SilentStores
<1>11. Fits(nameOf)'
  <2>1. Orderly(req'[q].op, req'[q].todo)
    BY <1>6, <1>8, Programs
  <2>2. \A x \in Ids : user'[x] # None => user'[x].name = nameOf[x]
    BY <1>7, SilentGrows DEF Fits
  <2> QED
    BY <1>7, <1>8, <1>9, <2>1, <2>2, SilentGrows, FitsNext
<1> QED
  BY <1>10, <1>11 DEF AccountsInv
-----------------------------------------------------------------------------
(* The steps of the otp service.                                            *)
LEMMA NotNone ==
  /\ \A row \in Rows : row # None
  /\ \A issued \in Issued : issued # None
  /\ \A id \in Ids : id # None
  BY AccountsAssumption

LEMMA CodesGrow ==
  ASSUME UNCHANGED users, accepted \subseteq accepted',
         \A c \in Codes : code[c] # None =>
           code'[c] # None /\ code'[c].user = code[c].user /\ code'[c].type = code[c].type
  PROVE  Grown
<1>1. ASSUME NEW id, NEW kind, Confirmed(id, kind)
      PROVE  Confirmed(id, kind)'
  <2>1. PICK c \in Codes : code[c] # None /\ code[c].user = id /\ code[c].type = kind /\ c \in accepted
    BY <1>1 DEF Confirmed, CodesOf
  <2>2. code'[c] # None /\ code'[c].user = id /\ code'[c].type = kind /\ c \in accepted'
    BY <2>1
  <2> QED
    BY <2>2 DEF Confirmed, CodesOf, Codes
<1> QED
  BY <1>1 DEF Grown, users

LEMMA VerifiedStays ==
  ASSUME Grown, VerifiedUserHadCode,
         \A id \in Ids : user'[id] # None => user[id] # None /\ user'[id].verified = user[id].verified
  PROVE  VerifiedUserHadCode'
<1>1. SUFFICES ASSUME NEW id \in Ids, NEW kind \in Kinds, user'[id] # None, user'[id].verified[kind]
               PROVE  Confirmed(id, kind)' \/ <<id, kind>> \in vouched'
  BY DEF VerifiedUserHadCode, Confirmed
<1>2. Confirmed(id, kind) \/ <<id, kind>> \in vouched
  BY <1>1 DEF VerifiedUserHadCode, Confirmed
<1> QED
  BY <1>2 DEF Grown

(* A step of q that is not silent.                                          *)
LEMMA StepKeeps ==
  ASSUME Stored', NEW nameOf, Fits(nameOf), NEW newName \in [Ids -> Names \cup {None}], \A id \in used : newName[id] = nameOf[id],
         Grown, \A id \in Ids : user'[id] # None => user'[id].name = newName[id],
         NEW q \in Requests, NEW r, Moved(q, r), Knows(q, newName)'
  PROVE  AccountsInv'
<1>1. Fits(newName)'
  BY FitsNext DEF Moved
<1> QED
  BY <1>1 DEF AccountsInv

LEMMA LastStepKnows ==
  ASSUME NEW q, NEW nameOf, NEW r, Moved(q, r),
         Head(r.todo) \in {"session", "issue", "expire", "remove", "logout"}
  PROVE  Knows(q, nameOf)'
<1>1. req'[q] = Idle
  BY DEF Moved, Follows
<1> QED
  BY <1>1, IdleKnows

LEMMA AcceptKeeps ==
  ASSUME Stored, NEW nameOf \in [Ids -> Names \cup {None}], Fits(nameOf), NEW q \in Requests, Accept(q),
         req[q].todo # << >>, req[q].code \in Codes,
         \/ Head(req[q].todo) = "code" /\ req[q].code \in CodesOf(req[q].id, req[q].kind)
         \/ Head(req[q].todo) = "latest"
  PROVE  AccountsInv'
<1>1. /\ Typed /\ req[q] \in Handlers /\ (req[q].mark # None => req[q].kind \in Kinds)
      /\ Knows(q, nameOf)
  BY Context
<1>2. /\ accepted' = accepted \cup {req[q].code} /\ UNCHANGED <<user, used, vouched, code, retired, session>>
  BY DEF Accept, users
<1>3. Grown
  BY <1>2, CodesGrow DEF users
<1>4. PICK r : r = [req[q] EXCEPT !.code = 0, !.address = None]
  OBVIOUS
<1>5. /\ r \in Handlers /\ r.todo = req[q].todo /\ r.op = req[q].op /\ r.name = req[q].name
      /\ r.id = req[q].id /\ r.mark = req[q].mark /\ r.kind = req[q].kind
  BY <1>1, <1>4 DEF Handlers, AllAddresses
<1>6. Moved(q, r)
  BY <1>1, <1>4, <1>5, Context, Advance DEF Accept
<1>7. Stored'
  <2>1. Typed'
    BY <1>1, <1>2, <1>6 DEF Typed, Moved
  <2>2. Unique' /\ RetiredExpired'
    BY <1>2 DEF Stored, Unique, RetiredExpired
  <2>3. VerifiedUserHadCode'
    BY <1>2, <1>3, VerifiedStays DEF Stored
  <2> QED
    BY <2>1, <2>2, <2>3 DEF Stored
<1>8. Knows(q, nameOf)'
  <2>1. CASE req'[q] = Idle
    BY <2>1, IdleKnows
  <2>2. CASE req'[q] # Idle
    <3>1. /\ <<Head(req[q].todo), Head(req'[q].todo)>> \in Follows
          /\ req'[q].id = req[q].id /\ req'[q].name = req[q].name /\ req'[q].op = req[q].op
          /\ req'[q].mark = req[q].mark /\ req'[q].kind = req[q].kind
      BY <1>5, <1>6, <2>2 DEF Moved
    <3>2. \/ Head(req'[q].todo) \in {"key", "readId"}
          \/ Head(req'[q].todo) = "read" /\ Head(req[q].todo) = "code"
      BY <3>1 DEF Follows
    <3>3. req[q].id \in Ids
      BY <1>1 DEF Knows, Searching
    <3>4. PICK id, kind, c : id = req[q].id /\ kind = req[q].kind /\ c = req[q].code
      OBVIOUS
    <3>5. Head(req[q].todo) = "code" =>
            id \in used' /\ req[q].name = nameOf[id] /\ Confirmed(id, kind)'
      <4>1. ASSUME Head(req[q].todo) = "code"
            PROVE  /\ req[q].id \in used /\ req[q].name = nameOf[req[q].id]
                   /\ req[q].code \in CodesOf(req[q].id, req[q].kind)
        BY <1>1, <4>1 DEF Knows
      <4>3. c \in CodesOf(id, kind) => Confirmed(id, kind)'
        BY <1>2, <3>4 DEF CodesOf, Confirmed
      <4> QED
        BY <1>2, <3>4, <4>1, <4>3
    <3> QED
      BY <1>1, <3>1, <3>2, <3>3, <3>4, <3>5 DEF Knows, Searching
  <2> QED
    BY <2>1, <2>2
<1>9. \A id \in Ids : user'[id] # None => user'[id].name = nameOf[id]
  BY <1>2 DEF Fits
<1> QED
  BY <1>3, <1>6, <1>7, <1>8, <1>9, StepKeeps

LEMMA GetValidOtpKeeps ==
  ASSUME Stored, NEW nameOf \in [Ids -> Names \cup {None}], Fits(nameOf), NEW q \in Requests, GetValidOtp(q)
  PROVE  AccountsInv'
<1>1. CASE Refuse(q)
  BY <1>1, RefuseKeeps
<1>2. CASE Valid(req[q]) /\ Accept(q)
  BY <1>2, AcceptKeeps DEF GetValidOtp, At, Valid, CodesOf
<1> QED
  BY <1>1, <1>2 DEF GetValidOtp

LEMMA ValidateLatestKeeps ==
  ASSUME Stored, NEW nameOf \in [Ids -> Names \cup {None}], Fits(nameOf), NEW q \in Requests, ValidateLatest(q)
  PROVE  AccountsInv'
<1>1. CASE Refuse(q)
  BY <1>1, RefuseKeeps
<1>2. CASE req[q].code \in Latest(req[q].id) /\ Accept(q)
  BY <1>2, AcceptKeeps DEF ValidateLatest, At, Latest
<1> QED
  BY <1>1, <1>2 DEF ValidateLatest

LEMMA IssueCodeKeeps ==
  ASSUME Stored, NEW nameOf \in [Ids -> Names \cup {None}], Fits(nameOf), NEW q \in Requests, IssueCode(q)
  PROVE  AccountsInv'
<1>1. CASE Refuse(q)
  BY <1>1, RefuseKeeps
<1>2. ASSUME user[req[q].id] # None, NEW c \in Codes, code[c] = None,
             code' = [code EXCEPT ![c] = CreateOTP(req[q])], GoOn(q, req[q]),
             UNCHANGED <<users, accepted, retired, session>>
      PROVE  AccountsInv'
  <2>1. /\ Typed /\ req[q] \in Handlers /\ req[q].todo # << >> /\ Head(req[q].todo) = "issue"
        /\ Knows(q, nameOf)
    BY Context DEF IssueCode, At
  <2>2. UNCHANGED <<user, used, vouched, accepted, retired, session>>
    BY <1>2 DEF users
  <2>3. PICK o : o = CreateOTP(req[q])
    OBVIOUS
  <2>4. o \in Issued /\ o.user = req[q].id
    <3>1. req[q].id \in Ids
      BY <2>1 DEF Knows, Searching
    <3> QED
      BY <2>1, <2>3, <3>1, Fields DEF CreateOTP, Issued
  <2>5. code' = [code EXCEPT ![c] = o] /\ code \in [Codes -> Issued \cup {None}]
    BY <1>2, <2>1, <2>3 DEF Typed
  <2>6. code' \in [Codes -> Issued \cup {None}] /\ code'[c] = o /\ \A d \in Codes \ {c} : code'[d] = code[d]
    BY <2>4, <2>5
  <2>7. Grown
    BY <1>2, <2>2, <2>6, CodesGrow
  <2>8. Moved(q, req[q])
    BY <1>2, <2>1, Context, Advance
  <2>9. Typed'
    <3>1. \A d \in Codes : code'[d] # None => user'[code'[d].user] # None
      BY <1>2, <2>1, <2>2, <2>4, <2>6 DEF Typed
    <3> QED
      BY <2>1, <2>2, <2>6, <2>8, <3>1 DEF Typed, Moved, Codes
  <2>10. Unique'
    BY <2>2 DEF Stored, Unique
  <2>11. RetiredExpired'
    BY <1>2, <2>1, <2>2, <2>6 DEF Stored, RetiredExpired, Typed
  <2>12. VerifiedUserHadCode'
    BY <2>2, <2>7, VerifiedStays DEF Stored
  <2>13. Stored'
    BY <2>9, <2>10, <2>11, <2>12 DEF Stored
  <2>14. Knows(q, nameOf)'
    BY <2>1, <2>8, LastStepKnows
  <2>15. \A id \in Ids : user'[id] # None => user'[id].name = nameOf[id]
    BY <2>2 DEF Fits
  <2> QED
    BY <2>7, <2>8, <2>13, <2>14, <2>15, StepKeeps
<1> QED
  BY <1>1, <1>2 DEF IssueCode

LEMMA InvalidateAllTokensKeeps ==
  ASSUME Stored, NEW nameOf \in [Ids -> Names \cup {None}], Fits(nameOf), NEW q \in Requests, InvalidateAllTokens(q)
  PROVE  AccountsInv'
<1>1. /\ Typed /\ req[q] \in Handlers /\ req[q].todo # << >> /\ Head(req[q].todo) = "expire"
  BY Context DEF InvalidateAllTokens, At
<1>2. PICK all : all = CodesOf(req[q].id, req[q].kind)
  OBVIOUS
<1>3. /\ code' = [c \in Codes |-> IF c \in all THEN [code[c] EXCEPT !.expired = TRUE] ELSE code[c]]
      /\ retired' = retired \cup all /\ GoOn(q, req[q])
      /\ UNCHANGED <<user, used, vouched, accepted, session>>
  BY <1>2 DEF InvalidateAllTokens, users
<1>4. all \subseteq Codes /\ \A c \in all : code[c] \in Issued
  BY <1>1, <1>2 DEF CodesOf, Typed
<1>5. \A c \in all : /\ [code[c] EXCEPT !.expired = TRUE] \in Issued
                     /\ [code[c] EXCEPT !.expired = TRUE].expired = TRUE
                     /\ [code[c] EXCEPT !.expired = TRUE].user = code[c].user
                     /\ [code[c] EXCEPT !.expired = TRUE].type = code[c].type
  BY <1>4 DEF Issued
<1>6. /\ code' \in [Codes -> Issued \cup {None}]
      /\ \A c \in all : code'[c].expired
      /\ \A c \in Codes : code[c] # None =>
           code'[c] # None /\ code'[c].user = code[c].user /\ code'[c].type = code[c].type
      /\ \A c \in Codes \ all : code'[c] = code[c]
      /\ \A c \in Codes : code'[c] # None => code[c] # None /\ code'[c].user = code[c].user
  <2>1. code \in [Codes -> Issued \cup {None}]
    BY <1>1 DEF Typed
  <2> QED
    BY <1>3, <1>4, <1>5, <2>1, NotNone
<1>7. Grown
  BY <1>3, <1>6, CodesGrow DEF users
<1>8. Moved(q, req[q])
  BY <1>1, <1>3, Context, Advance
<1>9. Typed'
  <2>1. \A c \in Codes : code'[c] # None => user'[code'[c].user] # None
    BY <1>1, <1>3, <1>6 DEF Typed
  <2> QED
    BY <1>1, <1>3, <1>4, <1>6, <1>8, <2>1 DEF Typed, Moved, Codes
<1>10. Unique'
  BY <1>3 DEF Stored, Unique
<1>11. RetiredExpired'
  BY <1>1, <1>3, <1>4, <1>5, <1>6, NotNone DEF Stored, RetiredExpired, Typed
<1>12. VerifiedUserHadCode'
  BY <1>3, <1>7, VerifiedStays DEF Stored
<1>13. Stored'
  BY <1>9, <1>10, <1>11, <1>12 DEF Stored
<1>14. Knows(q, nameOf)'
  BY <1>1, <1>8, LastStepKnows
<1>15. \A id \in Ids : user'[id] # None => user'[id].name = nameOf[id]
  BY <1>3 DEF Fits
<1> QED
  BY <1>7, <1>8, <1>13, <1>14, <1>15, StepKeeps
-----------------------------------------------------------------------------
(* Sessions.                                                                *)
LEMMA SessionsKeep ==
  ASSUME Stored, NEW nameOf \in [Ids -> Names \cup {None}], Fits(nameOf), NEW q \in Requests,
         req[q].todo # << >>, Head(req[q].todo) \in {"session", "logout"}, GoOn(q, req[q]),
         UNCHANGED <<users, codes>>, session' \in [Tokens -> Ids \cup {None, Ended}],
         \A t \in Tokens : session'[t] \in Ids => user[session'[t]] # None
  PROVE  AccountsInv'
<1>1. Typed /\ req[q] \in Handlers /\ UNCHANGED <<user, used, vouched, code, accepted, retired>>
  BY Context DEF users, codes
<1>2. Grown
  BY <1>1, CodesGrow DEF users
<1>3. Moved(q, req[q])
  BY <1>1, Context, Advance
<1>4. Typed'
  BY <1>1, <1>3 DEF Typed, Moved
<1>5. Unique' /\ RetiredExpired'
  BY <1>1 DEF Stored, Unique, RetiredExpired
<1>6. VerifiedUserHadCode'
  BY <1>1, <1>2, VerifiedStays DEF Stored
<1>7. Stored'
  BY <1>4, <1>5, <1>6 DEF Stored
<1>8. Knows(q, nameOf)'
  BY <1>3, LastStepKnows
<1>9. \A id \in Ids : user'[id] # None => user'[id].name = nameOf[id]
  BY <1>1 DEF Fits
<1> QED
  BY <1>2, <1>3, <1>7, <1>8, <1>9, StepKeeps

LEMMA GenerateRefreshTokenKeeps ==
  ASSUME Stored, NEW nameOf \in [Ids -> Names \cup {None}], Fits(nameOf), NEW q \in Requests, GenerateRefreshToken(q)
  PROVE  AccountsInv'
<1>1. CASE Refuse(q)
  BY <1>1, RefuseKeeps
<1>2. ASSUME user[req[q].id] # None, NEW t \in Tokens, session' = [session EXCEPT ![t] = req[q].id],
             GoOn(q, req[q]), UNCHANGED <<users, codes>>
      PROVE  AccountsInv'
  <2>1. /\ Typed /\ req[q].todo # << >> /\ Head(req[q].todo) = "session" /\ Knows(q, nameOf)
    BY Context DEF GenerateRefreshToken, At
  <2>2. req[q].id \in Ids
    BY <2>1 DEF Knows, Searching
  <2>3. /\ session' \in [Tokens -> Ids \cup {None, Ended}]
        /\ \A s \in Tokens : session'[s] \in Ids => user[session'[s]] # None
    BY <1>2, <2>1, <2>2 DEF Typed
  <2> QED
    BY <1>2, <2>1, <2>3, SessionsKeep
<1> QED
  BY <1>1, <1>2 DEF GenerateRefreshToken

LEMMA LogoutKeeps ==
  ASSUME Stored, NEW nameOf \in [Ids -> Names \cup {None}], Fits(nameOf), NEW q \in Requests, Logout(q)
  PROVE  AccountsInv'
<1>1. CASE Refuse(q)
  BY <1>1, RefuseKeeps
<1>2. CASE /\ session' = [session EXCEPT ![req[q].token] = Ended]
           /\ GoOn(q, req[q]) /\ UNCHANGED <<users, codes>>
  <2>1. /\ Typed /\ req[q].todo # << >> /\ Head(req[q].todo) = "logout"
    BY Context DEF Logout, At
  <2>2. /\ session' \in [Tokens -> Ids \cup {None, Ended}]
        /\ \A s \in Tokens : session'[s] \in Ids => user[session'[s]] # None
    BY <1>2, <2>1, AccountsAssumption DEF Typed
  <2> QED
    BY <1>2, <2>1, <2>2, SessionsKeep
<1> QED
  BY <1>1, <1>2 DEF Logout

-----------------------------------------------------------------------------
(* Users.                                                                   *)
LEMMA RemoveUserKeeps ==
  ASSUME Stored, NEW nameOf \in [Ids -> Names \cup {None}], Fits(nameOf), NEW q \in Requests, RemoveUser(q)
  PROVE  AccountsInv'
<1>1. CASE Refuse(q)
  BY <1>1, RefuseKeeps
<1>2. PICK id : id = req[q].id
  OBVIOUS
<1>3. CASE /\ \A type \in Types : CodesOf(id, type) = {}
           /\ user' = [user EXCEPT ![id] = None]
           /\ session' = [t \in Tokens |-> IF session[t] = id THEN Ended ELSE session[t]]
           /\ GoOn(q, req[q])
           /\ UNCHANGED <<used, vouched, codes>>
  <2>1. /\ Typed /\ req[q] \in Handlers /\ req[q].todo # << >> /\ Head(req[q].todo) = "remove"
        /\ Knows(q, nameOf) /\ UNCHANGED <<used, vouched, code, accepted, retired>>
    BY <1>3, Context DEF RemoveUser, At, codes
  <2>2. id \in Ids
    BY <1>2, <2>1 DEF Knows, Searching
  <2>3. /\ user' \in [Ids -> Rows \cup {None}] /\ user'[id] = None
        /\ \A x \in Ids : user'[x] # None => user'[x] = user[x]
        /\ \A x \in Ids \ {id} : user'[x] = user[x]
    BY <1>3, <2>1, <2>2 DEF Typed
  <2>4. Grown
    <3>1. \A x, kind : Confirmed(x, kind) => Confirmed(x, kind)'
      BY <2>1 DEF Confirmed, CodesOf
    <3> QED
      BY <2>1, <3>1 DEF Grown
  <2>5. Moved(q, req[q])
    BY <1>3, <2>1, Context, Advance
  <2>6. Typed'
    <3>1. \A c \in Codes : code'[c] # None => user'[code'[c].user] # None
      <4>1. SUFFICES ASSUME NEW c \in Codes, code[c] # None
                     PROVE  user'[code[c].user] # None
        BY <2>1
      <4>2. code[c].user \in Ids /\ code[c].type \in Types /\ user[code[c].user] # None
        BY <2>1, <4>1 DEF Typed, Issued
      <4>3. code[c].user # id
        BY <1>3, <4>1, <4>2 DEF CodesOf
      <4> QED
        BY <2>3, <4>2, <4>3
    <3>2. session' \in [Tokens -> Ids \cup {None, Ended}]
      BY <1>3, <2>1 DEF Typed
    <3>3. \A t \in Tokens : session'[t] \in Ids => user'[session'[t]] # None
      BY <1>3, <2>1, <2>3, AccountsAssumption DEF Typed
    <3> QED
      BY <2>1, <2>3, <2>5, <3>1, <3>2, <3>3 DEF Typed, Moved, Codes
  <2>7. Unique'
    BY <2>3 DEF Stored, Unique
  <2>8. RetiredExpired'
    BY <2>1 DEF Stored, RetiredExpired
  <2>9. VerifiedUserHadCode'
    BY <2>3, <2>4, VerifiedStays DEF Stored
  <2>10. Stored'
    BY <2>6, <2>7, <2>8, <2>9 DEF Stored
  <2>11. Knows(q, nameOf)'
    BY <2>1, <2>5, LastStepKnows
  <2>12. \A x \in Ids : user'[x] # None => user'[x].name = nameOf[x]
    BY <2>3 DEF Fits
  <2> QED
    BY <2>4, <2>5, <2>10, <2>11, <2>12, StepKeeps
<1> QED
  BY <1>1, <1>2, <1>3 DEF RemoveUser

LEMMA CreateUserKeeps ==
  ASSUME Stored, NEW nameOf \in [Ids -> Names \cup {None}], Fits(nameOf), NEW q \in Requests, CreateUser(q)
  PROVE  AccountsInv'
<1>1. CASE Refuse(q)
  BY <1>1, RefuseKeeps
<1>2. ASSUME Named(req[q].name) = {}, NEW id \in Ids \ used,
             user' = [user EXCEPT ![id] = Fresh(req[q].name)], used' = used \cup {id},
             GoOn(q, [req[q] EXCEPT !.id = id]), UNCHANGED <<vouched, codes, session>>
      PROVE  AccountsInv'
  <2>1. /\ Typed /\ req[q] \in Handlers /\ (req[q].mark # None => req[q].kind \in Kinds)
        /\ req[q].todo # << >> /\ Head(req[q].todo) = "insert"
        /\ Knows(q, nameOf) /\ UNCHANGED <<vouched, code, accepted, retired, session>>
    BY <1>2, Context DEF CreateUser, At, codes
  <2>2. PICK name : name = req[q].name
    OBVIOUS
  <2>3. name \in Names /\ \A x \in Ids : user[x] # None => user[x].name # name
    BY <1>2, <2>1, <2>2 DEF Knows, Named
  <2>4. PICK row : row = Fresh(name)
    OBVIOUS
  <2>5. row \in Rows /\ row # None /\ row.name = name /\ \A kind \in Kinds : ~ row.verified[kind]
    BY <2>3, <2>4, NotNone DEF Fresh, Rows, AllAddresses
  <2>6. user[id] = None
    BY <1>2, <2>1 DEF Typed
  <2>7. /\ user' \in [Ids -> Rows \cup {None}] /\ user'[id] = row
        /\ \A x \in Ids \ {id} : user'[x] = user[x]
    BY <1>2, <2>1, <2>2, <2>4, <2>5 DEF Typed
  <2>8. Grown
    <3>1. \A x, kind : Confirmed(x, kind) => Confirmed(x, kind)'
      BY <2>1 DEF Confirmed, CodesOf
    <3> QED
      BY <1>2, <2>1, <3>1 DEF Grown
  <2>9. PICK r : r = [req[q] EXCEPT !.id = id]
    OBVIOUS
  <2>10. /\ r \in Handlers /\ r.todo = req[q].todo /\ r.op = req[q].op
         /\ r.id = id /\ r.mark = req[q].mark /\ r.kind = req[q].kind
    BY <1>2, <2>1, <2>9 DEF Handlers
  <2>11. Moved(q, r)
    BY <1>2, <2>1, <2>9, <2>10, Context, Advance
  <2>12. PICK newName : newName = [nameOf EXCEPT ![id] = name]
    OBVIOUS
  <2>13. /\ newName \in [Ids -> Names \cup {None}] /\ newName[id] = name
         /\ \A x \in used : newName[x] = nameOf[x]
         /\ \A x \in Ids \ {id} : newName[x] = nameOf[x]
    BY <1>2, <2>1, <2>3, <2>12 DEF Typed
  <2>14. Knows(q, newName)'
    <3>1. CASE req'[q] = Idle
      BY <3>1, IdleKnows
    <3>2. CASE req'[q] # Idle
      <4>1. <<"insert", Head(Tail(r.todo))>> \in Follows
        BY <2>1, <2>10, <2>11, <3>2 DEF Moved
      <4>2. Head(Tail(r.todo)) = "session"
        BY <4>1 DEF Follows
      <4> QED
        BY <1>2, <2>1, <2>10, <2>11, <4>2, KnowsLittle
    <3> QED
      BY <3>1, <3>2
  <2>15. Typed'
    <3>1. \A c \in Codes : code'[c] # None => user'[code'[c].user] # None
      <4>1. SUFFICES ASSUME NEW c \in Codes, code[c] # None
                     PROVE  user'[code[c].user] # None
        BY <2>1
      <4>2. code[c].user \in Ids /\ user[code[c].user] # None
        BY <2>1, <4>1 DEF Typed, Issued
      <4> QED
        BY <2>6, <2>7, <4>2
    <3>2. \A t \in Tokens : session'[t] \in Ids => user'[session'[t]] # None
      BY <2>1, <2>6, <2>7 DEF Typed
    <3>3. {x \in Ids : user'[x] # None} \subseteq used' /\ used' \subseteq Ids
      BY <1>2, <2>1, <2>7 DEF Typed
    <3> QED
      BY <2>1, <2>7, <2>11, <3>1, <3>2, <3>3 DEF Typed, Moved, Codes
  <2>16. Unique'
    BY <2>3, <2>5, <2>7 DEF Stored, Unique
  <2>17. RetiredExpired'
    BY <2>1 DEF Stored, RetiredExpired
  <2>18. VerifiedUserHadCode'
    <3>1. SUFFICES ASSUME NEW x \in Ids, NEW kind \in Kinds, user'[x] # None, user'[x].verified[kind]
                   PROVE  Confirmed(x, kind)' \/ <<x, kind>> \in vouched'
      BY DEF VerifiedUserHadCode, Confirmed
    <3>2. x # id
      BY <2>5, <2>7, <3>1
    <3>3. Confirmed(x, kind) \/ <<x, kind>> \in vouched
      BY <2>7, <3>1, <3>2 DEF Stored, VerifiedUserHadCode, Confirmed
    <3> QED
      BY <2>8, <3>3 DEF Grown
  <2>19. Stored'
    BY <2>15, <2>16, <2>17, <2>18 DEF Stored
  <2>20. \A x \in Ids : user'[x] # None => user'[x].name = newName[x]
    BY <2>5, <2>7, <2>13 DEF Fits
  <2> QED
    BY <2>8, <2>11, <2>13, <2>14, <2>19, <2>20, StepKeeps
<1> QED
  BY <1>1, <1>2 DEF CreateUser
LEMMA DifferingRow ==
  ASSUME NEW copy \in Rows, NEW base \in Rows, NEW row \in Rows
  PROVE  /\ Differing(copy, base, row) \in Rows /\ Differing(copy, base, row).name = row.name
         /\ \A kind \in Kinds : Differing(copy, base, row).verified[kind] =>
              copy.verified[kind] \/ row.verified[kind]
<1> DEFINE address == [k \in Kinds |-> IF copy.address[k] # base.address[k] THEN copy.address[k] ELSE row.address[k]]
           verified == [k \in Kinds |-> IF copy.verified[k] # base.verified[k] THEN copy.verified[k] ELSE row.verified[k]]
<1>1. Differing(copy, base, row) = [row EXCEPT !.address = address, !.verified = verified]
  BY DEF Differing
<1>2. address \in [Kinds -> AllAddresses]
  BY DEF Rows
<1>3. verified \in [Kinds -> BOOLEAN]
  BY DEF Rows
<1>4. \A kind \in Kinds : verified[kind] => copy.verified[kind] \/ row.verified[kind]
  BY DEF Rows
<1> HIDE DEF address, verified
<1> QED
  BY <1>1, <1>2, <1>3, <1>4 DEF Rows

LEMMA WriteUserKeeps ==
  ASSUME Stored, NEW nameOf \in [Ids -> Names \cup {None}], Fits(nameOf), NEW q \in Requests, WriteUser(q)
  PROVE  AccountsInv'
<1>1. CASE Refuse(q)
  BY <1>1, RefuseKeeps
<1>2. PICK id, copy, base, mark, kind :
        /\ id = req[q].id /\ copy = req[q].copy /\ base = req[q].base /\ mark = req[q].mark
        /\ kind = req[q].kind
  OBVIOUS
<1>3. ASSUME base # None \/ Insertable(req[q]),
             user' = [user EXCEPT ![id] =
               CASE base = None -> copy
                 [] base # None /\ @ # None -> Differing(copy, base, @)
                 [] OTHER -> None],
             vouched' = IF mark = TRUE THEN vouched \cup {<<id, kind>>} ELSE vouched,
             GoOn(q, [req[q] EXCEPT !.copy = None, !.base = None]),
             UNCHANGED <<used, codes, session>>
      PROVE  AccountsInv'
  <2>1. /\ Typed /\ req[q] \in Handlers /\ (mark # None => kind \in Kinds)
        /\ req[q].todo # << >> /\ Head(req[q].todo) = "write"
        /\ Knows(q, nameOf) /\ UNCHANGED <<used, code, accepted, retired, session>>
    BY <1>2, <1>3, Context DEF WriteUser, At, codes
  <2>2. /\ id \in Ids /\ copy \in Rows /\ id \in used /\ copy.name = nameOf[id]
        /\ \A k \in Kinds : copy.verified[k] => Proved(id, k) \/ (mark = TRUE /\ kind = k)
    BY <1>2, <2>1 DEF Knows, Typed
  <2>3. base \in Rows \cup {None} /\ user[id] \in Rows \cup {None}
        /\ user \in [Ids -> Rows \cup {None}]
    BY <1>2, <2>1, <2>2, Fields DEF Typed
  <2>4. PICK written : written = CASE base = None -> copy
                                   [] base # None /\ user[id] # None -> Differing(copy, base, user[id])
                                   [] OTHER -> None
    OBVIOUS
  <2>5. /\ user' = [user EXCEPT ![id] = written] /\ user'[id] = written
        /\ \A x \in Ids \ {id} : user'[x] = user[x]
    BY <1>3, <2>2, <2>3, <2>4
  <2>6. \A k \in Kinds : user[id] # None /\ user[id].verified[k] => Proved(id, k)
    BY <2>2 DEF Stored, VerifiedUserHadCode, Proved, Confirmed
  <2>7. user[id] # None => user[id].name = nameOf[id]
    BY <2>2 DEF Fits
  <2>10. \/ /\ written \in Rows /\ written.name = nameOf[id]
            /\ \A k \in Kinds : written.verified[k] => Proved(id, k) \/ (mark = TRUE /\ kind = k)
            /\ user[id] = None => \A x \in Ids : user[x] # None => user[x].name # written.name
         \/ written = None /\ user[id] = None
    <3>1. CASE base = None
      <4>1. written = copy /\ user[id] = None /\ Named(copy.name) = {}
        BY <1>2, <1>3, <2>4, <3>1 DEF Insertable
      <4>2. \A x \in Ids : user[x] # None => user[x].name # copy.name
        BY <4>1 DEF Named
      <4> QED
        BY <2>2, <4>1, <4>2
    <3>2. CASE base # None /\ user[id] # None
      <4>1. written = Differing(copy, base, user[id]) /\ base \in Rows /\ user[id] \in Rows
        BY <2>3, <2>4, <3>2
      <4>2. /\ written \in Rows /\ written.name = user[id].name
            /\ \A k \in Kinds : written.verified[k] => copy.verified[k] \/ user[id].verified[k]
        BY <2>2, <4>1, DifferingRow
      <4> QED
        BY <2>2, <2>6, <2>7, <3>2, <4>2
    <3>3. CASE base # None /\ user[id] = None
      BY <2>4, <3>3
    <3> QED
      BY <3>1, <3>2, <3>3
  <2>11. /\ vouched \subseteq vouched' /\ vouched' \subseteq Ids \X Kinds
         /\ mark = TRUE => <<id, kind>> \in vouched'
    <3>1. mark = TRUE => kind \in Kinds
      BY <2>1, AccountsAssumption
    <3> QED
      BY <1>3, <2>1, <2>2, <3>1 DEF Typed
  <2>12. Grown
    <3>1. \A x, k : Confirmed(x, k) => Confirmed(x, k)'
      BY <2>1 DEF Confirmed, CodesOf
    <3> QED
      BY <2>1, <2>11, <3>1 DEF Grown
  <2>13. \A k \in Kinds : Proved(id, k) \/ (mark = TRUE /\ kind = k) => Proved(id, k)'
    BY <2>11, <2>12 DEF Grown, Proved
  <2>14. PICK r : r = [req[q] EXCEPT !.copy = None, !.base = None]
    OBVIOUS
  <2>15. /\ r \in Handlers /\ r.todo = req[q].todo /\ r.op = req[q].op
         /\ r.id = id /\ r.mark = mark /\ r.kind = kind
    BY <1>2, <2>1, <2>14 DEF Handlers
  <2>16. Moved(q, r)
    BY <1>3, <2>1, <2>14, <2>15, Context, Advance
  <2>17. Knows(q, nameOf)'
    <3>1. CASE req'[q] = Idle
      BY <3>1, IdleKnows
    <3>2. CASE req'[q] # Idle
      <4>1. <<"write", Head(Tail(r.todo))>> \in Follows
        BY <2>1, <2>15, <2>16, <3>2 DEF Moved
      <4>2. Head(Tail(r.todo)) \in {"issue", "expire"}
        BY <4>1 DEF Follows
      <4> QED
        BY <2>1, <2>2, <2>15, <2>16, <4>2, KnowsLittle
    <3> QED
      BY <3>1, <3>2
  <2>18. \A x \in Ids : user[x] # None => user'[x] # None
    BY <2>5, <2>10, NotNone
  <2>19. Typed'
    <3>1. \A c \in Codes : code'[c] # None => user'[code'[c].user] # None
      <4>1. SUFFICES ASSUME NEW c \in Codes, code[c] # None
                     PROVE  user'[code[c].user] # None
        BY <2>1
      <4>2. code[c].user \in Ids /\ user[code[c].user] # None
        BY <2>1, <4>1 DEF Typed, Issued
      <4> QED
        BY <2>18, <4>2
    <3>2. \A t \in Tokens : session'[t] \in Ids => user'[session'[t]] # None
      BY <2>1, <2>18 DEF Typed
    <3>3. {x \in Ids : user'[x] # None} \subseteq used' /\ used' \subseteq Ids
      BY <2>1, <2>2, <2>5 DEF Typed
    <3>4. user' \in [Ids -> Rows \cup {None}]
      BY <2>3, <2>5, <2>10
    <3> QED
      BY <2>1, <2>11, <2>16, <3>1, <3>2, <3>3, <3>4 DEF Typed, Moved, Codes
  <2>20. Unique'
    <3>1. SUFFICES ASSUME NEW x \in Ids, NEW y \in Ids, user'[x] # None, user'[y] # None,
                          user'[x].name = user'[y].name, x # y
                   PROVE  FALSE
      BY DEF Unique
    <3>2. CASE x # id /\ y # id
      BY <2>5, <3>1, <3>2 DEF Stored, Unique
    <3>3. CASE x = id /\ user[id] # None
      BY <2>5, <2>7, <2>10, <3>1, <3>3, NotNone DEF Stored, Unique
    <3>4. CASE y = id /\ user[id] # None
      BY <2>5, <2>7, <2>10, <3>1, <3>4, NotNone DEF Stored, Unique
    <3>5. CASE user[id] = None /\ (x = id \/ y = id)
      BY <2>5, <2>10, <3>1, <3>5
    <3> QED
      BY <3>2, <3>3, <3>4, <3>5
  <2>21. RetiredExpired'
    BY <2>1 DEF Stored, RetiredExpired
  <2>22. VerifiedUserHadCode'
    <3>1. SUFFICES ASSUME NEW x \in Ids, NEW k \in Kinds, user'[x] # None, user'[x].verified[k]
                   PROVE  Proved(x, k)'
      BY DEF VerifiedUserHadCode, Confirmed, Proved
    <3>2. CASE x = id
      BY <2>5, <2>10, <2>13, <3>1, <3>2
    <3>3. CASE x # id
      <4>1. Proved(x, k)
        BY <2>5, <3>1, <3>3 DEF Stored, VerifiedUserHadCode, Confirmed, Proved
      <4> QED
        BY <2>12, <4>1 DEF Grown, Proved
    <3> QED
      BY <3>2, <3>3
  <2>23. Stored'
    BY <2>19, <2>20, <2>21, <2>22 DEF Stored
  <2>24. \A x \in Ids : user'[x] # None => user'[x].name = nameOf[x]
    BY <2>5, <2>10 DEF Fits
  <2> QED
    BY <2>12, <2>16, <2>17, <2>23, <2>24, StepKeeps
<1> QED
  BY <1>1, <1>2, <1>3 DEF WriteUser
-----------------------------------------------------------------------------
(* The invariant.                                                           *)
LEMMA InitHolds ==
  ASSUME Init
  PROVE  AccountsInv
<1>1. user \in [Ids -> Rows \cup {None}]
  <2>1. \A name \in Names : Fresh(name) \in Rows
    BY DEF Fresh, Rows, AllAddresses
  <2> QED
    BY <2>1 DEF Init
<1>2. \A id \in Ids : user[id] # None =>
        user[id] \in Rows /\ \A kind \in Kinds : ~ user[id].verified[kind]
  <2>1. SUFFICES ASSUME NEW id \in Ids, user[id] # None
                 PROVE  user[id] \in Rows /\ \A kind \in Kinds : ~ user[id].verified[kind]
    OBVIOUS
  <2>2. PICK name \in Names : user[id] = Fresh(name)
    BY <2>1 DEF Init
  <2> QED
    <3>1. user[id].verified = [k \in Kinds |-> FALSE]
      BY <2>2 DEF Fresh
    <3>2. user[id] \in Rows
      BY <1>1, <2>1
    <3> QED
      BY <3>1, <3>2
<1>3. \A c \in Codes : code[c] = None
  BY DEF Init
<1>4. \A t \in Tokens : session[t] = None
  BY DEF Init
<1>5. req \in [Requests -> Handlers] /\ \A q \in Requests : req[q] = Idle
  BY IdleIsTyped DEF Init
<1>6. Typed
  <2>1. code \in [Codes -> Issued \cup {None}] /\ session \in [Tokens -> Ids \cup {None, Ended}]
    BY DEF Init
  <2>2. \A t \in Tokens : session[t] \in Ids => user[session[t]] # None
    BY <1>4, NotNone
  <2>3. accepted = {} /\ retired = {} /\ vouched = {} /\ used = {id \in Ids : user[id] # None}
    BY DEF Init
  <2> QED
    BY <1>1, <1>3, <1>5, <2>1, <2>2, <2>3 DEF Typed
<1>7. Unique /\ RetiredExpired
  BY DEF Init, RetiredExpired
<1>8. VerifiedUserHadCode
  BY <1>2 DEF VerifiedUserHadCode
<1>9. PICK nameOf : nameOf = [id \in Ids |-> IF user[id] # None THEN user[id].name ELSE None]
  OBVIOUS
<1>10. nameOf \in [Ids -> Names \cup {None}] /\ \A id \in Ids : user[id] # None => user[id].name = nameOf[id]
  BY <1>2, <1>9 DEF Rows
<1>11. \A q \in Requests : Orderly(req[q].op, req[q].todo) /\ Knows(q, nameOf)
  BY <1>5, OrderlyIdle, IdleIsTyped DEF Knows
<1> QED
  BY <1>6, <1>7, <1>8, <1>10, <1>11 DEF AccountsInv, Stored, Fits

LEMMA StepHolds ==
  ASSUME AccountsInv, NEW q \in Requests, Step(q)
  PROVE  AccountsInv'
<1>1. PICK nameOf \in [Ids -> Names \cup {None}] : Fits(nameOf)
  BY DEF AccountsInv
<1>2. Stored
  BY DEF AccountsInv
<1>3. CASE UsernameAvailable(q)
  BY <1>1, <1>2, <1>3, UsernameAvailableKeeps
<1>4. CASE CreateUser(q)
  BY <1>1, <1>2, <1>4, CreateUserKeeps
<1>5. CASE FindUser(q)
  BY <1>1, <1>2, <1>5, FindUserKeeps
<1>6. CASE FindByAddress(q)
  BY <1>1, <1>2, <1>6, FindByAddressKeeps
<1>7. CASE FindOneById(q)
  BY <1>1, <1>2, <1>7, FindOneByIdKeeps
<1>8. CASE ReadUser(q)
  BY <1>1, <1>2, <1>8, ReadUserKeeps
<1>9. CASE LoadAgain(q)
  BY <1>1, <1>2, <1>9, LoadAgainKeeps
<1>10. CASE WriteUser(q)
  BY <1>1, <1>2, <1>10, WriteUserKeeps
<1>11. CASE RemoveUser(q)
  BY <1>1, <1>2, <1>11, RemoveUserKeeps
<1>12. CASE IssueCode(q)
  BY <1>1, <1>2, <1>12, IssueCodeKeeps
<1>13. CASE GetValidOtp(q)
  BY <1>1, <1>2, <1>13, GetValidOtpKeeps
<1>14. CASE ValidateLatest(q)
  BY <1>1, <1>2, <1>14, ValidateLatestKeeps
<1>15. CASE InvalidateAllTokens(q)
  BY <1>1, <1>2, <1>15, InvalidateAllTokensKeeps
<1>16. CASE GetPublicKey(q)
  BY <1>1, <1>2, <1>16, GetPublicKeyKeeps
<1>17. CASE AddPublicKey(q) \/ VerifyTokenExists(q) \/ QueryFails(q)
  BY <1>1, <1>2, <1>17, RefuseKeeps, CrashKeeps DEF AddPublicKey, VerifyTokenExists, QueryFails
<1>18. CASE GenerateRefreshToken(q)
  BY <1>1, <1>2, <1>18, GenerateRefreshTokenKeeps
<1>19. CASE Logout(q)
  BY <1>1, <1>2, <1>19, LogoutKeeps
<1> QED
  BY <1>3, <1>4, <1>5, <1>6, <1>7, <1>8, <1>9, <1>10, <1>11, <1>12, <1>13, <1>14, <1>15, <1>16, <1>17,
     <1>18, <1>19 DEF Step

LEMMA NextHolds ==
  ASSUME AccountsInv, [Next]_vars
  PROVE  AccountsInv'
<1>1. CASE UNCHANGED vars
  <2>1. UNCHANGED <<user, used, code, session, accepted, retired, vouched, req>>
    BY <1>1 DEF vars
  <2>2. PICK nameOf \in [Ids -> Names \cup {None}] : Fits(nameOf)
    BY DEF AccountsInv
  <2>3. Silent /\ Stored /\ req' \in [Requests -> Handlers]
    BY <2>1 DEF AccountsInv, Stored, Typed, Silent, users, codes
  <2>4. Stored'
    BY <2>3, SilentStores
  <2>5. Fits(nameOf)'
    <3>1. \A q \in Requests : Knows(q, nameOf)'
      BY <2>1, <2>2, <2>3, SilentGrows, OthersKnow DEF Fits
    <3> QED
      BY <2>1, <2>2, <3>1 DEF Fits
  <2> QED
    BY <2>4, <2>5 DEF AccountsInv
<1>2. ASSUME NEW q \in Requests, NEW op \in Operations, Receive(q, op)
      PROVE  AccountsInv'
  <2>1. Stored /\ \E nameOf \in [Ids -> Names \cup {None}] : Fits(nameOf)
    BY DEF AccountsInv
  <2> QED
    BY <1>2, <2>1, ReceiveKeeps
<1> QED
  BY <1>1, <1>2, StepHolds DEF Next, NextOf

(* Rows, codes and sessions are consistent, and what every request knows is *)
(* true, in every reachable state.                                          *)
THEOREM AccountsInvariant == Spec => []AccountsInv
<1>1. Init => AccountsInv
  BY InitHolds
<1>2. AccountsInv /\ [Next]_vars => AccountsInv'
  BY NextHolds
<1> QED
  BY <1>1, <1>2, PTL DEF Spec

(* Names stay unique, and codes and sessions belong to users that are       *)
(* there, whatever sign-ups, saves and removals interleave.                 *)
THEOREM AccountsTypes == Spec => []TypeOK
<1>1. AccountsInv => TypeOK
  BY DEF AccountsInv, Stored, Typed, TypeOK
<1> QED
  BY <1>1, AccountsInvariant, PTL

(* Nobody is marked as verified who has neither had a code of that kind     *)
(* accepted at some time nor been marked by an administrator; which address *)
(* the code was for, and whether it is still the user's, is not said.       *)
THEOREM VerifiedUsersHadCodes == Spec => []VerifiedUserHadCode
<1>1. AccountsInv => VerifiedUserHadCode
  BY DEF AccountsInv, Stored
<1> QED
  BY <1>1, AccountsInvariant, PTL
-----------------------------------------------------------------------------
(* What one request's step leaves of another.                               *)
LEMMA OthersStay ==
  ASSUME NEW p \in Requests, NEW q \in Requests, p # q, Typed, Step(p)
  PROVE  req'[q] = req[q] \/ req'[q] = Idle
<1>1. \A r : GoOn(p, r) => req'[q] = req[q]
  BY DEF GoOn, Typed
<1>2. Refuse(p) => req'[q] = req[q]
  BY DEF Refuse, Typed
<1>3. Crash => req'[q] = Idle
  BY DEF Crash
<1>4. CASE UsernameAvailable(p) \/ CreateUser(p) \/ FindUser(p) \/ FindByAddress(p) \/ FindOneById(p)
  BY <1>1, <1>2, <1>4 DEF UsernameAvailable, CreateUser, FindUser, FindByAddress, FindOneById
<1>5. CASE ReadUser(p) \/ LoadAgain(p) \/ WriteUser(p) \/ RemoveUser(p)
  BY <1>1, <1>2, <1>5 DEF ReadUser, LoadAgain, WriteUser, RemoveUser
<1>6. CASE IssueCode(p) \/ GetValidOtp(p) \/ ValidateLatest(p) \/ InvalidateAllTokens(p)
  BY <1>1, <1>2, <1>6 DEF IssueCode, GetValidOtp, ValidateLatest, InvalidateAllTokens, Accept
<1>7. CASE GetPublicKey(p) \/ AddPublicKey(p) \/ GenerateRefreshToken(p) \/ VerifyTokenExists(p) \/ Logout(p)
  BY <1>1, <1>2, <1>3, <1>7 DEF GetPublicKey, AddPublicKey, GenerateRefreshToken, VerifyTokenExists, Logout
<1>8. CASE QueryFails(p)
  BY <1>2, <1>3, <1>8 DEF QueryFails
<1> QED
  BY <1>4, <1>5, <1>6, <1>7, <1>8 DEF Step

LEMMA AcceptedIsNotRetired ==
  ASSUME AccountsInv, Next, NEW q \in Requests, At(q, "code"), req'[q].todo = Tail(req[q].todo)
  PROVE  req[q].code \notin retired
<1>1. /\ Typed /\ req[q] \in Handlers /\ Orderly(req[q].op, req[q].todo) /\ RetiredExpired
      /\ req[q].todo # << >> /\ Head(req[q].todo) = "code"
  BY Context DEF AccountsInv, Stored, At
<1>2. /\ req[q].todo \in Seq(Awaits) /\ Len(req[q].todo) \in Nat \ {0} /\ Head(req[q].todo) = req[q].todo[1]
      /\ Len(Tail(req[q].todo)) = Len(req[q].todo) - 1
  BY <1>1, Fields, EmptySeq, HeadTailProperties
<1>3. Len(req[q].todo) # 1
  BY <1>1, <1>2 DEF Orderly
<1>4. Tail(req[q].todo) # << >> /\ Tail(req[q].todo) # req[q].todo
  <2> DEFINE n == Len(req[q].todo)
             m == Len(Tail(req[q].todo))
  <2>1. n \in Nat /\ n # 0 /\ n # 1 /\ m = n - 1
    BY <1>2, <1>3
  <2>2. Tail(req[q].todo) = << >> => m = 0
    BY EmptySeq
  <2>3. Tail(req[q].todo) = req[q].todo => m = n
    OBVIOUS
  <2> HIDE DEF n, m
  <2> QED
    BY <2>1, <2>2, <2>3
<1>5. req'[q] # req[q] /\ req'[q] # Idle
  BY <1>4, IdleIsTyped
<1>6. ~ Refuse(q) /\ ~ Crash
  <2>1. Refuse(q) => req'[q] = Idle
    BY <1>1 DEF Refuse, Typed
  <2>2. Crash => req'[q] = Idle
    BY DEF Crash
  <2> QED
    BY <1>5, <2>1, <2>2
<1>7. ASSUME NEW p \in Requests, Step(p)
      PROVE  req[q].code \notin retired
  <2>1. p = q
    BY <1>1, <1>5, <1>7, OthersStay
  <2>2. GetValidOtp(q) \/ QueryFails(q)
    BY <1>1, <1>7, <2>1 DEF Step, At, UsernameAvailable, CreateUser, FindUser, FindByAddress, FindOneById,
         ReadUser, LoadAgain, WriteUser, RemoveUser, IssueCode, ValidateLatest, InvalidateAllTokens,
         GetPublicKey, AddPublicKey, GenerateRefreshToken, VerifyTokenExists, Logout
  <2>3. Valid(req[q])
    BY <1>6, <2>2 DEF GetValidOtp, QueryFails
  <2> QED
    BY <1>1, <2>3 DEF Valid, RetiredExpired
<1>8. ASSUME NEW p \in Requests, NEW op \in Operations, Receive(p, op)
      PROVE  FALSE
  <2>1. req[p].todo = << >> /\ (p # q => req'[q] = req[q])
    BY <1>1, <1>8, IdleIsTyped DEF Receive, Typed
  <2> QED
    BY <1>1, <1>5, <2>1
<1> QED
  BY <1>7, <1>8 DEF Next, NextOf

(* No code that a confirmation has invalidated is accepted, whichever code  *)
(* it was for and whatever the other requests were at.                      *)
THEOREM RetiredCodesAreRefused == Spec => RetiredCodesRefused
<1>1. AccountsInv /\ [Next]_vars =>
        [\A q \in Requests :
           At(q, "code") /\ req'[q].todo = Tail(req[q].todo) => req[q].code \notin retired]_vars
  BY AcceptedIsNotRetired
<1> QED
  BY <1>1, AccountsInvariant, PTL DEF Spec, RetiredCodesRefused

LEMMA OwnLogout ==
  ASSUME AccountsInv, Next, NEW t \in Tokens, session[t] \in Ids, session'[t] = Ended
  PROVE  \/ user[session[t]] # None /\ user'[session[t]] = None
         \/ \E q \in Requests : At(q, "logout") /\ req[q].token = t /\ req[q].id = session[t]
<1>1. Typed /\ session'[t] # session[t]
  BY AccountsAssumption DEF AccountsInv, Stored
<1>2. ~ Silent /\ session' # session
  BY <1>1, SilentGrows
<1>3. PICK q \in Requests : Step(q)
  BY <1>2 DEF Next, NextOf, Receive, Silent
<1>4. RemoveUser(q) \/ GenerateRefreshToken(q) \/ Logout(q)
  <2>1. ~ Refuse(q) /\ ~ Crash
    BY <1>2 DEF Refuse, Crash, Silent
  <2> QED
    BY <1>2, <1>3, <2>1 DEF Step, UsernameAvailable, CreateUser, FindUser, FindByAddress, FindOneById,
         ReadUser, LoadAgain, WriteUser, IssueCode, ValidateLatest, InvalidateAllTokens, Accept,
         GetPublicKey, AddPublicKey, VerifyTokenExists, GetValidOtp, QueryFails
<1>5. ~ Refuse(q)
  BY <1>2 DEF Refuse, Silent
<1>6. CASE RemoveUser(q)
  <2>1. PICK id : id = req[q].id
    OBVIOUS
  <2>2. /\ user' = [user EXCEPT ![id] = None]
        /\ session' = [s \in Tokens |-> IF session[s] = id THEN Ended ELSE session[s]]
    BY <1>5, <1>6, <2>1 DEF RemoveUser
  <2>3. session[t] = id /\ user[id] # None /\ id \in Ids
    BY <1>1, <2>2 DEF Typed
  <2> QED
    BY <1>1, <2>2, <2>3 DEF Typed
<1>7. CASE GenerateRefreshToken(q)
  <2>1. PICK s \in Tokens : session[s] = None /\ session' = [session EXCEPT ![s] = req[q].id]
    BY <1>5, <1>7 DEF GenerateRefreshToken
  <2>2. s # t
    BY <2>1, NotNone
  <2> QED
    BY <1>1, <2>1, <2>2 DEF Typed
<1>8. CASE Logout(q)
  <2>1. At(q, "logout") /\ session' = [session EXCEPT ![req[q].token] = Ended] /\ session[req[q].token] = req[q].id
    BY <1>5, <1>8 DEF Logout
  <2>2. req[q].token = t
    BY <1>1, <2>1 DEF Typed
  <2> QED
    BY <2>1, <2>2
<1> QED
  BY <1>4, <1>6, <1>7, <1>8

(* Only its own logout, or the removal of its user, ends a session.         *)
THEOREM SessionsEndByLogout == Spec => SessionEndsByLogout
<1>1. AccountsInv /\ [Next]_vars =>
        [\A t \in Tokens :
           LET id == session[t] IN
           id \in Ids /\ session'[t] = Ended =>
             \/ user[id] # None /\ user'[id] = None
             \/ \E q \in Requests : At(q, "logout") /\ req[q].token = t /\ req[q].id = id]_vars
  BY OwnLogout
<1> QED
  BY <1>1, AccountsInvariant, PTL DEF Spec, SessionEndsByLogout
=============================================================================
