------------------------------- MODULE Accounts -------------------------------
(***************************************************************************)
(* Users, their one-time codes and their sessions: auth.service.ts with the  *)
(* user, otp, user-session and crypto-keys services it calls.  A handler is  *)
(* a program: the list of the awaits it has still to go through.  Between    *)
(* two of them the handlers of other requests run.                           *)
(*                                                                           *)
(* A user row is saved as TypeORM does: the row that was read and assigned   *)
(* to (copy) is compared with the row read again (base), what differs is     *)
(* written, and a row that is not there any more is inserted as it was.      *)
(***************************************************************************)
EXTENDS Sequences, Integers

CONSTANTS
  Ids,        \* ids of users; each is given out once
  Names,
  Addresses,  \* of each kind: e-mail addresses, phone numbers
  MaxCodes,   \* bound on the codes issued
  Tokens,     \* refresh tokens; each is given out once
  Keyed,      \* users whose public key was put into crypto_key by hand
  Requests,
  None,
  Ended       \* a token whose session has been deleted

(* The id of a code is random: the next code may have any unused one.       *)
Codes == 1 .. MaxCodes

Kinds == {"email", "phone"}

Types == Kinds \cup {"login", "register"}

AllAddresses == {None} \cup UNION {Addresses[kind] : kind \in Kinds}

Rows == [name : Names, address : [Kinds -> AllAddresses], verified : [Kinds -> BOOLEAN]]

Issued == [user : Ids, type : Types, address : AllAddresses, expired : BOOLEAN]

ASSUME AccountsAssumption ==
  /\ MaxCodes \in Nat
  /\ None \notin Ids \cup Names \cup Rows \cup Issued
  /\ None \notin BOOLEAN
  /\ Ended \notin Ids

VARIABLES
  user,      \* None for an id without a row
  used,      \* the ids given out
  code,      \* None for one that is not issued
  session,   \* the user of each token
  accepted,  \* history: the codes that were found valid
  retired,   \* history: the codes there were when theirs were invalidated
  vouched,   \* history: what an administrator marked as verified
  req

vars == <<user, used, code, session, accepted, retired, vouched, req>>

users == <<user, used, vouched>>
codes == <<code, accepted, retired>>

Fresh(name) ==
  [name |-> name, address |-> [k \in Kinds |-> None], verified |-> [k \in Kinds |-> FALSE]]

Idle == [op |-> "none", todo |-> << >>, name |-> None, id |-> None, kind |-> "login",
         address |-> None, mark |-> None, code |-> 0, token |-> None, copy |-> None, base |-> None]

Named(name) == {id \in Ids : user[id] # None /\ user[id].name = name}

Unique == \A x, y \in Ids : user[x] # None /\ user[y] # None /\ user[x].name = user[y].name => x = y

Init ==
  /\ user \in [Ids -> {Fresh(name) : name \in Names} \cup {None}]
  /\ used = {id \in Ids : user[id] # None}
  /\ Unique
  /\ code = [c \in Codes |-> None]
  /\ session = [t \in Tokens |-> None]
  /\ accepted = {} /\ retired = {} /\ vouched = {}
  /\ req = [q \in Requests |-> Idle]

-----------------------------------------------------------------------------
Linking == {"linkEmail", "linkPhoneNumber"}
Completing == {"completeEmailUsingOtp", "completePhoneUsingOtp"}

Program(op) ==
  CASE op = "signup" -> <<"available", "insert", "session">>
    [] op = "getAccessTokens" -> <<"find", "session">>
    [] op = "getLoginOtp" -> <<"find", "issue">>
    [] op = "signin" -> <<"find", "code", "key", "session">>
    [] op = "resendOTP" -> <<"findId", "issue">>
    [] op = "validateOTP" -> <<"findAddress", "latest">>
    [] op = "completeSignup" -> <<"latest", "readId", "load", "write", "expire">>
    [] op \in Linking -> <<"read", "load", "write", "issue">>
    [] op \in Completing -> <<"find", "code", "read", "load", "write", "expire">>
    [] op = "update" -> <<"read", "load", "write">>
    [] op = "updateUser" -> <<"readId", "load", "write">>
    [] op = "remove" -> <<"findId", "remove">>
    [] op = "refreshToken" -> <<"find", "verify">>
    [] op = "logout" -> <<"logout">>
    [] op = "addPublicKey" -> <<"addKey">>

Operations ==
  {"signup", "getAccessTokens", "getLoginOtp", "signin", "resendOTP", "validateOTP",
   "completeSignup", "update", "updateUser", "remove", "refreshToken", "logout", "addPublicKey"}
  \cup Linking \cup Completing

(* What each endpoint takes from the client.                                *)
ByName(op) ==
  op \in {"signup", "getAccessTokens", "getLoginOtp", "signin", "update", "refreshToken"} \cup Linking \cup Completing
ById(op) ==
  op \in {"resendOTP", "completeSignup", "updateUser", "remove", "logout", "addPublicKey"}
ByCode(op) == op \in {"signin", "validateOTP", "completeSignup"} \cup Completing
BySession(op) == op \in {"refreshToken", "logout"}

KindsOf(op) ==
  CASE op \in {"linkEmail", "completeEmailUsingOtp"} -> {"email"}
    [] op \in {"linkPhoneNumber", "completePhoneUsingOtp"} -> {"phone"}
    [] op \in {"validateOTP", "updateUser", "refreshToken"} -> Kinds
    [] op = "resendOTP" -> Types
    [] op = "completeSignup" -> {"register"}
    [] OTHER -> {"login"}

AddressesOf(op, kind) ==
  CASE op \in Linking \cup Completing \cup {"validateOTP"} -> Addresses[kind]
    [] op \in {"updateUser", "refreshToken"} -> Addresses[kind] \cup {None}
    [] OTHER -> {None}

Receive(q, op) ==
  /\ req[q] = Idle
  /\ \E name \in IF ByName(op) THEN Names ELSE {None},
        id \in IF ById(op) THEN Ids ELSE {None},
        kind \in KindsOf(op),
        mark \in IF op = "updateUser" THEN BOOLEAN \cup {None} ELSE {None},
        c \in IF ByCode(op) THEN Codes ELSE {0},
        t \in IF BySession(op) THEN Tokens ELSE {None} :
       \E address \in AddressesOf(op, kind) :
         req' = [req EXCEPT ![q] = [Idle EXCEPT !.op = op, !.todo = Program(op), !.name = name,
                   !.id = id, !.kind = kind, !.address = address, !.mark = mark, !.code = c,
                   !.token = t]]
  /\ UNCHANGED <<users, codes, session>>

At(q, await) == req[q].todo # << >> /\ Head(req[q].todo) = await

(* The handler goes on to its next await, or ends.                          *)
GoOn(q, r) ==
  req' = [req EXCEPT ![q] = IF Len(r.todo) = 1 THEN Idle ELSE [r EXCEPT !.todo = Tail(@)]]

Refuse(q) == req' = [req EXCEPT ![q] = Idle] /\ UNCHANGED <<users, codes, session>>

(* An unhandled rejection ends the process and all that it was serving.     *)
Crash == req' = [q \in Requests |-> Idle] /\ UNCHANGED <<users, codes, session>>

InBackground(q) == At(q, "verify") \/ At(q, "addKey")

QueryFails(q) ==
  /\ req[q].todo # << >>
  /\ IF InBackground(q) THEN Crash ELSE Refuse(q)

-----------------------------------------------------------------------------
(* The user service.                                                        *)
UsernameAvailable(q) ==
  /\ At(q, "available")
  /\ \/ Named(req[q].name) = {} /\ GoOn(q, req[q]) /\ UNCHANGED <<users, codes, session>>
     \/ Named(req[q].name) # {} /\ Refuse(q)

(* Mutation: no unique constraint, as the name has been looked up before.   *)
CreateUnchecked(q) ==
  /\ At(q, "insert")
  /\ \E id \in Ids \ used :
       /\ user' = [user EXCEPT ![id] = Fresh(req[q].name)]
       /\ used' = used \cup {id}
       /\ GoOn(q, [req[q] EXCEPT !.id = id])
  /\ UNCHANGED <<vouched, codes, session>>

(* The unique constraint on the name decides between two sign-ups.          *)
CreateUser(q) ==
  /\ At(q, "insert")
  /\ \/ Named(req[q].name) # {} /\ Refuse(q)
     \/ /\ Named(req[q].name) = {}
        /\ \E id \in Ids \ used :
             /\ user' = [user EXCEPT ![id] = Fresh(req[q].name)]
             /\ used' = used \cup {id}
             /\ GoOn(q, [req[q] EXCEPT !.id = id])
        /\ UNCHANGED <<vouched, codes, session>>

(* Neither an e-mail address nor a phone number belongs to one user only.   *)
WithAddress(kind, address) == {id \in Ids : user[id] # None /\ user[id].address[kind] = address}

(* refreshToken looks for what its token names: the name, or an address if  *)
(* the token is one that refreshToken has signed, which holds no name.      *)
Wanted(r) ==
  IF r.op = "refreshToken" /\ r.address # None THEN WithAddress(r.kind, r.address) ELSE Named(r.name)

(* Whatever comes next fails without a user, except that refreshToken has   *)
(* started to look for the session by then.                                 *)
FindUser(q) ==
  /\ At(q, "find")
  /\ \/ /\ \E id \in Wanted(req[q]) : GoOn(q, [req[q] EXCEPT !.id = id])
        /\ UNCHANGED <<users, codes, session>>
     \/ /\ Wanted(req[q]) = {} /\ req[q].op = "refreshToken"
        /\ GoOn(q, req[q])
        /\ UNCHANGED <<users, codes, session>>
     \/ Wanted(req[q]) = {} /\ req[q].op # "refreshToken" /\ Refuse(q)

FindByAddress(q) ==
  /\ At(q, "findAddress")
  /\ LET found == WithAddress(req[q].kind, req[q].address)
     IN \/ /\ \E id \in found : GoOn(q, [req[q] EXCEPT !.id = id, !.address = None])
           /\ UNCHANGED <<users, codes, session>>
        \/ found = {} /\ Refuse(q)

FindOneById(q) ==
  /\ At(q, "findId")
  /\ \/ user[req[q].id] # None /\ GoOn(q, req[q]) /\ UNCHANGED <<users, codes, session>>
     \/ user[req[q].id] = None /\ Refuse(q)

(* What a request assigns to the row it has read.  Full names, pictures and *)
(* the status are columns of no consequence here.                           *)
Assigned(r, row) ==
  CASE r.op \in Linking -> [row EXCEPT !.address = [@ EXCEPT ![r.kind] = r.address],
                                       !.verified = [@ EXCEPT ![r.kind] = FALSE]]
    [] r.op \in Completing -> [row EXCEPT !.verified = [@ EXCEPT ![r.kind] = TRUE]]
    [] r.op = "updateUser" ->
         [row EXCEPT !.address = IF r.address = None THEN @ ELSE [@ EXCEPT ![r.kind] = r.address],
                     !.verified = IF r.mark = None THEN @ ELSE [@ EXCEPT ![r.kind] = r.mark]]
    [] OTHER -> row

(* update and updateWithUsername: the second looks the name up once more.   *)
ReadUser(q) ==
  /\ At(q, "read") \/ At(q, "readId")
  /\ LET found == IF At(q, "read") THEN Named(req[q].name)
                  ELSE {id \in {req[q].id} : user[id] # None}
     IN \/ found = {} /\ Refuse(q)
        \/ /\ \E id \in found :
                GoOn(q, [req[q] EXCEPT !.id = id, !.copy = Assigned(req[q], user[id])])
           /\ UNCHANGED <<users, codes, session>>

LoadAgain(q) ==
  /\ At(q, "load")
  /\ GoOn(q, [req[q] EXCEPT !.base = user[req[q].id]])
  /\ UNCHANGED <<users, codes, session>>

Differing(copy, base, row) ==
  [row EXCEPT
     !.address = [k \in Kinds |-> IF copy.address[k] # base.address[k] THEN copy.address[k] ELSE @[k]],
     !.verified = [k \in Kinds |-> IF copy.verified[k] # base.verified[k] THEN copy.verified[k] ELSE @[k]]]

Insertable(r) == user[r.id] = None /\ Named(r.copy.name) = {}

WriteUser(q) ==
  /\ At(q, "write")
  /\ LET r == req[q] IN
       \/ /\ r.base # None \/ Insertable(r)
          /\ user' = [user EXCEPT ![r.id] =
               CASE r.base = None -> r.copy
                 [] r.base # None /\ @ # None -> Differing(r.copy, r.base, @)
                 [] OTHER -> None]
          /\ vouched' = IF r.mark = TRUE THEN vouched \cup {<<r.id, r.kind>>} ELSE vouched
          /\ GoOn(q, [r EXCEPT !.copy = None, !.base = None])
          /\ UNCHANGED <<used, codes, session>>
       \/ r.base = None /\ ~Insertable(r) /\ Refuse(q)

CodesOf(id, type) == {c \in Codes : code[c] # None /\ code[c].user = id /\ code[c].type = type}

(* Mutation: codes are removed with their user, as sessions are.            *)
RemoveWithCodes(q) ==
  /\ At(q, "remove")
  /\ user' = [user EXCEPT ![req[q].id] = None]
  /\ session' = [t \in Tokens |-> IF session[t] = req[q].id THEN Ended ELSE session[t]]
  /\ code' = [c \in Codes |-> IF code[c] # None /\ code[c].user = req[q].id THEN None ELSE code[c]]
  /\ accepted' = {c \in accepted : code'[c] # None}
  /\ GoOn(q, req[q])
  /\ UNCHANGED <<used, vouched, retired>>

(* Codes refer to their user without a cascade, sessions with one.          *)
RemoveUser(q) ==
  /\ At(q, "remove")
  /\ LET id == req[q].id
         referred == \E type \in Types : CodesOf(id, type) # {}
     IN \/ referred /\ Refuse(q)
        \/ /\ ~referred
           /\ user' = [user EXCEPT ![id] = None]
           /\ session' = [t \in Tokens |-> IF session[t] = id THEN Ended ELSE session[t]]
           /\ GoOn(q, req[q])
           /\ UNCHANGED <<used, vouched, codes>>

-----------------------------------------------------------------------------
(* The otp service.                                                         *)

CreateOTP(r) ==
  [user |-> r.id, type |-> r.kind, address |-> r.address, expired |-> FALSE]

(* generateAndSendOTP.  Sending changes nothing, whether it works or not.   *)
IssueCode(q) ==
  /\ At(q, "issue")
  /\ \/ user[req[q].id] = None /\ Refuse(q)
     \/ /\ user[req[q].id] # None
        /\ \E c \in Codes : code[c] = None /\ code' = [code EXCEPT ![c] = CreateOTP(req[q])]
        /\ GoOn(q, req[q])
        /\ UNCHANGED <<users, accepted, retired, session>>

(* The rest of the handler uses neither the code nor its address.           *)
Accept(q) ==
  /\ accepted' = accepted \cup {req[q].code}
  /\ GoOn(q, [req[q] EXCEPT !.code = 0, !.address = None])
  /\ UNCHANGED <<users, code, retired, session>>

(* getValidOtp; its time may be over at any moment, which looks the same as *)
(* a query that fails.                                                      *)
Valid(r) ==
  /\ r.code \in CodesOf(r.id, r.kind)
  /\ ~code[r.code].expired
  /\ r.address \in {None, code[r.code].address}

GetValidOtp(q) ==
  /\ At(q, "code")
  /\ \/ Valid(req[q]) /\ Accept(q)
     \/ ~Valid(req[q]) /\ Refuse(q)

(* validateOTP of the otp service: of all codes of the user only the one    *)
(* with the greatest id is looked at.                                       *)
Latest(id) ==
  {c \in Codes : code[c] # None /\ code[c].user = id
                 /\ \A d \in c + 1 .. MaxCodes : code[d] = None \/ code[d].user # id}

ValidateLatest(q) ==
  /\ At(q, "latest")
  /\ LET valid == req[q].code \in Latest(req[q].id) /\ ~code[req[q].code].expired
     IN \/ valid /\ Accept(q)
        \/ ~valid /\ Refuse(q)

(* Mutation: only the latest code is invalidated.                           *)
InvalidateLatest(q) ==
  /\ At(q, "expire")
  /\ LET latest == CodesOf(req[q].id, req[q].kind) \cap Latest(req[q].id) IN
       code' = [c \in Codes |-> IF c \in latest THEN [code[c] EXCEPT !.expired = TRUE] ELSE code[c]]
  /\ retired' = retired \cup CodesOf(req[q].id, req[q].kind)
  /\ GoOn(q, req[q])
  /\ UNCHANGED <<users, accepted, session>>

InvalidateAllTokens(q) ==
  /\ At(q, "expire")
  /\ LET all == CodesOf(req[q].id, req[q].kind) IN
       /\ code' = [c \in Codes |-> IF c \in all THEN [code[c] EXCEPT !.expired = TRUE] ELSE code[c]]
       /\ retired' = retired \cup all
  /\ GoOn(q, req[q])
  /\ UNCHANGED <<users, accepted, session>>

-----------------------------------------------------------------------------
(* Keys and sessions.                                                       *)
GetPublicKey(q) ==
  /\ At(q, "key")
  /\ \/ req[q].id \in Keyed /\ GoOn(q, req[q]) /\ UNCHANGED <<users, codes, session>>
     \/ Refuse(q)

(* The promise of findOne is never null: every key is refused.              *)
AddPublicKey(q) == At(q, "addKey") /\ Refuse(q)

GenerateRefreshToken(q) ==
  /\ At(q, "session")
  /\ \/ user[req[q].id] = None /\ Refuse(q)
     \/ /\ user[req[q].id] # None
        /\ \E t \in Tokens : session[t] = None /\ session' = [session EXCEPT ![t] = req[q].id]
        /\ GoOn(q, req[q])
        /\ UNCHANGED <<users, codes>>

(* refreshToken answers with a new access token without waiting for this:   *)
(* a session that is not there, or has expired, ends the process.           *)
VerifyTokenExists(q) ==
  /\ At(q, "verify")
  /\ \/ /\ session[req[q].token] \in Ids
        /\ req[q].id \in {None, session[req[q].token]}
        /\ Refuse(q)
     \/ Crash

(* Mutation: the token is left out of the condition.                        *)
LogoutEverywhere(q) ==
  /\ At(q, "logout")
  /\ session' = [t \in Tokens |-> IF session[t] = req[q].id THEN Ended ELSE session[t]]
  /\ GoOn(q, req[q])
  /\ UNCHANGED <<users, codes>>

Logout(q) ==
  /\ At(q, "logout")
  /\ LET t == req[q].token IN
       \/ session[t] # req[q].id /\ Refuse(q)
       \/ /\ session[t] = req[q].id
          /\ session' = [session EXCEPT ![t] = Ended]
          /\ GoOn(q, req[q])
          /\ UNCHANGED <<users, codes>>

-----------------------------------------------------------------------------
Step(q) ==
  \/ UsernameAvailable(q) \/ CreateUser(q) \/ FindUser(q) \/ FindByAddress(q) \/ FindOneById(q)
  \/ ReadUser(q) \/ LoadAgain(q) \/ WriteUser(q) \/ RemoveUser(q)
  \/ IssueCode(q) \/ GetValidOtp(q) \/ ValidateLatest(q) \/ InvalidateAllTokens(q)
  \/ GetPublicKey(q) \/ AddPublicKey(q)
  \/ GenerateRefreshToken(q) \/ VerifyTokenExists(q) \/ Logout(q)
  \/ QueryFails(q)

NextOf(operations) == \E q \in Requests : Step(q) \/ \E op \in operations : Receive(q, op)

Next == NextOf(Operations)

Spec == Init /\ [][Next]_vars

-----------------------------------------------------------------------------
Awaits == {"available", "insert", "session", "find", "findAddress", "findId", "issue", "code", "key", "latest",
           "read", "readId", "load", "write", "expire", "remove", "verify", "logout", "addKey"}

Handlers ==
  [op : Operations \cup {"none"}, todo : Seq(Awaits), name : Names \cup {None},
   id : Ids \cup {None}, kind : Types, address : AllAddresses, mark : BOOLEAN \cup {None},
   code : Codes \cup {0}, token : Tokens \cup {None}, copy : Rows \cup {None}, base : Rows \cup {None}]

(* Types of the variables.  Names are unique, and codes and sessions belong *)
(* to users that are there, however sign-ups, removals and saves that       *)
(* insert a removed row again interleave.                                   *)
TypeOK ==
  /\ user \in [Ids -> Rows \cup {None}]
  /\ {id \in Ids : user[id] # None} \subseteq used /\ used \subseteq Ids
  /\ Unique
  /\ code \in [Codes -> Issued \cup {None}]
  /\ \A c \in Codes : code[c] # None => user[code[c].user] # None
  /\ session \in [Tokens -> Ids \cup {None, Ended}]
  /\ \A t \in Tokens : session[t] \in Ids => user[session[t]] # None
  /\ accepted \subseteq Codes /\ retired \subseteq Codes /\ vouched \subseteq Ids \X Kinds
  /\ req \in [Requests -> Handlers]

(* A user who is marked as verified has had a code of that kind accepted, or *)
(* an administrator, who may mark what he likes (PATCH /user/:id), marked   *)
(* him.  Confirming checks a code of the user it has found by name, then    *)
(* looks the name up again to write: a user with codes cannot have been     *)
(* removed and the name taken by another meanwhile.  For which address the  *)
(* code was is not said: one for an earlier address confirms the address    *)
(* the row has by then, and a stale copy of the row brings a mark back.     *)
VerifiedUserHadCode ==
  \A id \in Ids : \A kind \in Kinds :
    user[id] # None /\ user[id].verified[kind] =>
      CodesOf(id, kind) \cap accepted # {} \/ <<id, kind>> \in vouched

(* A code that was there when a confirmation invalidated the codes of its   *)
(* user and type is not accepted any more, whichever of them was used and   *)
(* whatever other requests were at.                                         *)
RetiredCodesRefused ==
  [][\A q \in Requests :
       At(q, "code") /\ req'[q].todo = Tail(req[q].todo) => req[q].code \notin retired]_vars

(* A session ends only by its own logout or with its user: logging out on   *)
(* one device leaves the others, and so does signing in again.              *)
SessionEndsByLogout ==
  [][\A t \in Tokens :
       LET id == session[t] IN
       id \in Ids /\ session'[t] = Ended =>
         \/ user[id] # None /\ user'[id] = None
         \/ \E q \in Requests : At(q, "logout") /\ req[q].token = t /\ req[q].id = id]_vars
=============================================================================
