------------------------------ MODULE MCAccounts ------------------------------
EXTENDS Accounts, TLC

CONSTANTS id1, id2, ann, emailA, emailB, phone, t1, t2, q1, q2

MCIds == {id1, id2}
MCNames == {ann}
MCAddresses == [email |-> {emailA, emailB}, phone |-> {phone}]
MCTokens == {t1, t2}
MCKeyed == {id1}
MCRequests == {q1, q2}

VARIABLE offered  \* what clients ask for in this behaviour

Scenarios ==
  {{"signup", "linkEmail", "completeEmailUsingOtp", "remove"},
   {"linkEmail", "linkPhoneNumber", "completePhoneUsingOtp"},
   {"linkEmail", "completeEmailUsingOtp", "update"},
   {"signup", "getLoginOtp", "signin", "refreshToken", "logout", "remove", "addPublicKey"},
   {"getAccessTokens", "resendOTP", "completeSignup", "update", "remove"},
   {"getLoginOtp", "validateOTP", "updateUser"},
   {"linkPhoneNumber", "completePhoneUsingOtp", "updateUser"},
   {"updateUser", "signup", "remove"}}

(* The first user is there and has a key.                                   *)
MCInit ==
  /\ Init
  /\ used = {id1}
  /\ offered \in Scenarios

(* The administrator changes phone numbers only.                            *)
MCNext ==
  /\ NextOf(offered)
  /\ \A q \in Requests : req'[q].op = "updateUser" => req'[q].kind = "phone"
  /\ UNCHANGED offered

MCSpec == MCInit /\ [][MCNext]_<<vars, offered>>

Symmetry == Permutations({emailA, emailB}) \cup Permutations(MCTokens) \cup Permutations(MCRequests)
=============================================================================
