---------------------------- MODULE PaginationProofs ----------------------------
(***************************************************************************)
(* What a client that asks for one page after the other gets, whatever the   *)
(* size of the pages and the number of rows.                                 *)
(***************************************************************************)
EXTENDS Pagination, TLAPS

PageRows(page, pageSize, n) == Rows(Skip(page, pageSize), Take(pageSize), n)

(* Consecutive pages start pageSize rows apart.                             *)
LEMMA NextSkip ==
  ASSUME NEW page \in Nat \ {0}, NEW pageSize \in Nat \ {0}
  PROVE  /\ Skip(page, pageSize) \in Nat
         /\ Skip(page + 1, pageSize) = Skip(page, pageSize) + pageSize
         /\ Skip(page, pageSize) = (page - 1) * pageSize
<1>1. page + 1 \in Int \ {0} /\ page \in Int \ {0} /\ pageSize \in Int
  OBVIOUS
<1>2. Skip(page, pageSize) = (page - 1) * pageSize
  BY <1>1 DEF Skip
<1>3. Skip(page + 1, pageSize) = ((page + 1) - 1) * pageSize
  BY <1>1 DEF Skip
<1>4. (page - 1) * pageSize \in Nat
  OBVIOUS
<1>5. ((page + 1) - 1) * pageSize = (page - 1) * pageSize + pageSize
  OBVIOUS
<1> QED
  BY <1>2, <1>3, <1>4, <1>5

(* Pages adjoin: a row belongs to a page, or to a later one, exactly when   *)
(* it comes after the rows of the pages before (paginationHelper).          *)
THEOREM PagesAdjoin ==
  ASSUME NEW page \in Nat \ {0}, NEW pageSize \in Nat \ {0}, NEW n \in Nat
  PROVE  /\ PageRows(page, pageSize, n) \cap PageRows(page + 1, pageSize, n) = {}
         /\ \A i \in 1 .. n : Skip(page, pageSize) < i =>
              i \in PageRows(page, pageSize, n) \/ Skip(page + 1, pageSize) < i
         /\ PageRows(page, pageSize, n) # {} => Skip(page, pageSize) < n
<1> DEFINE skip == Skip(page, pageSize)
           next == Skip(page + 1, pageSize)
<1>1. skip \in Nat /\ next = skip + pageSize
  BY NextSkip
<1>2. Take(pageSize) = pageSize
  BY DEF Take
<1>3. PageRows(page, pageSize, n) = {i \in 1 .. n : skip < i /\ i <= skip + pageSize}
  BY <1>2 DEF PageRows, Rows
<1>4. PageRows(page + 1, pageSize, n) = {i \in 1 .. n : next < i /\ i <= next + pageSize}
  BY <1>2 DEF PageRows, Rows
<1> HIDE DEF skip, next
<1>5. PageRows(page, pageSize, n) \cap PageRows(page + 1, pageSize, n) = {}
  BY <1>1, <1>3, <1>4
<1>6. \A i \in 1 .. n : skip < i => i \in PageRows(page, pageSize, n) \/ next < i
  BY <1>1, <1>3
<1>7. PageRows(page, pageSize, n) # {} => skip < n
  BY <1>1, <1>3
<1> QED
  BY <1>5, <1>6, <1>7 DEF skip, next

(* The two helpers cut the same pages when the client names both a page and *)
(* a positive size.                                                         *)
THEOREM HelpersAgree ==
  ASSUME NEW page \in Nat \ {0}, NEW pageSize \in Nat \ {0}
  PROVE  Offset(page, pageSize) = Skip(page, pageSize) /\ Limit(pageSize) = Take(pageSize)
  BY DEF Offset, Limit, Skip, Take
=============================================================================
