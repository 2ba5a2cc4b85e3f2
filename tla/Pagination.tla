------------------------------ MODULE Pagination ------------------------------
(***************************************************************************)
(* common/helpers/pagination.ts: which rows of a result a page is.  A query  *)
(* parameter is a number, or Absent when there is none; paginationHelper     *)
(* takes what parseInt cannot read for absent too, the other helper passes   *)
(* NaN on and the query fails.  Rows are counted from 1.                     *)
(***************************************************************************)
EXTENDS Integers

CONSTANT Absent

ASSUME PaginationAssumption == Absent \notin Int

DefaultPageSize == 20

(* Mutation: pages counted from 0.                                          *)
SkipFromZero(page, pageSize) ==
  IF pageSize \in Int /\ page \in Int \ {0} THEN page * pageSize ELSE 0

(* paginationHelper.  TypeORM takes 0 for no limit.                         *)
Skip(page, pageSize) ==
  IF pageSize \in Int /\ page \in Int \ {0} THEN (page - 1) * pageSize ELSE 0

Take(pageSize) == IF pageSize \in Int THEN pageSize ELSE 0

(* paginationHelperOffsetLimit.                                             *)
Limit(pageSize) == IF pageSize \in Int THEN pageSize ELSE DefaultPageSize

Offset(page, pageSize) == IF page \in Int THEN (page - 1) * Limit(pageSize) ELSE 0

Rows(skip, take, n) == {i \in 1 .. n : skip < i /\ (take = 0 \/ i <= skip + take)}
=============================================================================
