-------------------------------- MODULE Rows --------------------------------
(***************************************************************************)
(* Tables as sequences of rows, and what an SQL statement does with them:  *)
(* WHERE, LIMIT, SUM and date_trunc.  Both backends are written with it.   *)
(***************************************************************************)
EXTENDS Integers, SequencesExt, FiniteSetsExt

(* Selected(rows, which)[n]: those of the first n rows that are in which, in their order. *)
Selected(rows, which) ==
  LET upTo[n \in 0 .. Len(rows)] ==
        IF n = 0 THEN <<>>
        ELSE IF rows[n] \in which THEN Append(upTo[n - 1], rows[n]) ELSE upTo[n - 1]
  IN  upTo

Select(rows, which) == Selected(rows, which)[Len(rows)]

\* WHERE.
Where(rows, Test(_)) == Select(rows, {r \in Range(rows) : Test(r)})

Limit(rows, count) == SubSeq(rows, 1, IF count < Len(rows) THEN count ELSE Len(rows))

Trunc(time, unit) == time - (time % unit)

(* SumTo(s)[n]: the sum of the first n numbers of s. *)
SumTo(s) ==
  LET upTo[n \in 0 .. Len(s)] == IF n = 0 THEN 0 ELSE upTo[n - 1] + s[n]
  IN  upTo

SumOf(s) == SumTo(s)[Len(s)]
=============================================================================
