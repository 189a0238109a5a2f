----------------------------- MODULE TablePages -----------------------------
(***************************************************************************)
(* The pages of a sorted list (pageCount and paginate of                   *)
(* lib/analyses-filters.ts and lib/applications-filters.ts).               *)
(***************************************************************************)
EXTENDS Naturals, FiniteSets, FiniteSetsExt

\* The rank of a in S, from 0; before is a strict order on S.
Rank(a, S, before(_, _)) == Cardinality({b \in S : before(b, a)})

PageCount(n, size) == Max({1, (n + size - 1) \div size})

\* A page past the end, left by rows that went away, shows the last one.
ShownPage(page, n, size) == Min({page, PageCount(n, size)})

\* Of the row at rank i.
PageAt(i, size) == (i \div size) + 1
============================================================================
