--------------------------- MODULE MCSiteTeardown ---------------------------
(* Instances of SiteTeardown for TLC.                                      *)
EXTENDS SiteTeardown, TLC

Ident(s, b, u, d) == [site |-> s, sub |-> b, user |-> u, domain |-> d]
Req(m, ids, op, rev) == [mode |-> m, ids |-> ids, op |-> op, rev |-> rev]

\* Website 1 is removed by operation 1, in two revisions, or with its account;
\* website 2 of another subscription takes over its hostname.  A certificate
\* request for website 1 supplies no subscription.
Requests ==
    LET one == Ident(1, 1, "u1", 1)
        two == Ident(2, 2, "u2", 1)
    IN  {Req("create", <<one>>, 0, 0), Req("create", <<two>>, 0, 0),
         Req("existing", <<Ident(1, 0, "u1", 1)>>, 0, 0),
         Req("remove", <<one>>, 1, 1), Req("remove", <<one>>, 1, 2),
         Req("account-remove", <<one>>, 1, 1)}

Symmetry == Permutations(Proc)
=============================================================================
