----------------------- MODULE MCSiteIdentityRegistry -----------------------
(* Instances of SiteIdentityRegistry for TLC.                              *)
EXTENDS SiteIdentityRegistry, TLC

Ident(s, b, u, d) == [site |-> s, sub |-> b, user |-> u, domain |-> d]
Req(m, ids, op, rev) == [mode |-> m, ids |-> ids, op |-> op, rev |-> rev]

\* An account with websites 1 and 2 on hostnames 1 and 2, and website 3 of
\* another account, the replacement of website 1 on hostname 1.  Shared requests
\* name two websites in opposite orders, and a legacy request names none.
\* Website 1 is removed on its own, in two revisions, or with its account.
Requests ==
    LET one == Ident(1, 1, "u1", 1)
        two == Ident(2, 1, "u1", 2)
        new == Ident(3, 2, "u2", 1)
    IN  {Req("create", <<new>>, 0, 0),
         Req("create", <<two, one>>, 0, 0),
         Req("existing", <<Ident(0, 0, NoUser, 1)>>, 0, 0),
         Req("remove", <<one>>, 1, 1), Req("remove", <<one>>, 1, 2),
         Req("account-remove", <<one, two>>, 1, 1)}

Symmetry == Permutations(Proc)
=============================================================================
