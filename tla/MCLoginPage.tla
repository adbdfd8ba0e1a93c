---------------------------- MODULE MCLoginPage ----------------------------
(***************************************************************************)
(* Small instances of LoginPage: an application's login, the console's, a  *)
(* login of the page alone, and a page for an application nobody knows.    *)
(***************************************************************************)
EXTENDS ActivatePage

Page(redirect, admin, mockOtp, passkeys) ==
    [unknown |-> FALSE, redirect |-> redirect, admin |-> admin,
     mockOtp |-> mockOtp, passkeys |-> passkeys]

BootRecords ==
    {Page(FALSE, FALSE, TRUE, TRUE), Page(TRUE, FALSE, FALSE, TRUE),
     Page(FALSE, TRUE, FALSE, FALSE),
     [Page(FALSE, FALSE, FALSE, TRUE) EXCEPT !.unknown = TRUE]}

=============================================================================
