------------------------------ MODULE MCPageSave ------------------------------
(* Instances of PageSave for TLC. *)
EXTENDS PageSave, TLC

CONSTANTS t1, f1, f2, l1, l2, anna, pass1, pass2, pass3

\* A tab with a page and a frame inside it.
OneTab == {t1}
TwoFrames == {f1, f2}
InOneTab == [f \in TwoFrames |-> t1]
TopFrame == [t \in OneTab |-> f1]
Logins == {l1, l2}
Passwords == {pass1, pass2, pass3}

Home == <<"example", "com">>
Mail == <<"mail", "example", "com">>
Sites == {Home, Mail}
Tenant == {}
HomeInMail == [f \in TwoFrames |-> IF f = f1 THEN {Mail} ELSE {Home}]

\* Nothing stored; an older login of the subdomain, that lacks its URL in the
\* metadata and can be updated from either host.
Nothing == [l \in Logins |-> None]
Older   == [Nothing EXCEPT ![l2] =
             [host |-> None, domain |-> Home, url |-> Mail, user |-> anna, pass |-> pass1]]
Names == {anna, Blank}
Filled(site, user, pass) == [site |-> site, user |-> user, pass |-> pass]
Forms == {Filled(Mail, anna, pass2), Filled(Home, anna, pass3)}
Changes == {[login |-> l1, user |-> Blank, url |-> Mail]}

Begin(v, h, m) == [vault |-> v, haste |-> h, made |-> m]
Starts == {Begin(Nothing, {}, 0), Begin(Older, {}, 0), Begin(Older, {"hasty", "eviction"}, 1)}
===============================================================================
