-------------------------------- MODULE Domain --------------------------------
(***************************************************************************)
(* Hosts and how well a stored one matches a page's (utils/domain.ts).  A  *)
(* host is the sequence of its labels, in lower case: what toUrl makes of  *)
(* a URL or a bare host.  Numeric addresses are hosts of a set of their    *)
(* own; the two tables of suffixes are parameters, because the program     *)
(* ships a part of the public list only.                                   *)
(***************************************************************************)
EXTENDS Naturals, Sequences

CONSTANTS
  Address,     \* the hosts that are IP addresses
  MultiLabel,  \* suffixes of two labels under which names are registered
  Shared       \* suffixes each of whose subdomains has an owner of its own

Last(h, n) == SubSeq(h, Len(h) - n + 1, Len(h))

\* "www." in front is dropped.
GetHost(h) == IF Len(h) > 1 /\ h[1] = "www" THEN Tail(h) ELSE h

UnderShared(h, n) == Len(h) > n /\ Last(h, n) \in Shared

\* What its owner registered: mail.example.co.uk is of example.co.uk, and
\* docs.alice.github.io of alice.github.io.
RegistrableDomain(input) ==
  LET h == GetHost(input) IN
  CASE h \in Address                  -> h
    [] h \notin Address /\ UnderShared(h, 3) -> Last(h, 4)
    [] h \notin Address /\ ~UnderShared(h, 3) /\ UnderShared(h, 2) -> Last(h, 3)
    [] OTHER -> IF Len(h) <= 2 THEN h
                ELSE IF Last(h, 2) \in MultiLabel THEN Last(h, 3) ELSE Last(h, 2)

NoMatch == 0
Parent == 2
Exact == 3

\* The page's host lies below the stored one: it ends in "." and the stored one.
Below(page, stored) ==
  Len(page) > Len(stored) /\ Last(page, Len(stored)) = stored

\* Host for host, the page below the stored host, or no match at all.  The
\* code's two branches, for a stored host with and without a subdomain, return
\* the same; MATCH_RELATED is never returned.
MatchStrength(stored, page) ==
  LET s == GetHost(stored)  p == GetHost(page) IN
  CASE s = p -> Exact
    [] s # p /\ Below(p, s) -> Parent
    [] OTHER -> NoMatch
===============================================================================
