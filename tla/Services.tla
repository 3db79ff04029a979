------------------------------- MODULE Services -------------------------------
(***************************************************************************)
(* Accounts, Sessions, Listings and WeeklySummary side by side.  None of   *)
(* the four reads what another writes, so an interleaving of their steps   *)
(* shows nothing that one of them alone does not: every behaviour picks a  *)
(* part and takes the steps of that part.                                  *)
(***************************************************************************)
EXTENDS WeeklySummary

CONSTANTS Requests,                                                   \* slots of requests
          Emails, Passwords, Names, Lower, MaxUsers,                  \* Accounts
          Holders, Times,                                             \* Sessions
          ACCESS_TOKEN_EXPIRE_MINUTES, REFRESH_TOKEN_EXPIRE_DAYS,
          Dates, Stamps, Limit                                        \* Listings

\* A name in lower case stays as it is.
ASSUME AccountsAssumption == /\ Lower \in [Names -> Names]
                             /\ \A n \in Names : Lower[Lower[n]] = Lower[n]
                             /\ MaxUsers \in Nat

\* Time is in whole minutes.
ASSUME TimesAssumption == /\ Times \subseteq Nat
                          /\ ACCESS_TOKEN_EXPIRE_MINUTES \in Nat
                          /\ REFRESH_TOKEN_EXPIRE_DAYS \in Nat

\* Dates and stamps are ordered, and ge=1 of the schema's limit.
ASSUME ListingAssumption == /\ Dates \subseteq Nat
                            /\ Stamps \subseteq Nat /\ IsFiniteSet(Stamps)
                            /\ Limit \in Nat \ {0}

VARIABLES part,
          users, nextId, stmt, form, acked, answer,                   \* Accounts
          active, tokens, clock, step, asked, late, status,           \* Sessions
          recorded, member, page, skip, total, listed, before, deleted   \* Listings

accountVars == <<users, nextId, stmt, form, acked, answer>>
sessionVars == <<active, tokens, clock, step, asked, late, status>>
listingVars == <<recorded, member, page, skip, total, listed, before, deleted>>

Account == INSTANCE Accounts WITH pc <- stmt, call <- form, reply <- answer
Session == INSTANCE Sessions WITH Users <- Holders, pc <- step, call <- asked, reply <- status
Listing == INSTANCE Listings WITH pc <- page, expenses <- recorded

ServicesInit == /\ part \in {"accounts", "sessions", "listings", "weekly"}
                /\ Account!Init /\ Session!Init /\ Listing!Init /\ Init
                /\ part # "sessions" => \A t \in Times : clock <= t

ServicesNext ==
  /\ UNCHANGED part
  /\ \/ part = "accounts" /\ Account!Next /\ UNCHANGED <<sessionVars, listingVars, vars>>
     \/ part = "sessions" /\ Session!Next /\ UNCHANGED <<accountVars, listingVars, vars>>
     \/ part = "listings" /\ Listing!Next /\ UNCHANGED <<accountVars, sessionVars, vars>>
     \/ part = "weekly" /\ Next /\ UNCHANGED <<accountVars, sessionVars, listingVars>>

ServicesSpec == /\ ServicesInit
                /\ [][ServicesNext]_<<part, accountVars, sessionVars, listingVars, vars>>

\* Accounts: every variable holds a value of its type, and names are in lower case.
AccountsTypeOK == Account!TypeOK

\* However registrations overlap, no two accounts have the same e-mail address,
\* nor usernames that differ in nothing but case (register_user).
UniqueAccounts == Account!UniqueAccounts

\* Whoever was told 201 can log in with that e-mail address and password from then
\* on, whatever others register (authenticate_user).
RegisteredCanLogIn == Account!RegisteredCanLogIn

\* Sessions: every variable holds a value of its type.
SessionsTypeOK == Session!TypeOK

\* Whoever comes after the deactivation of the account is turned away, whatever
\* tokens are still around (refresh, get_current_user).
DeactivatedStayOut == Session!DeactivatedStayOut

\* Listings: every variable holds a value of its type, and what a page lists was
\* live until then.
ListingsTypeOK == Listing!TypeOK

\* Records that come in can only repeat an expense; each deletion makes the
\* reader of get_group_expenses miss one at most.
MissedByDeletions == Listing!MissedByDeletions
===============================================================================
