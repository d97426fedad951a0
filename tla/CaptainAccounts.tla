----------------------------- MODULE CaptainAccounts -----------------------------
(***************************************************************************)
(* Who may act as the captain of a club (apps/tabt-rest/src/captain/auth): *)
(* a trusted operator provides accounts, a login is checked against the    *)
(* federation, tokens carry the club, and a subscription is looked up and  *)
(* remembered for a while.                                                 *)
(*                                                                         *)
(* One person is modelled; the operator and the federation change at any   *)
(* time, also while a login or a look-up waits for an answer.              *)
(***************************************************************************)
EXTENDS Integers, FiniteSets, Common

CONSTANTS
    Clubs,
    AccessTtl,  \* how long an access token is good
    RefreshTtl, \* how long a refresh token is
    ProTtl,     \* how long a look-up is remembered
    HttpTimeout, \* how long a look-up may take
    Lookups,    \* look-ups under way at once
    MaxClock,   \* bound
    MaxSessions \* bound: sessions alive

ASSUME AccountsAssumption ==
    /\ {MaxClock, AccessTtl, HttpTimeout} \subseteq Nat /\ ProTtl \in Nat \ {0}
    /\ None \notin Nat \cup Clubs

VARIABLES
    clock,
    account,    \* CaptainAccount: the club, or None
    member,     \* the person's club in the federation
    login,      \* the club of the account a login has read, or None
    sessions,   \* issued: [club, since], which stand for their two tokens
    granted,    \* the last request let through: its club, or None
    lastHeld,   \* history: of each club, when the account was last there
    pro,        \* is there a subscription that has not expired?
    proCache,   \* the look-up remembered: [active, validUntil], or None
    lookup,     \* of each request, the answer under way: [active, since]
    admitted,   \* was the last request let through as a subscriber's?
    lastPro     \* history: when there was a subscription, or None

identity == <<account, member, login, sessions, granted, lastHeld>>
subscription == <<pro, proCache, lookup, admitted, lastPro>>
accountVars == <<clock, identity, subscription>>

Times == 0 .. MaxClock

AccountsTypeOK ==
    /\ clock \in Times /\ account \in Clubs \cup {None} /\ member \in Clubs
    /\ login \in Clubs \cup {None} /\ sessions \in SUBSET [club : Clubs, since : Times]
    /\ granted \in Clubs \cup {None} /\ lastHeld \in [Clubs -> Times \cup {None}]
    /\ pro \in BOOLEAN /\ admitted \in BOOLEAN /\ lastPro \in Times \cup {None}
    /\ proCache \in [active : BOOLEAN, validUntil : Nat] \cup {None}
    /\ lookup \in [Lookups -> [active : BOOLEAN, since : Times] \cup {None}]

Held(club) == [c \in Clubs |-> IF c = club THEN clock ELSE lastHeld[c]]

AccountsInit ==
    /\ clock = 0 /\ member \in Clubs
    /\ account \in Clubs \cup {None}
    /\ lastHeld = [c \in Clubs |-> IF c = account THEN 0 ELSE None]
    /\ login = None /\ sessions = {} /\ granted = None
    /\ pro \in BOOLEAN
    /\ proCache = None /\ lookup = [r \in Lookups |-> None]
    /\ admitted = FALSE
    /\ lastPro = IF pro THEN 0 ELSE None

-------------------------------------------------------------------------------
(* Accounts and tokens.                                                    *)

Alive(s) == clock < s.since + RefreshTtl

IssueSession(club) ==
    /\ Cardinality({s \in sessions : Alive(s)}) < MaxSessions
    /\ sessions' = {s \in sessions : Alive(s)} \cup {[club |-> club, since |-> clock]}

(* The operator provides an account, moves it or removes it; login. *)
Provide(club) ==
    /\ account # club
    /\ account' = club
    /\ lastHeld' = Held(club)
    /\ granted' = None
    /\ UNCHANGED <<clock, member, login, sessions, subscription>>

(* The person changes clubs in the federation. *)
Transfer(club) ==
    /\ member # club
    /\ member' = club /\ granted' = None
    /\ UNCHANGED <<clock, account, login, sessions, lastHeld, subscription>>

(* The credentials are good, and there is an account. *)
Login ==
    /\ login = None /\ account # None
    /\ login' = account /\ granted' = None
    /\ UNCHANGED <<clock, account, member, sessions, lastHeld, subscription>>

(* The federation's member is that of the account as it was read; the      *)
(* update fails without an account, and writes the club.                   *)
FinishLogin ==
    /\ login # None
    /\ login' = None /\ granted' = None
    /\ IF member = login /\ account # None
       THEN /\ account' = login
            /\ lastHeld' = Held(login)
            /\ IssueSession(login)
       ELSE UNCHANGED <<account, lastHeld, sessions>>
    /\ UNCHANGED <<clock, member, subscription>>

(* Mutant: the club is that of the token. *)
RefreshToken(s) ==
    /\ Alive(s)
    /\ account # None
    /\ IssueSession(s.club)
    /\ granted' = None
    /\ UNCHANGED <<clock, account, member, login, lastHeld, subscription>>

(* A refresh token is good for a session of the account as it is now; the  *)
(* federation is not asked.                                                *)
Refresh(s) ==
    /\ Alive(s)
    /\ account # None
    /\ IssueSession(account)
    /\ granted' = None
    /\ UNCHANGED <<clock, account, member, login, lastHeld, subscription>>

(* The guard: an access token that has not expired names the club. *)
Authorize(s) ==
    /\ clock < s.since + AccessTtl
    /\ granted' = s.club
    /\ UNCHANGED <<clock, account, member, login, sessions, lastHeld, subscription>>

-------------------------------------------------------------------------------
(* The subscription.                                                       *)

Changes ==
    /\ pro' = ~pro
    /\ lastPro' = clock
    /\ admitted' = FALSE
    /\ UNCHANGED <<clock, identity, proCache, lookup>>

Remembered == proCache # None /\ proCache.validUntil > clock

(* CaptainProGuard.canActivate: what is remembered decides. *)
Activate ==
    /\ Remembered
    /\ admitted' = proCache.active
    /\ UNCHANGED <<clock, identity, pro, proCache, lookup, lastPro>>

(* Else the subscriber is looked up: the service answers what is so now. *)
Lookup(r) ==
    /\ ~Remembered /\ lookup[r] = None
    /\ lookup' = [lookup EXCEPT ![r] = [active |-> pro, since |-> clock]]
    /\ admitted' = FALSE
    /\ UNCHANGED <<clock, identity, pro, proCache, lastPro>>

(* The answer comes, in whatever order, and is remembered from now on. *)
Remember(r) ==
    /\ lookup[r] # None
    /\ clock <= lookup[r].since + HttpTimeout
    /\ proCache' = [active |-> lookup[r].active, validUntil |-> clock + ProTtl]
    /\ admitted' = lookup[r].active
    /\ lookup' = [lookup EXCEPT ![r] = None]
    /\ UNCHANGED <<clock, identity, pro, lastPro>>

(* It takes too long or is an error: the request is refused. *)
LookupFails(r) ==
    /\ lookup[r] # None
    /\ lookup' = [lookup EXCEPT ![r] = None]
    /\ admitted' = FALSE
    /\ UNCHANGED <<clock, identity, pro, proCache, lastPro>>

Tick ==
    /\ clock < MaxClock
    /\ clock' = clock + 1
    /\ granted' = None /\ admitted' = FALSE
    /\ lastHeld' = [c \in Clubs |-> IF c = account THEN clock + 1 ELSE lastHeld[c]]
    /\ lastPro' = IF pro THEN clock + 1 ELSE lastPro
    /\ UNCHANGED <<account, member, login, sessions, pro, proCache, lookup>>

Identities ==
    \/ \E c \in Clubs \cup {None} : Provide(c)
    \/ \E c \in Clubs : Transfer(c)
    \/ Login \/ FinishLogin
    \/ \E s \in sessions : Refresh(s) \/ Authorize(s)

Subscriptions ==
    \/ Changes \/ Activate
    \/ \E r \in Lookups : Lookup(r) \/ Remember(r) \/ LookupFails(r)

AccountsNext == Identities \/ Subscriptions \/ Tick

AccountsSpec == AccountsInit /\ [][AccountsNext]_accountVars

-------------------------------------------------------------------------------
(* A captain whose account is moved or removed acts for the club no longer *)
(* than an access token lives, however often the session is refreshed and  *)
(* whatever a login that waited in between writes; and nobody is admitted  *)
(* as a subscriber longer after the subscription ended than a look-up is   *)
(* remembered and takes (refresh, issueSession, canActivate).              *)
AccessEnds ==
    /\ granted # None =>
           lastHeld[granted] # None /\ clock - lastHeld[granted] < AccessTtl
    /\ admitted => lastPro # None /\ clock - lastPro < ProTtl + HttpTimeout
===============================================================================
