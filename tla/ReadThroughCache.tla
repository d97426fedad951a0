--------------------------- MODULE ReadThroughCache ---------------------------
(***************************************************************************)
(* The cache the API services share (libs/common/src/cache): reads through *)
(* Redis, one getter in flight per key and process, getters that read      *)
(* through the cache themselves, to any depth and side by side, and the    *)
(* importer's emptying by pattern.                                         *)
(*                                                                         *)
(* A value is the request it answers and the version of the data it was    *)
(* computed from.                                                          *)
(***************************************************************************)
EXTENDS Naturals, SequencesExt, Common

CONSTANTS
    Calls,      \* calls of the API that are served at once
    Home,       \* the process that serves a call
    Requests,   \* what is asked for: operation, argument and database
    Inner,      \* what a request's getter reads: requests, through the cache,
                \* and its own sources (None)
    Ranked,     \* operations whose key names no database
    Patterns,   \* operations whose keys an emptying matches
    MaxVersion  \* bound: changes of the data

Processes  == {Home[c] : c \in Calls}
Operations == {r.op : r \in Requests}
Databases  == {r.db : r \in Requests}
Arguments  == {r.arg : r \in Requests}

ASSUME RequestsAssumption ==
    /\ Requests # {}
    /\ Requests \subseteq [op : Operations, arg : Arguments, db : Databases]
    /\ Inner \in [Requests -> (SUBSET (Requests \cup {None})) \ {{}}]
    /\ Patterns \subseteq Operations
ASSUME NoneAssumption ==
    /\ None \notin Requests /\ None \notin Nat
    /\ None \notin [of : Requests, version : Nat]
    /\ None \notin [call : Calls, path : Seq(Requests)]
ASSUME BoundAssumption == MaxVersion \in Nat

VARIABLES
    version,    \* the version of the data
    store,      \* Redis: the value of each key, or None
    inFlight,   \* of each process and key, the read whose getter runs, or None
    reads,      \* of each read under way, its place, what its getter has not read
                \* yet, and the version of the oldest it has read, or None
    asked,      \* of each call, what it asked for last
    reply,      \* of each call, the last answer, or None
    importer,   \* "idle", "merging" (it has changed rows) or "cleaning"
    sweep,      \* the keys the emptying has not come to yet
    tardy,      \* history: keys whose value was out of date when it was stored
    uncleaned   \* history: why changes were not followed by an emptying

api    == <<inFlight, reads, asked, reply>>
import == <<importer, sweep, uncleaned>>
vars   == <<version, store, api, import, tardy>>

(* getCacheKey, and the keys the services build themselves.  Mutant: the   *)
(* operation is left out.                                                  *)
CacheKeyOfAll(r) == <<r.db, r.arg>>
CacheKey(r) == IF r.op \in Ranked THEN <<r.op, r.arg>> ELSE <<r.op, r.db, r.arg>>
Keys == {CacheKey(r) : r \in Requests}
Matched == {CacheKey(r) : r \in {q \in Requests : q.op \in Patterns}}

(* The keys a scan comes to.  Mutant: the keys whose getters read others   *)
(* are left out.                                                           *)
ScannedInner == {CacheKey(r) : r \in {q \in Requests : q.op \in Patterns /\ Inner[q] = {None}}}
Scanned == Matched

Version == 0 .. MaxVersion
Value == [of : Requests, version : Version]

(* A read is known by its call and by the requests that lead to it, the    *)
(* call's own first.                                                       *)
Read == [call : Calls, path : Seq(Requests) \ {<<>>}]
Places == {"lookup", "missed", "wait", "get", "store", "settle", "throw"}
ReadState == [at : Places, left : SUBSET (Requests \cup {None}), got : Version \cup {None}]

Under == DOMAIN reads     \* the reads under way
Request(n) == Last(n.path)
IsRoot(n) == Len(n.path) = 1
Root(c, r) == [call |-> c, path |-> <<r>>]
Child(n, q) == [call |-> n.call, path |-> Append(n.path, q)]
Parent(n) == [call |-> n.call, path |-> Front(n.path)]
Key(n) == CacheKey(Request(n))
Process(n) == Home[n.call]
At(n, place) == reads[n].at = place

TypeOK ==
    /\ version \in Version
    /\ store \in [Keys -> Value \cup {None}]
    /\ inFlight \in [Processes -> [Keys -> Read \cup {None}]]
    /\ Under \subseteq Read /\ reads \in [Under -> ReadState]
    /\ asked \in [Calls -> Requests]
    /\ reply \in [Calls -> Value \cup {None}]
    /\ importer \in {"idle", "merging", "cleaning"}
    /\ sweep \in SUBSET Matched
    /\ tardy \in SUBSET Keys
    /\ uncleaned \in SUBSET {"interrupted", "swallowed"}

Init ==
    /\ version = 0
    /\ store = [k \in Keys |-> None]
    /\ inFlight = [p \in Processes |-> [k \in Keys |-> None]]
    /\ reads = << >>
    /\ asked \in [Calls -> {CHOOSE r \in Requests : TRUE}]
    /\ reply = [c \in Calls |-> None]
    /\ importer = "idle" /\ sweep = {} /\ uncleaned = {}
    /\ tardy = {}

Owner(n) == inFlight[Process(n)][Key(n)]
Busy(c) == \E n \in Under : n.call = c

-------------------------------------------------------------------------------
(* A read.                                                                 *)

Begun(n) ==
    [m \in Under \cup {n} |->
        IF m \in Under THEN reads[m] ELSE [at |-> "lookup", left |-> {}, got |-> None]]

(* A call of the API.  What an earlier one left running ends first. *)
Ask(c, r) ==
    /\ ~Busy(c)
    /\ reads' = Begun(Root(c, r))
    /\ asked' = [asked EXCEPT ![c] = r]
    /\ reply' = [reply EXCEPT ![c] = None]
    /\ UNCHANGED <<version, store, inFlight, import, tardy>>

Older(got, v) == IF got = None THEN v ELSE Min({got, v})

(* A getter is given what it read, or what it read has thrown (None) and   *)
(* so does it, at once.                                                    *)
Given(s, v) ==
    IF s.at # "get" THEN s
    ELSE IF v = None THEN [at |-> "throw", left |-> {}, got |-> None]
    ELSE [s EXCEPT !.got = Older(@, v.version)]

(* Reads end with a value, or throw: a call answers, the getter around a   *)
(* read goes on, or has thrown before and takes no notice.                 *)
Return(S, v) ==
    LET around == {Parent(n) : n \in {m \in S : ~IsRoot(m)}}
    IN  /\ reads' = [n \in Under \ S |->
                        IF n \in around THEN Given(reads[n], v) ELSE reads[n]]
        /\ reply' = [c \in Calls |->
                        IF \E n \in S : n.call = c /\ IsRoot(n) THEN v ELSE reply[c]]

(* getFromCache *)
Hit(n) ==
    /\ At(n, "lookup") /\ store[Key(n)] # None
    /\ Return({n}, store[Key(n)])
    /\ UNCHANGED <<version, store, inFlight, asked, import, tardy>>

Miss(n) ==
    /\ At(n, "lookup") /\ store[Key(n)] = None
    /\ reads' = [reads EXCEPT ![n].at = "missed"]
    /\ UNCHANGED <<version, store, inFlight, asked, reply, import, tardy>>

(* inFlight.get(key): the getter of another read is awaited.  Mutant: only *)
(* the store is asked.                                                     *)
NobodyReads(n) == TRUE
NobodyReadsIt(n) == Owner(n) = None

Join(n) ==
    /\ At(n, "missed") /\ ~NobodyReadsIt(n)
    /\ reads' = [reads EXCEPT ![n].at = "wait"]
    /\ UNCHANGED <<version, store, inFlight, asked, reply, import, tardy>>

(* The read starts the getter. *)
Own(n) ==
    /\ At(n, "missed") /\ NobodyReadsIt(n)
    /\ inFlight' = [inFlight EXCEPT ![Process(n)][Key(n)] = n]
    /\ reads' = [reads EXCEPT ![n] = [at |-> "get", left |-> Inner[Request(n)], got |-> None]]
    /\ UNCHANGED <<version, store, asked, reply, import, tardy>>

(* The getter reads on: through the cache, without waiting for what it     *)
(* reads already, or in its own sources.                                   *)
ReadThrough(n, q) ==
    /\ At(n, "get") /\ q \in reads[n].left \ {None}
    /\ reads' = [Begun(Child(n, q)) EXCEPT ![n].left = @ \ {q}]
    /\ UNCHANGED <<version, store, inFlight, asked, reply, import, tardy>>

Fetch(n) ==
    /\ At(n, "get") /\ None \in reads[n].left
    /\ reads' = [reads EXCEPT ![n] = [at   |-> "get",
                                      left |-> @.left \ {None},
                                      got  |-> Older(@.got, version)]]
    /\ UNCHANGED <<version, store, inFlight, asked, reply, import, tardy>>

(* The getter has its result.  It has waited for all it began to read, but *)
(* what it read first may have made the rest needless.                     *)
Finish(n) ==
    /\ At(n, "get") /\ reads[n].got # None
    /\ ~\E m \in Under : ~IsRoot(m) /\ Parent(m) = n
    /\ reads' = [reads EXCEPT ![n] = [at |-> "store", left |-> {}, got |-> @.got]]
    /\ UNCHANGED <<version, store, inFlight, asked, reply, import, tardy>>

Result(n) ==
    IF reads[n].got = None THEN None
    ELSE [of |-> Request(n), version |-> reads[n].got]

(* setInCache *)
Store(n) ==
    /\ At(n, "store")
    /\ store' = [store EXCEPT ![Key(n)] = Result(n)]
    /\ tardy' = IF reads[n].got < version
                THEN tardy \cup {Key(n)} ELSE tardy \ {Key(n)}
    /\ reads' = [reads EXCEPT ![n].at = "settle"]
    /\ UNCHANGED <<version, inFlight, asked, reply, import>>

(* The getter throws, or setInCache does. *)
Throw(n) ==
    /\ reads[n].at \in {"get", "store"}
    /\ reads' = [reads EXCEPT ![n] = [at |-> "throw", left |-> {}, got |-> None]]
    /\ UNCHANGED <<version, store, inFlight, asked, reply, import, tardy>>

(* The getter's promise settles: whoever awaits it goes on, and it is no   *)
(* longer in flight.  Mutant: it stays in flight.                          *)
Waiting(n) ==
    {m \in Under : At(m, "wait") /\ Process(m) = Process(n) /\ Key(m) = Key(n)}

ReleasedNever(n) == inFlight
Released(n) == [inFlight EXCEPT ![Process(n)][Key(n)] = None]

Settle(n) ==
    /\ reads[n].at \in {"settle", "throw"}
    /\ Return({n} \cup Waiting(n), Result(n))
    /\ inFlight' = Released(n)
    /\ UNCHANGED <<version, store, asked, import, tardy>>

-------------------------------------------------------------------------------
(* Redis, and the processes.                                               *)

(* The time to live of a key is over. *)
Expire(k) ==
    /\ store[k] # None
    /\ store' = [store EXCEPT ![k] = None]
    /\ tardy' = tardy \ {k}
    /\ UNCHANGED <<version, api, import>>

(* A process of the API dies, and with it its reads and promises. *)
Restart(p) ==
    /\ \E n \in Under : Process(n) = p
    /\ reads' = [n \in {m \in Under : Process(m) # p} |-> reads[n]]
    /\ inFlight' = [inFlight EXCEPT ![p] = [k \in Keys |-> None]]
    /\ UNCHANGED <<version, store, asked, reply, import, tardy>>

-------------------------------------------------------------------------------
(* An importer: it changes rows, and then it empties the caches.           *)

Change ==
    /\ importer \in {"idle", "merging"} /\ version < MaxVersion
    /\ version' = version + 1
    /\ importer' = "merging"
    /\ UNCHANGED <<store, api, sweep, uncleaned, tardy>>

(* cleanKeys: the scan comes to every key that matches, page by page, and  *)
(* unlinks what it finds there.                                            *)
StartSweep ==
    /\ importer = "merging"
    /\ importer' = "cleaning"
    /\ sweep' = Scanned
    /\ UNCHANGED <<version, store, api, uncleaned, tardy>>

Page(S) ==
    /\ S # {}
    /\ store' = [k \in Keys |-> IF k \in S THEN None ELSE store[k]]
    /\ tardy' = tardy \ S
    /\ sweep' = sweep \ S
    /\ UNCHANGED <<version, api, importer, uncleaned>>

EndSweep ==
    /\ importer = "cleaning" /\ sweep = {}
    /\ importer' = "idle"
    /\ uncleaned' = {}
    /\ UNCHANGED <<version, store, api, sweep, tardy>>

(* An error of Redis ends the emptying; it is logged and swallowed.  Or    *)
(* the attempt ends before it, and the next one finds nothing to change.   *)
GiveUp ==
    /\ importer # "idle"
    /\ importer' = "idle"
    /\ sweep' = {}
    /\ uncleaned' = uncleaned \cup {IF importer = "cleaning" THEN "swallowed"
                                                           ELSE "interrupted"}
    /\ UNCHANGED <<version, store, api, tardy>>

-------------------------------------------------------------------------------
Serve(n) ==
    \/ Hit(n) \/ Miss(n) \/ Join(n) \/ Own(n)
    \/ (\E q \in Requests : ReadThrough(n, q)) \/ Fetch(n) \/ Finish(n)
    \/ Store(n) \/ Settle(n)

ServeCall(c) == \E n \in Under : n.call = c /\ Serve(n)

Reads ==
    \/ \E c \in Calls : (\E r \in Requests : Ask(c, r)) \/ ServeCall(c)
    \/ \E n \in Under : Throw(n)
    \/ \E k \in Keys : Expire(k)
    \/ \E p \in Processes : Restart(p)

Import ==
    \/ Change \/ StartSweep \/ EndSweep \/ GiveUp
    \/ \E S \in SUBSET sweep : Page(S)

Next == Reads \/ Import

Spec == Init /\ [][Next]_vars

(* Redis and the sources answer, or their calls time out. *)
FairSpec == Spec /\ \A c \in Calls : WF_vars(ServeCall(c))

-------------------------------------------------------------------------------
(* Properties.                                                             *)

(* Concurrent misses of a key are coalesced: a process never runs the      *)
(* getter of a key twice at once, whichever calls and getters read it, and *)
(* whoever waits, waits for a getter that runs.                            *)
Runs(n) == reads[n].at \in {"get", "store", "settle", "throw"}
OneGetter ==
    \A m \in Under :
        /\ Runs(m) => \A n \in Under \ {m} :
                Runs(n) /\ Process(n) = Process(m) => Key(n) # Key(m)
        /\ At(m, "wait") => \E n \in Under :
                Runs(n) /\ Process(n) = Process(m) /\ Key(n) = Key(m)

(* What the key of a request keeps of it, and the requests whose copies an *)
(* answer to it may be made of: its own, those its getter reads, and those *)
(* that the keys do not tell from them.                                    *)
Kept(r) == IF r.op \in Ranked THEN [r EXCEPT !.db = None] ELSE r
Subjects == {Kept(r) : r \in Requests}
Closed(S) ==
    /\ \A q \in S : Inner[q] \ {None} \subseteq S
    /\ \A q \in Requests, r \in S : Kept(q) = Kept(r) => q \in S
Below == [s \in Subjects |->
    {q \in Requests : \A S \in SUBSET Requests :
        Closed(S) /\ (\E r \in S : Kept(r) = s) => q \in S}]

(* The copies alive, in Redis and in the getters' hands, and their ages. *)
Copies == ({store[k] : k \in Keys} \cup {Result(n) : n \in Under}) \ {None}
Ages(s) == {v.version : v \in {w \in Copies : w.of \in Below[s]}}

Promise == INSTANCE CachePromise WITH
    Unanswered <- None,
    oldest     <- [s \in Subjects |-> Min(Ages(s) \cup {version})],
    subject    <- [c \in Calls |-> Kept(asked[c])],
    answer     <- [c \in Calls |-> IF reply[c] = None THEN None
                                    ELSE [reply[c] EXCEPT !.of = Kept(@)]]

(* What a call is answered belongs to its request, as far as its key tells *)
(* requests apart, and answers do not go back behind the oldest copy alive *)
(* of all they are made of, whichever reads and emptyings ran beside them. *)
KeepsPromise == Promise!Spec

(* Every call is answered or fails, whoever it waited for, and what it     *)
(* left running ends.                                                      *)
CallsEnd == \A c \in Calls : Busy(c) ~> ~Busy(c)

(* An emptying that ends well leaves no value behind that was up to date   *)
(* when it was stored and is not any more: what is out of date then was    *)
(* computed by a getter that the change or the emptying has overtaken, or  *)
(* that read a copy such a getter had left; and only such reads, an        *)
(* emptying that failed or one that never came, leave anything out of date. *)
StaleHasACause ==
    importer = "idle" /\ uncleaned = {} =>
        \A k \in Matched : store[k] # None /\ store[k].version < version => k \in tardy
===============================================================================
