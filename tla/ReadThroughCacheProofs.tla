------------------------ MODULE ReadThroughCacheProofs ------------------------
(***************************************************************************)
(* For any number of calls, processes, requests and changes of the data,   *)
(* and for getters that read others to any depth and side by side: a       *)
(* process runs one getter of a key at a time, an emptying that ends well  *)
(* leaves nothing out of date but what a read that it has overtaken        *)
(* stored, and the cache implements CachePromise.  The last parts are      *)
(* about two services with caches of their own: the numbers that           *)
(* RankingDistribution keeps fit together, and the ages of the layers of a *)
(* MemberDashboard add up and no more.                                     *)
(***************************************************************************)
EXTENDS ReadThroughCache, RankingDistribution, MemberDashboard, WellFoundedInduction, TLAPS

-------------------------------------------------------------------------------
(* The inductive invariant.                                                *)

\* Who is registered for a key runs its getter, and the other way round.
OwnerInv ==
    /\ \A n \in Under : Runs(n) => Owner(n) = n
    /\ \A p \in Processes, k \in Keys : inFlight[p][k] # None =>
        \E n \in Under : inFlight[p][k] = n /\ Runs(n) /\ Process(n) = p /\ Key(n) = k

WaitInv == \A n \in Under : At(n, "wait") => Owner(n) # None

\* A call's own read serves what it asked for, any other what the getter
\* around it reads.
TreeInv ==
    \A n \in Under :
        IF IsRoot(n) THEN Request(n) = asked[n.call]
                     ELSE Request(n) \in Inner[Request(Parent(n))]

\* A read has something in hand while its getter runs, and has it all when
\* it is about to store it or to give it back.
GotInv ==
    \A n \in Under :
        /\ reads[n].at \in {"store", "settle"} => reads[n].got # None
        /\ reads[n].got # None => reads[n].at \in {"get", "store", "settle"}
        /\ reads[n].left \subseteq Inner[Request(n)]

\* Nothing is newer than the data, and values are kept under their own keys.
ValueInv ==
    /\ \A n \in Under : reads[n].got # None => reads[n].got <= version
    /\ \A k \in Keys : store[k] # None =>
        store[k].version <= version /\ CacheKey(store[k].of) = k

\* What the emptying has passed, or has left behind, is up to date or was
\* late when it was stored.
Accounted(k) == store[k] # None /\ store[k].version < version => k \in tardy
CleanInv ==
    /\ importer = "idle" /\ uncleaned = {} => \A k \in Matched : Accounted(k)
    /\ importer = "cleaning" => \A k \in Matched \ sweep : Accounted(k)

FlightInv == OwnerInv /\ WaitInv
IInv == TypeOK /\ FlightInv /\ TreeInv /\ GotInv /\ ValueInv /\ CleanInv

-------------------------------------------------------------------------------
(* Requests, keys and reads.                                               *)

LEMMA RequestFields ==
    ASSUME NEW r \in Requests
    PROVE  /\ r \in [op : Operations, arg : Arguments, db : Databases]
           /\ CacheKey(r) \in Keys
           /\ Inner[r] \subseteq Requests \cup {None}
BY RequestsAssumption DEF Keys

LEMMA ReadShape ==
    ASSUME NEW n \in Read
    PROVE  /\ n.call \in Calls /\ n.path \in Seq(Requests) /\ Len(n.path) \in Nat \ {0}
           /\ n # None
           /\ Request(n) \in Requests /\ Key(n) \in Keys /\ Process(n) \in Processes
           /\ ~IsRoot(n) => Parent(n) \in Read
<1>1. n.call \in Calls /\ n.path \in Seq(Requests) /\ n.path # <<>> BY DEF Read
<1>2. Len(n.path) \in Nat \ {0} BY <1>1
<1>3. Request(n) \in Requests BY <1>1, <1>2 DEF Request, Last
<1>4. Process(n) \in Processes BY <1>1 DEF Process, Processes
<1>5. n # None BY NoneAssumption DEF Read
<1>6. ASSUME ~IsRoot(n) PROVE Parent(n) \in Read
    <2> DEFINE f == SubSeq(n.path, 1, Len(n.path) - 1)
    <2>1. Len(n.path) - 1 \in Nat \ {0} /\ Len(n.path) - 1 <= Len(n.path)
        BY <1>2, <1>6 DEF IsRoot
    <2>2. f \in Seq(Requests) /\ Len(f) = Len(n.path) - 1
        BY <1>1, <2>1
    <2>3. f # <<>> BY <2>1, <2>2
    <2>4. Parent(n) = [call |-> n.call, path |-> f] BY DEF Parent, Front
    <2> HIDE DEF f
    <2> QED BY <2>2, <2>3, <2>4 DEF Read
<1> QED BY <1>1, <1>2, <1>3, <1>4, <1>5, <1>6, RequestFields DEF Key

LEMMA RootShape ==
    ASSUME NEW c \in Calls, NEW r \in Requests
    PROVE  /\ Root(c, r) \in Read /\ Root(c, r).call = c
           /\ IsRoot(Root(c, r)) /\ Request(Root(c, r)) = r
<1>1. <<r>> \in Seq(Requests) \ {<<>>} /\ Len(<<r>>) = 1 /\ <<r>>[1] = r
    OBVIOUS
<1> QED BY <1>1 DEF Root, Read, IsRoot, Request, Last

LEMMA ChildShape ==
    ASSUME NEW n \in Read, NEW q \in Requests
    PROVE  /\ Child(n, q) \in Read /\ ~IsRoot(Child(n, q))
           /\ Request(Child(n, q)) = q /\ Parent(Child(n, q)) = n
<1> DEFINE a == Append(n.path, q)
<1>1. n \in [call : Calls, path : Seq(Requests)] /\ n.path \in Seq(Requests)
      /\ Len(n.path) \in Nat \ {0}
    BY ReadShape DEF Read
<1>2. a \in Seq(Requests) /\ Len(a) = Len(n.path) + 1 /\ a[Len(a)] = q
    BY <1>1
<1>3. a # <<>> /\ Len(a) # 1 /\ Len(a) - 1 = Len(n.path) BY <1>1, <1>2
<1>4. SubSeq(a, 1, Len(n.path)) = n.path BY <1>1
<1>5. Child(n, q) = [call |-> n.call, path |-> a] BY <1>1 DEF Child
<1> HIDE DEF a
<1>6. Child(n, q) \in Read BY <1>1, <1>2, <1>3, <1>5 DEF Read
<1>7. Request(Child(n, q)) = q /\ ~IsRoot(Child(n, q))
    BY <1>2, <1>3, <1>5 DEF Request, IsRoot, Last
<1>8. Parent(Child(n, q)) = [call |-> n.call, path |-> n.path]
    <2>1. Child(n, q).path = a /\ Child(n, q).call = n.call BY <1>5
    <2>2. Front(a) = n.path BY <1>3, <1>4 DEF Front
    <2> QED BY <2>1, <2>2 DEF Parent
<1>9. n = [call |-> n.call, path |-> n.path] BY <1>1
<1> QED BY <1>6, <1>7, <1>8, <1>9

LEMMA Typed ==
    ASSUME TypeOK, NEW n \in Under
    PROVE  /\ n \in Read /\ n # None
           /\ Request(n) \in Requests /\ Key(n) \in Keys /\ Process(n) \in Processes
           /\ reads[n] \in ReadState /\ reads[n].at \in Places
           /\ reads[n].left \subseteq Requests \cup {None}
           /\ reads[n].got \in Version \cup {None}
           /\ reads[n] = [at |-> reads[n].at, left |-> reads[n].left, got |-> reads[n].got]
           /\ Result(n) \in Value \cup {None}
           /\ Result(n) = None <=> reads[n].got = None
           /\ reads[n].got # None =>
                Result(n).of = Request(n) /\ Result(n).version = reads[n].got
<1>1. n \in Read BY DEF TypeOK
<1>2. reads[n] \in ReadState BY DEF TypeOK
<1>3. Request(n) \in Requests /\ n # None BY <1>1, ReadShape
<1>4. ASSUME reads[n].got # None
      PROVE  Result(n) \in Value /\ Result(n) # None
             /\ Result(n).of = Request(n) /\ Result(n).version = reads[n].got
    <2>1. reads[n].got \in Version BY <1>2, <1>4 DEF ReadState
    <2>2. Result(n) = [of |-> Request(n), version |-> reads[n].got] BY <1>4 DEF Result
    <2>3. Version \subseteq Nat BY BoundAssumption DEF Version
    <2> QED BY <1>3, <2>1, <2>2, <2>3, NoneAssumption DEF Value
<1>5. reads[n].got = None => Result(n) = None BY DEF Result
<1> QED BY <1>1, <1>2, <1>3, <1>4, <1>5, ReadShape DEF ReadState

-------------------------------------------------------------------------------
(* What the actions do to the reads.                                       *)

\* One read goes on.
Moves(n, s) ==
    /\ Under' = Under
    /\ reads'[n] = s
    /\ \A m \in Under : m # n => reads'[m] = reads[m]

LEMMA OneMoves ==
    ASSUME TypeOK, NEW n \in Under, NEW s \in ReadState, reads' = [reads EXCEPT ![n] = s]
    PROVE  Moves(n, s) /\ reads' \in [Under' -> ReadState]
<1>1. reads = [m \in Under |-> reads[m]] BY DEF TypeOK
<1> QED BY <1>1 DEF Moves, TypeOK, Under

\* Where each step that moves one read leaves it.
LEMMA Moved ==
    ASSUME TypeOK, NEW n \in Under,
           Miss(n) \/ Join(n) \/ Own(n) \/ Fetch(n) \/ Finish(n) \/ Store(n) \/ Throw(n)
    PROVE  \E s \in ReadState :
        /\ reads' = [reads EXCEPT ![n] = s]
        /\ \/ Miss(n) /\ At(n, "lookup") /\ s = [reads[n] EXCEPT !.at = "missed"]
           \/ Join(n) /\ At(n, "missed") /\ s = [reads[n] EXCEPT !.at = "wait"]
           \/ /\ Own(n) /\ At(n, "missed")
              /\ s = [at |-> "get", left |-> Inner[Request(n)], got |-> None]
           \/ /\ Fetch(n) /\ At(n, "get")
              /\ s = [at |-> "get", left |-> reads[n].left \ {None},
                      got |-> Older(reads[n].got, version)]
              /\ Older(reads[n].got, version) \in {reads[n].got, version} \ {None}
           \/ /\ Finish(n) /\ At(n, "get") /\ reads[n].got # None
              /\ s = [at |-> "store", left |-> {}, got |-> reads[n].got]
           \/ Store(n) /\ At(n, "store") /\ s = [reads[n] EXCEPT !.at = "settle"]
           \/ /\ Throw(n) /\ reads[n].at \in {"get", "store"}
              /\ s = [at |-> "throw", left |-> {}, got |-> None]
<1>1. reads[n] \in ReadState /\ Request(n) \in Requests /\ version \in Version
    BY Typed DEF TypeOK
<1>2. Version \subseteq Nat /\ None \notin Nat BY BoundAssumption, NoneAssumption DEF Version
<1>3. CASE Miss(n)
    <2> DEFINE s == [reads[n] EXCEPT !.at = "missed"]
    <2>1. s \in ReadState BY <1>1 DEF ReadState, Places
    <2>2. reads' = [reads EXCEPT ![n] = s] BY <1>3 DEF Miss
    <2> HIDE DEF s
    <2>3. At(n, "lookup") BY <1>3 DEF Miss
    <2> QED BY <1>3, <2>1, <2>2, <2>3 DEF s
<1>4. CASE Join(n)
    <2> DEFINE s == [reads[n] EXCEPT !.at = "wait"]
    <2>1. s \in ReadState BY <1>1 DEF ReadState, Places
    <2>2. reads' = [reads EXCEPT ![n] = s] BY <1>4 DEF Join
    <2>3. At(n, "missed") BY <1>4 DEF Join
    <2> QED BY <1>4, <2>1, <2>2, <2>3
<1>5. CASE Own(n)
    <2> DEFINE s == [at |-> "get", left |-> Inner[Request(n)], got |-> None]
    <2>1. s \in ReadState BY <1>1, RequestFields DEF ReadState, Places
    <2>2. reads' = [reads EXCEPT ![n] = s] BY <1>5 DEF Own
    <2>3. At(n, "missed") BY <1>5 DEF Own
    <2> QED BY <1>5, <2>1, <2>2, <2>3
<1>6. CASE Fetch(n)
    <2> DEFINE g == Older(reads[n].got, version)
               s == [at |-> "get", left |-> reads[n].left \ {None}, got |-> g]
    <2>1. reads[n].got \in Version \cup {None} BY <1>1 DEF ReadState
    <2>2. g \in Version /\ g \in {reads[n].got, version} /\ g # None
        <3>1. CASE reads[n].got = None BY <1>1, <1>2, <3>1 DEF Older
        <3>2. CASE reads[n].got # None
            <4>1. reads[n].got \in Nat /\ version \in Nat BY <1>1, <1>2, <2>1, <3>2
            <4>2. PICK x \in {reads[n].got, version} : \A y \in {reads[n].got, version} : x <= y
                BY <4>1
            <4>3. Min({reads[n].got, version}) \in {reads[n].got, version}
                BY <4>2 DEF Min
            <4> QED BY <1>1, <1>2, <2>1, <3>2, <4>1, <4>3 DEF Older
        <3> QED BY <3>1, <3>2
    <2>3. s \in ReadState BY <1>1, <2>2 DEF ReadState, Places
    <2>4. At(n, "get") /\ reads[n].at = "get" BY <1>6 DEF Fetch, At
    <2>6. reads' = [reads EXCEPT ![n] = s] BY <1>6 DEF Fetch
    <2> QED BY <1>6, <2>2, <2>3, <2>4, <2>6
<1>7. CASE Finish(n)
    <2> DEFINE s == [at |-> "store", left |-> {}, got |-> reads[n].got]
    <2>1. s \in ReadState BY <1>1 DEF ReadState, Places
    <2>3. reads' = [reads EXCEPT ![n] = s] BY <1>7 DEF Finish
    <2>4. At(n, "get") /\ reads[n].got # None BY <1>7 DEF Finish
    <2> QED BY <1>7, <2>1, <2>3, <2>4
<1>8. CASE Store(n)
    <2> DEFINE s == [reads[n] EXCEPT !.at = "settle"]
    <2>1. s \in ReadState BY <1>1 DEF ReadState, Places
    <2>2. reads' = [reads EXCEPT ![n] = s] BY <1>8 DEF Store
    <2>3. At(n, "store") BY <1>8 DEF Store
    <2> QED BY <1>8, <2>1, <2>2, <2>3
<1>9. CASE Throw(n)
    <2> DEFINE s == [at |-> "throw", left |-> {}, got |-> None]
    <2>1. s \in ReadState BY DEF ReadState, Places
    <2>2. reads' = [reads EXCEPT ![n] = s] BY <1>9 DEF Throw
    <2>3. reads[n].at \in {"get", "store"} BY <1>9 DEF Throw
    <2> QED BY <1>9, <2>1, <2>2, <2>3
<1> QED BY <1>3, <1>4, <1>5, <1>6, <1>7, <1>8, <1>9

LEMMA Begins ==
    ASSUME TypeOK, NEW n \in Read
    PROVE  /\ Begun(n) \in [Under \cup {n} -> ReadState]
           /\ \A m \in Under : Begun(n)[m] = reads[m]
           /\ n \notin Under => Begun(n)[n] = [at |-> "lookup", left |-> {}, got |-> None]
<1>1. [at |-> "lookup", left |-> {}, got |-> None] \in ReadState BY DEF ReadState, Places
<1> QED BY <1>1 DEF Begun, TypeOK, Under

\* A getter begins to read through the cache.
LEMMA ReadsThrough ==
    ASSUME TypeOK, NEW n \in Under, NEW q \in Requests, ReadThrough(n, q)
    PROVE  /\ Under' = Under \cup {Child(n, q)} /\ reads' \in [Under' -> ReadState]
           /\ Child(n, q) \in Read /\ q \in reads[n].left
           /\ reads'[n] = [reads[n] EXCEPT !.left = @ \ {q}]
           /\ reads'[n].at = reads[n].at /\ reads'[n].got = reads[n].got
           /\ reads'[n].left \subseteq reads[n].left
           /\ \A m \in Under : m # n => reads'[m] = reads[m]
           /\ Child(n, q) \notin Under =>
                reads'[Child(n, q)] = [at |-> "lookup", left |-> {}, got |-> None]
<1> DEFINE x == Child(n, q)
<1>1. n \in Read /\ reads[n] \in ReadState BY Typed
<1>2. x \in Read BY <1>1, ChildShape
<1>3. /\ Begun(x) \in [Under \cup {x} -> ReadState]
      /\ \A m \in Under : Begun(x)[m] = reads[m]
      /\ x \notin Under => Begun(x)[x] = [at |-> "lookup", left |-> {}, got |-> None]
    BY <1>2, Begins
<1>4. reads' = [Begun(x) EXCEPT ![n].left = @ \ {q}] BY DEF ReadThrough
<1>5. reads' = [Begun(x) EXCEPT ![n] = [reads[n] EXCEPT !.left = @ \ {q}]]
    BY <1>3, <1>4
<1> HIDE DEF x
<1> DEFINE s == [reads[n] EXCEPT !.left = @ \ {q}]
<1>6. /\ s \in ReadState /\ s.at = reads[n].at /\ s.got = reads[n].got
      /\ s.left \subseteq reads[n].left
    BY <1>1 DEF ReadState
<1> HIDE DEF s
<1>7. /\ Under' = Under \cup {x} /\ reads' \in [Under' -> ReadState] /\ reads'[n] = s
      /\ \A m \in Under : m # n => reads'[m] = reads[m]
      /\ x \notin Under => reads'[x] = Begun(x)[x]
    BY <1>3, <1>5, <1>6 DEF Under, s
<1>8. q \in reads[n].left BY DEF ReadThrough
<1> QED BY <1>2, <1>3, <1>6, <1>7, <1>8 DEF x, s

\* A getter that is given what it read holds on to the older of what it has.
LEMMA GivenFits ==
    ASSUME TypeOK, NEW n \in Under, NEW v \in Value \cup {None}
    PROVE  /\ Given(reads[n], v) \in ReadState
           /\ \/ Given(reads[n], v).at = reads[n].at
              \/ reads[n].at = "get" /\ Given(reads[n], v).at = "throw"
           /\ Given(reads[n], v).left \subseteq reads[n].left
           /\ \/ /\ Given(reads[n], v).got = reads[n].got
                 /\ Given(reads[n], v).at = reads[n].at
              \/ Given(reads[n], v).got = None /\ Given(reads[n], v).at = "throw"
              \/ /\ v # None /\ Given(reads[n], v).got = v.version
                 /\ Given(reads[n], v).got # None
                 /\ Given(reads[n], v).at = "get"
<1> DEFINE s == reads[n]
           t == Given(s, v)
<1>1. s \in ReadState /\ s.got \in Version \cup {None} BY Typed DEF ReadState
<1>2. CASE s.at # "get" BY <1>1, <1>2 DEF Given
<1>3. CASE s.at = "get" /\ v = None
    <2>1. t = [at |-> "throw", left |-> {}, got |-> None] BY <1>3 DEF Given
    <2>2. t \in ReadState BY <2>1 DEF ReadState, Places
    <2> HIDE DEF t
    <2> QED BY <1>1, <1>3, <2>1, <2>2 DEF t
<1>4. CASE s.at = "get" /\ v # None
    <2> DEFINE g == Older(s.got, v.version)
    <2>1. v.version \in Version /\ Version \subseteq Nat
        BY <1>4, BoundAssumption DEF Value, Version
    <2>2. g \in {s.got, v.version} /\ g \in Version
        <3>1. CASE s.got = None BY <2>1, <3>1 DEF Older
        <3>2. CASE s.got # None
            <4>1. s.got \in Version /\ s.got \in Nat /\ v.version \in Nat
                BY <1>1, <2>1, <3>2
            <4>2. PICK x \in {s.got, v.version} : \A y \in {s.got, v.version} : x <= y
                BY <4>1
            <4>3. Min({s.got, v.version}) \in {s.got, v.version} BY <4>2 DEF Min
            <4> QED BY <2>1, <3>2, <4>1, <4>3 DEF Older
        <3> QED BY <3>1, <3>2
    <2>3. t = [s EXCEPT !.got = g] BY <1>4 DEF Given
    <2> HIDE DEF g
    <2>4. t \in ReadState /\ t.at = s.at /\ t.left = s.left /\ t.got = g
        BY <1>1, <2>2, <2>3 DEF ReadState
    <2>5. g # None BY <2>1, <2>2, NoneAssumption
    <2> HIDE DEF t, s
    <2>6. t.got = s.got \/ t.got = v.version BY <2>2, <2>4
    <2> QED BY <1>4, <2>4, <2>5, <2>6 DEF t, s
<1> QED BY <1>2, <1>3, <1>4

LEMMA Returned ==
    ASSUME TypeOK, NEW S \in SUBSET Under, NEW v \in Value \cup {None}, Return(S, v)
    PROVE  /\ Under' = Under \ S /\ reads' \in [Under' -> ReadState]
           /\ \A n \in Under \ S :
                \/ reads'[n] = reads[n]
                \/ /\ reads'[n] = Given(reads[n], v)
                   /\ \E m \in S : ~IsRoot(m) /\ Parent(m) = n
           /\ reply' \in [Calls -> Value \cup {None}]
           /\ \A c \in Calls :
                \/ reply'[c] = reply[c]
                \/ reply'[c] = v /\ \E n \in S : n.call = c /\ IsRoot(n)
<1> DEFINE around == {Parent(n) : n \in {m \in S : ~IsRoot(m)}}
<1>1. reads' = [n \in Under \ S |->
                    IF n \in around THEN Given(reads[n], v) ELSE reads[n]]
    BY DEF Return
<1>2. \A n \in Under : Given(reads[n], v) \in ReadState /\ reads[n] \in ReadState
    BY GivenFits, Typed
<1>3. \A n \in around : \E m \in S : ~IsRoot(m) /\ Parent(m) = n
    OBVIOUS
<1> HIDE DEF around
<1>4. Under' = Under \ S BY <1>1 DEF Under
<1>5. reads' \in [Under' -> ReadState] BY <1>1, <1>2, <1>4
<1>6. \A n \in Under \ S :
        reads'[n] = IF n \in around THEN Given(reads[n], v) ELSE reads[n]
    BY <1>1
<1>7. reply' = [c \in Calls |->
                    IF \E n \in S : n.call = c /\ IsRoot(n) THEN v ELSE reply[c]]
    BY DEF Return
<1>8. reply \in [Calls -> Value \cup {None}] BY DEF TypeOK
<1>9. reply' \in [Calls -> Value \cup {None}] BY <1>7, <1>8
<1>10. \A c \in Calls :
        \/ reply'[c] = reply[c]
        \/ reply'[c] = v /\ \E n \in S : n.call = c /\ IsRoot(n)
    BY <1>7
<1> QED BY <1>3, <1>4, <1>5, <1>6, <1>9, <1>10

\* What Hit and Settle give back.
LEMMA HitReturns ==
    ASSUME TypeOK, NEW n \in Under, Hit(n)
    PROVE  /\ store[Key(n)] \in Value /\ store[Key(n)] # None
           /\ {n} \in SUBSET Under /\ Return({n}, store[Key(n)])
BY Typed DEF Hit, TypeOK

LEMMA SettleReturns ==
    ASSUME TypeOK, NEW n \in Under, Settle(n)
    PROVE  /\ Result(n) \in Value \cup {None}
           /\ {n} \cup Waiting(n) \in SUBSET Under
           /\ Return({n} \cup Waiting(n), Result(n))
BY Typed DEF Settle, Waiting

-------------------------------------------------------------------------------
(* Types.                                                                  *)

LEMMA InitTypes == ASSUME Init PROVE TypeOK
<1>1. 0 \in Version BY BoundAssumption DEF Version
<1>2. (CHOOSE r \in Requests : TRUE) \in Requests BY RequestsAssumption
<1>3. Under = {} /\ reads \in [Under -> ReadState] BY DEF Init, Under
<1> QED BY <1>1, <1>2, <1>3 DEF Init, TypeOK

LEMMA ReadTypes ==
    ASSUME TypeOK, NEW n \in Under, Serve(n) \/ Throw(n)
    PROVE  TypeOK'
<1>1. n \in Read /\ Process(n) \in Processes /\ Key(n) \in Keys BY Typed
<1>2. CASE Miss(n) \/ Join(n) \/ Own(n) \/ Fetch(n) \/ Finish(n) \/ Store(n) \/ Throw(n)
    <2>1. PICK s \in ReadState : reads' = [reads EXCEPT ![n] = s] BY <1>2, Moved
    <2>2. Under' = Under /\ reads' \in [Under' -> ReadState]
        BY <2>1, OneMoves DEF Moves
    <2>3. inFlight' \in [Processes -> [Keys -> Read \cup {None}]]
        <3>1. CASE Own(n) BY <1>1, <3>1 DEF Own, TypeOK
        <3>2. CASE ~Own(n)
            BY <1>2, <3>2 DEF Miss, Join, Fetch, Finish, Store, Throw, TypeOK
        <3> QED BY <3>1, <3>2
    <2>4. store' \in [Keys -> Value \cup {None}] /\ tardy' \in SUBSET Keys
        <3>1. CASE Store(n)
            BY <1>1, <3>1, Typed DEF Store, TypeOK
        <3>2. CASE ~Store(n)
            BY <1>2, <3>2 DEF Miss, Join, Own, Fetch, Finish, Throw, TypeOK
        <3> QED BY <3>1, <3>2
    <2> QED BY <1>2, <2>2, <2>3, <2>4
        DEF Miss, Join, Own, Fetch, Finish, Store, Throw, TypeOK, import
<1>3. CASE \E q \in Requests : ReadThrough(n, q)
    <2>1. PICK q \in Requests : ReadThrough(n, q) BY <1>3
    <2>2. /\ Under' = Under \cup {Child(n, q)} /\ reads' \in [Under' -> ReadState]
          /\ Child(n, q) \in Read
        BY <2>1, ReadsThrough
    <2> QED BY <2>1, <2>2 DEF ReadThrough, TypeOK, import
<1>4. CASE Hit(n)
    <2>1. /\ Under' = Under \ {n} /\ reads' \in [Under' -> ReadState]
          /\ reply' \in [Calls -> Value \cup {None}]
        BY <1>4, HitReturns, Returned
    <2> QED BY <1>4, <2>1 DEF Hit, TypeOK, import
<1>5. CASE Settle(n)
    <2>1. /\ Under' \subseteq Under /\ reads' \in [Under' -> ReadState]
          /\ reply' \in [Calls -> Value \cup {None}]
        BY <1>5, SettleReturns, Returned
    <2>2. inFlight' \in [Processes -> [Keys -> Read \cup {None}]]
        BY <1>1, <1>5 DEF Settle, Released, TypeOK
    <2> QED BY <1>5, <2>1, <2>2 DEF Settle, TypeOK, import
<1> QED BY <1>2, <1>3, <1>4, <1>5 DEF Serve

LEMMA OtherTypes ==
    ASSUME TypeOK,
           \/ \E c \in Calls, r \in Requests : Ask(c, r)
           \/ \E k \in Keys : Expire(k)
           \/ \E p \in Processes : Restart(p)
           \/ Import
    PROVE  TypeOK'
<1> USE DEF api, import
<1>1. CASE \E c \in Calls, r \in Requests : Ask(c, r)
    <2>1. PICK c \in Calls, r \in Requests : Ask(c, r) BY <1>1
    <2>2. Root(c, r) \in Read BY RootShape
    <2>3. Under' = Under \cup {Root(c, r)} /\ reads' \in [Under' -> ReadState]
        BY <2>1, <2>2, Begins DEF Ask, Under
    <2> QED BY <2>1, <2>2, <2>3 DEF Ask, TypeOK
<1>2. CASE \E k \in Keys : Expire(k)
    BY <1>2 DEF Expire, TypeOK, Under
<1>3. CASE \E p \in Processes : Restart(p)
    <2>1. PICK p \in Processes : Restart(p) BY <1>3
    <2>2. Under' \subseteq Under /\ reads' \in [Under' -> ReadState]
        BY <2>1 DEF Restart, Under, TypeOK
    <2>3. inFlight' \in [Processes -> [Keys -> Read \cup {None}]]
        BY <2>1 DEF Restart, TypeOK
    <2> QED BY <2>1, <2>2, <2>3 DEF Restart, TypeOK
<1>4. CASE Change
    <2>1. version' \in Version BY <1>4, BoundAssumption DEF Change, TypeOK, Version
    <2> QED BY <1>4, <2>1 DEF Change, TypeOK, Under
<1>5. CASE StartSweep
    BY <1>5 DEF StartSweep, Scanned, TypeOK, Under
<1>6. CASE EndSweep
    BY <1>6 DEF EndSweep, TypeOK, Under
<1>7. CASE GiveUp
    BY <1>7 DEF GiveUp, TypeOK, Under
<1>8. CASE \E S \in SUBSET sweep : Page(S)
    BY <1>8 DEF Page, TypeOK, Under
<1> QED BY <1>1, <1>2, <1>3, <1>4, <1>5, <1>6, <1>7, <1>8 DEF Import

LEMMA StepTypes == ASSUME TypeOK, [Next]_vars PROVE TypeOK'
<1>1. CASE UNCHANGED vars BY <1>1 DEF vars, api, import, TypeOK, Under
<1>2. CASE Next BY <1>2, ReadTypes, OtherTypes DEF Next, Reads, ServeCall
<1> QED BY <1>1, <1>2

-------------------------------------------------------------------------------
(* Getters in flight.                                                      *)

\* Steps at which no getter begins or ends.
LEMMA FlightSame ==
    ASSUME TypeOK, FlightInv, inFlight' = inFlight,
           \A m \in Under' : Runs(m)' => m \in Under /\ Runs(m),
           \A m \in Under : Runs(m) => m \in Under' /\ Runs(m)',
           \A m \in Under' : At(m, "wait")' => Owner(m) # None
    PROVE  FlightInv'
<1>1. \A m \in Under' : Owner(m)' = Owner(m) BY DEF Owner
<1>2. OwnerInv' BY <1>1 DEF FlightInv, OwnerInv
<1>3. WaitInv' BY <1>1 DEF WaitInv
<1> QED BY <1>2, <1>3 DEF FlightInv

LEMMA MoveFlight ==
    ASSUME TypeOK, FlightInv, NEW n \in Under,
           Miss(n) \/ Join(n) \/ Fetch(n) \/ Finish(n) \/ Store(n) \/ Throw(n)
    PROVE  FlightInv'
<1>1. PICK s \in ReadState :
        /\ reads' = [reads EXCEPT ![n] = s]
        /\ \/ s.at = "missed" /\ At(n, "lookup")
           \/ s.at = "wait" /\ At(n, "missed") /\ Owner(n) # None
           \/ s.at \in {"get", "store", "settle", "throw"} /\ Runs(n)
    <2>1. reads[n] \in ReadState BY Typed
    <2>2. CASE Own(n)
        BY <2>2 DEF Own, Miss, Join, Fetch, Finish, Store, Throw, At, NobodyReadsIt
    <2>3. CASE ~Own(n)
        <3>1. PICK s \in ReadState :
                /\ reads' = [reads EXCEPT ![n] = s]
                /\ \/ Miss(n) /\ At(n, "lookup") /\ s = [reads[n] EXCEPT !.at = "missed"]
                   \/ Join(n) /\ At(n, "missed") /\ s = [reads[n] EXCEPT !.at = "wait"]
                   \/ Fetch(n) /\ At(n, "get") /\ s.at = "get"
                   \/ Finish(n) /\ At(n, "get") /\ s.at = "store"
                   \/ Store(n) /\ At(n, "store") /\ s = [reads[n] EXCEPT !.at = "settle"]
                   \/ Throw(n) /\ reads[n].at \in {"get", "store"} /\ s.at = "throw"
            BY <2>3, Moved
        <3>2. \A p : [reads[n] EXCEPT !.at = p].at = p BY <2>1 DEF ReadState
        <3> QED BY <3>1, <3>2 DEF At, Runs, Join, NobodyReadsIt
    <2> QED BY <2>2, <2>3
<1>2. Moves(n, s) BY <1>1, OneMoves
<1>3. inFlight' = inFlight BY DEF Miss, Join, Fetch, Finish, Store, Throw
<1>4. \A m \in Under : Runs(m)' <=> Runs(m)
    BY <1>1, <1>2 DEF Moves, Runs, At
<1>5. \A m \in Under : At(m, "wait")' => Owner(m) # None
    BY <1>1, <1>2 DEF Moves, Runs, At, FlightInv, WaitInv
<1>6. Under' = Under BY <1>2 DEF Moves
<1> QED BY <1>3, <1>4, <1>5, <1>6, FlightSame

LEMMA GrowFlight ==
    ASSUME TypeOK, FlightInv,
           \/ \E c \in Calls, r \in Requests : Ask(c, r)
           \/ \E n \in Under, q \in Requests : ReadThrough(n, q)
    PROVE  FlightInv'
<1>1. PICK x \in Read :
        /\ Under' = Under \cup {x}
        /\ \A m \in Under : reads'[m].at = reads[m].at
        /\ x \notin Under => reads'[x] = [at |-> "lookup", left |-> {}, got |-> None]
    <2>1. CASE \E c \in Calls, r \in Requests : Ask(c, r)
        <3>1. PICK c \in Calls, r \in Requests : Ask(c, r) BY <2>1
        <3>2. Root(c, r) \in Read BY RootShape
        <3>3. reads' = Begun(Root(c, r)) BY <3>1 DEF Ask
        <3>4. /\ Under' = Under \cup {Root(c, r)}
              /\ \A m \in Under : reads'[m] = reads[m]
              /\ Root(c, r) \notin Under =>
                    reads'[Root(c, r)] = [at |-> "lookup", left |-> {}, got |-> None]
            BY <3>2, <3>3, Begins DEF Under
        <3> QED BY <3>2, <3>4
    <2>2. CASE \E n \in Under, q \in Requests : ReadThrough(n, q)
        <3>1. PICK n \in Under, q \in Requests : ReadThrough(n, q) BY <2>2
        <3> QED BY <3>1, ReadsThrough
    <2> QED BY <2>1, <2>2
<1>2. inFlight' = inFlight BY DEF Ask, ReadThrough
<1>3. \A m \in Under' : Runs(m)' => m \in Under /\ Runs(m)
    BY <1>1 DEF Runs
<1>4. \A m \in Under : Runs(m) => m \in Under' /\ Runs(m)'
    BY <1>1 DEF Runs
<1>5. \A m \in Under' : At(m, "wait")' => Owner(m) # None
    BY <1>1 DEF At, FlightInv, WaitInv
<1> QED BY <1>2, <1>3, <1>4, <1>5, FlightSame

\* A getter that is given what it read runs on.
LEMMA ReturnRuns ==
    ASSUME TypeOK, NEW S \in SUBSET Under, NEW v \in Value \cup {None}, Return(S, v)
    PROVE  /\ Under' = Under \ S
           /\ \A m \in Under' : Runs(m)' <=> Runs(m)
           /\ \A m \in Under' : At(m, "wait")' <=> At(m, "wait")
<1>1. Under' = Under \ S BY Returned
<1>2. ASSUME NEW m \in Under' PROVE (Runs(m)' <=> Runs(m)) /\ (At(m, "wait")' <=> At(m, "wait"))
    <2>1. m \in Under BY <1>1
    <2>2. \/ reads'[m].at = reads[m].at
          \/ reads[m].at = "get" /\ reads'[m].at = "throw"
        <3>1. reads'[m] \in {reads[m], Given(reads[m], v)} BY <1>1, <2>1, Returned
        <3> QED BY <2>1, <3>1, GivenFits
    <2> QED BY <2>2 DEF Runs, At
<1> QED BY <1>1, <1>2

LEMMA HitFlight ==
    ASSUME TypeOK, FlightInv, NEW n \in Under, Hit(n)
    PROVE  FlightInv'
<1>1. /\ Under' = Under \ {n}
      /\ \A m \in Under' : Runs(m)' <=> Runs(m)
      /\ \A m \in Under' : At(m, "wait")' <=> At(m, "wait")
    BY HitReturns, ReturnRuns
<1>2. ~Runs(n) BY DEF Hit, At, Runs
<1>3. inFlight' = inFlight BY DEF Hit
<1>4. \A m \in Under' : At(m, "wait")' => Owner(m) # None
    BY <1>1 DEF FlightInv, WaitInv
<1> QED BY <1>1, <1>2, <1>3, <1>4, FlightSame

LEMMA OwnFlight ==
    ASSUME TypeOK, FlightInv, NEW n \in Under, Own(n)
    PROVE  FlightInv'
<1> DEFINE h == Process(n)
           k == Key(n)
<1>1. h \in Processes /\ k \in Keys /\ n # None BY Typed
<1>2. \A p \in Processes, l \in Keys :
        inFlight'[p][l] = IF p = h /\ l = k THEN n ELSE inFlight[p][l]
    BY <1>1 DEF Own, TypeOK
<1>3. inFlight[h][k] = None BY DEF Own, NobodyReadsIt, Owner
<1>4. PICK s \in ReadState : reads' = [reads EXCEPT ![n] = s] /\ s.at = "get"
    <2>1. [at |-> "get", left |-> Inner[Request(n)], got |-> None] \in ReadState
        BY Typed, RequestFields DEF ReadState, Places
    <2> QED BY <2>1 DEF Own
<1>5. Moves(n, s) BY <1>4, OneMoves
<1>6. /\ Under' = Under /\ Runs(n)' /\ ~At(n, "wait")' /\ ~Runs(n)
      /\ \A m \in Under : m # n =>
            (Runs(m)' <=> Runs(m)) /\ (At(m, "wait")' <=> At(m, "wait"))
    BY <1>4, <1>5 DEF Moves, Runs, At, Own
<1>7. \A m \in Under : Process(m) \in Processes /\ Key(m) \in Keys BY Typed
<1>8. ASSUME NEW m \in Under, Runs(m)' PROVE Owner(m)' = m
    <2>1. CASE m = n BY <1>1, <1>2, <2>1 DEF Owner
    <2>2. CASE m # n
        <3>1. Owner(m) = m BY <1>6, <1>8, <2>2 DEF FlightInv, OwnerInv
        <3>2. m # None BY Typed
        <3>3. ~(Process(m) = h /\ Key(m) = k) BY <1>3, <3>1, <3>2 DEF Owner
        <3> QED BY <1>2, <1>7, <3>1, <3>3 DEF Owner
    <2> QED BY <2>1, <2>2
<1>9. ASSUME NEW p \in Processes, NEW l \in Keys, inFlight'[p][l] # None
      PROVE  \E m \in Under' : /\ inFlight'[p][l] = m /\ Runs(m)'
                               /\ Process(m) = p /\ Key(m) = l
    <2>1. CASE p = h /\ l = k BY <1>2, <1>6, <2>1
    <2>2. CASE ~(p = h /\ l = k)
        <3>1. inFlight'[p][l] = inFlight[p][l] BY <1>2, <2>2
        <3>2. PICK m \in Under : /\ inFlight[p][l] = m /\ Runs(m)
                                 /\ Process(m) = p /\ Key(m) = l
            BY <1>9, <3>1 DEF FlightInv, OwnerInv
        <3>3. m # n BY <1>6, <3>2
        <3> QED BY <1>6, <3>1, <3>2, <3>3
    <2> QED BY <2>1, <2>2
<1>10. OwnerInv' BY <1>6, <1>8, <1>9 DEF OwnerInv, Process, Key
<1>11. ASSUME NEW m \in Under, At(m, "wait")' PROVE Owner(m)' # None
    <2>1. m # n /\ At(m, "wait") BY <1>6, <1>11
    <2>2. Owner(m) # None BY <2>1 DEF FlightInv, WaitInv
    <2> QED BY <1>1, <1>2, <1>7, <2>2 DEF Owner
<1> QED BY <1>6, <1>10, <1>11 DEF FlightInv, WaitInv

LEMMA SettleFlight ==
    ASSUME TypeOK, FlightInv, NEW n \in Under, Settle(n)
    PROVE  FlightInv'
<1> DEFINE h == Process(n)
           k == Key(n)
           S == {n} \cup Waiting(n)
<1>1. h \in Processes /\ k \in Keys /\ n # None BY Typed
<1>2. \A p \in Processes, l \in Keys :
        inFlight'[p][l] = IF p = h /\ l = k THEN None ELSE inFlight[p][l]
    BY <1>1 DEF Settle, Released, TypeOK
<1>3. Runs(n) /\ inFlight[h][k] = n
    <2>1. Runs(n) BY DEF Settle, Runs
    <2> QED BY <2>1 DEF FlightInv, OwnerInv, Owner
<1>4. /\ Under' = Under \ S
      /\ \A m \in Under' : Runs(m)' <=> Runs(m)
      /\ \A m \in Under' : At(m, "wait")' <=> At(m, "wait")
    BY SettleReturns, ReturnRuns
<1>5. \A m \in Waiting(n) : ~Runs(m) BY DEF Waiting, At, Runs
<1>6. \A m \in Under : Process(m) \in Processes /\ Key(m) \in Keys BY Typed
<1>7. ASSUME NEW m \in Under', Runs(m)' PROVE Owner(m)' = m
    <2>1. m \in Under /\ m # n /\ Runs(m) BY <1>4, <1>7
    <2>2. Owner(m) = m BY <2>1 DEF FlightInv, OwnerInv
    <2>3. ~(Process(m) = h /\ Key(m) = k) BY <1>3, <2>1, <2>2 DEF Owner
    <2> QED BY <1>2, <1>6, <2>1, <2>2, <2>3 DEF Owner
<1>8. ASSUME NEW p \in Processes, NEW l \in Keys, inFlight'[p][l] # None
      PROVE  \E m \in Under' : /\ inFlight'[p][l] = m /\ Runs(m)'
                               /\ Process(m) = p /\ Key(m) = l
    <2>1. inFlight'[p][l] = inFlight[p][l] /\ ~(p = h /\ l = k) BY <1>2, <1>8
    <2>2. PICK m \in Under : /\ inFlight[p][l] = m /\ Runs(m)
                             /\ Process(m) = p /\ Key(m) = l
        BY <1>8, <2>1 DEF FlightInv, OwnerInv
    <2>3. m \notin S BY <1>5, <2>1, <2>2
    <2> QED BY <1>4, <2>1, <2>2, <2>3
<1>9. OwnerInv' BY <1>7, <1>8 DEF OwnerInv, Process, Key
<1>10. ASSUME NEW m \in Under', At(m, "wait")' PROVE Owner(m)' # None
    <2>1. m \in Under /\ m \notin S /\ At(m, "wait") BY <1>4, <1>10
    <2>2. ~(Process(m) = h /\ Key(m) = k) BY <2>1 DEF Waiting
    <2>3. Owner(m) # None BY <2>1 DEF FlightInv, WaitInv
    <2> QED BY <1>2, <1>6, <2>1, <2>2, <2>3 DEF Owner
<1> QED BY <1>9, <1>10 DEF FlightInv, WaitInv

LEMMA RestartFlight ==
    ASSUME TypeOK, FlightInv, NEW p \in Processes, Restart(p)
    PROVE  FlightInv'
<1>1. /\ Under' = {m \in Under : Process(m) # p}
      /\ \A m \in Under' : reads'[m] = reads[m]
    BY DEF Restart, Under
<1>2. \A o \in Processes, l \in Keys :
        inFlight'[o][l] = IF o = p THEN None ELSE inFlight[o][l]
    BY DEF Restart, TypeOK
<1>3. \A m \in Under : Process(m) \in Processes /\ Key(m) \in Keys BY Typed
<1>4. \A m \in Under' : (Runs(m)' <=> Runs(m)) /\ (At(m, "wait")' <=> At(m, "wait"))
    BY <1>1 DEF Runs, At
<1>5. \A m \in Under' : Owner(m)' = Owner(m) BY <1>1, <1>2, <1>3 DEF Owner
<1>6. ASSUME NEW o \in Processes, NEW l \in Keys, inFlight'[o][l] # None
      PROVE  \E m \in Under' : /\ inFlight'[o][l] = m /\ Runs(m)'
                               /\ Process(m) = o /\ Key(m) = l
    <2>1. inFlight'[o][l] = inFlight[o][l] /\ o # p BY <1>2, <1>6
    <2>2. PICK m \in Under : /\ inFlight[o][l] = m /\ Runs(m)
                             /\ Process(m) = o /\ Key(m) = l
        BY <1>6, <2>1 DEF FlightInv, OwnerInv
    <2> QED BY <1>1, <1>4, <2>1, <2>2
<1>7. \A m \in Under' : m \in Under BY <1>1
<1>8. OwnerInv' BY <1>4, <1>5, <1>6, <1>7 DEF FlightInv, OwnerInv, Process, Key
<1>9. WaitInv' BY <1>4, <1>5, <1>7 DEF FlightInv, WaitInv
<1> QED BY <1>8, <1>9 DEF FlightInv

LEMMA StepFlight == ASSUME TypeOK, FlightInv, [Next]_vars PROVE FlightInv'
<1>1. CASE UNCHANGED <<inFlight, reads>>
    BY <1>1 DEF FlightInv, OwnerInv, WaitInv, Owner, Runs, At, Under
<1>2. CASE UNCHANGED vars BY <1>1, <1>2 DEF vars, api
<1>3. CASE Import
    BY <1>1, <1>3 DEF Import, Change, StartSweep, EndSweep, GiveUp, Page, api
<1>4. ASSUME NEW k \in Keys, Expire(k) PROVE FlightInv'
    BY <1>1, <1>4 DEF Expire, api
<1> QED
    BY <1>2, <1>3, <1>4, MoveFlight, GrowFlight, HitFlight, OwnFlight, SettleFlight,
       RestartFlight DEF Next, Reads, ServeCall, Serve

-------------------------------------------------------------------------------
(* The tree of reads.                                                      *)

LEMMA StepTree == ASSUME TypeOK, TreeInv, GotInv, [Next]_vars PROVE TreeInv'
<1>1. ASSUME Under' \subseteq Under, asked' = asked PROVE TreeInv'
    BY <1>1 DEF TreeInv
<1>2. ASSUME NEW c \in Calls, NEW r \in Requests, Ask(c, r) PROVE TreeInv'
    <2>1. /\ Under' = Under \cup {Root(c, r)} /\ asked' = [asked EXCEPT ![c] = r]
          /\ \A n \in Under : n.call # c
        BY <1>2 DEF Ask, Begun, Under, Busy
    <2>2. \A n \in Under : n.call \in Calls BY Typed, ReadShape
    <2>3. \A n \in Under : asked'[n.call] = asked[n.call] BY <2>1
    <2>4. asked'[c] = r BY <2>1 DEF TypeOK
    <2>5. /\ Root(c, r).call = c /\ IsRoot(Root(c, r)) /\ Request(Root(c, r)) = r
        BY RootShape
    <2> QED BY <2>1, <2>3, <2>4, <2>5 DEF TreeInv
<1>3. ASSUME NEW n \in Under, NEW q \in Requests, ReadThrough(n, q) PROVE TreeInv'
    <2>1. Under' = Under \cup {Child(n, q)} /\ q \in reads[n].left
        BY <1>3, ReadsThrough
    <2>2. asked' = asked BY <1>3 DEF ReadThrough
    <2>3. n \in Read BY Typed
    <2>4. /\ ~IsRoot(Child(n, q)) /\ Request(Child(n, q)) = q
          /\ Parent(Child(n, q)) = n
        BY <2>3, ChildShape
    <2>5. q \in Inner[Request(n)] BY <2>1 DEF GotInv
    <2> QED BY <2>1, <2>2, <2>4, <2>5 DEF TreeInv
<1>4. ASSUME NEW n \in Under, Hit(n) \/ Settle(n) PROVE TreeInv'
    <2>1. ASSUME NEW S \in SUBSET Under, NEW v \in Value \cup {None}, Return(S, v)
          PROVE  Under' \subseteq Under
        BY <2>1, Returned
    <2>2. CASE Hit(n) BY <1>1, <2>1, <2>2, HitReturns DEF Hit
    <2>3. CASE Settle(n) BY <1>1, <2>1, <2>3, SettleReturns DEF Settle
    <2> QED BY <1>4, <2>2, <2>3
<1>5. ASSUME NEW n \in Under,
             Miss(n) \/ Join(n) \/ Own(n) \/ Fetch(n) \/ Finish(n) \/ Store(n) \/ Throw(n)
      PROVE  TreeInv'
    <2>1. Under' = Under BY <1>5, Moved, OneMoves DEF Moves
    <2>2. asked' = asked BY <1>5 DEF Miss, Join, Own, Fetch, Finish, Store, Throw
    <2> QED BY <1>1, <2>1, <2>2
<1>6. ASSUME NEW p \in Processes, Restart(p) PROVE TreeInv'
    BY <1>1, <1>6 DEF Restart, Under
<1>7. CASE UNCHANGED <<reads, asked>>
    BY <1>1, <1>7 DEF Under
<1>8. CASE UNCHANGED vars BY <1>7, <1>8 DEF vars, api
<1>9. CASE Import
    BY <1>7, <1>9 DEF Import, Change, StartSweep, EndSweep, GiveUp, Page, api
<1>10. ASSUME NEW k \in Keys, Expire(k) PROVE TreeInv'
    BY <1>7, <1>10 DEF Expire, api
<1> QED
    BY <1>2, <1>3, <1>4, <1>5, <1>6, <1>8, <1>9, <1>10
    DEF Next, Reads, ServeCall, Serve

-------------------------------------------------------------------------------
(* Values.                                                                 *)

\* What is known of what a read has in hand.
Sound(n, s, ver) ==
    /\ s.at \in {"store", "settle"} => s.got # None
    /\ s.got # None => s.at \in {"get", "store", "settle"} /\ s.got <= ver
    /\ s.left \subseteq Inner[Request(n)]

StoreSound == \A k \in Keys : store[k] # None =>
                store[k].version <= version /\ CacheKey(store[k].of) = k

LEMMA SoundAll ==
    GotInv /\ ValueInv <=> (\A n \in Under : Sound(n, reads[n], version)) /\ StoreSound
BY DEF GotInv, ValueInv, Sound, StoreSound

LEMMA SoundNext ==
    (\A n \in Under' : Sound(n, reads'[n], version')) /\ StoreSound' => GotInv' /\ ValueInv'
BY DEF GotInv, ValueInv, Sound, StoreSound

LEMMA ReturnSound ==
    ASSUME TypeOK, GotInv, ValueInv, NEW S \in SUBSET Under, NEW v \in Value \cup {None},
           v # None => v.version <= version, Return(S, v), UNCHANGED <<version, store>>
    PROVE  GotInv' /\ ValueInv'
<1>1. Under' = Under \ S BY Returned
<1>2. ASSUME NEW n \in Under' PROVE Sound(n, reads'[n], version)
    <2>1. n \in Under /\ Sound(n, reads[n], version) BY <1>1, SoundAll
    <2>2. reads'[n] \in {reads[n], Given(reads[n], v)} BY <1>1, <2>1, Returned
    <2>3. Sound(n, Given(reads[n], v), version)
        <3> DEFINE t == Given(reads[n], v)
        <3>1. /\ \/ t.at = reads[n].at
                 \/ reads[n].at = "get" /\ t.at = "throw"
              /\ t.left \subseteq reads[n].left
              /\ \/ t.got = reads[n].got /\ t.at = reads[n].at
                 \/ t.got = None /\ t.at = "throw"
                 \/ v # None /\ t.got = v.version /\ t.at = "get"
            BY <2>1, GivenFits
        <3> HIDE DEF t
        <3> QED BY <2>1, <3>1 DEF Sound, t
    <2> QED BY <2>1, <2>2, <2>3
<1>3. StoreSound' BY SoundAll DEF StoreSound
<1> QED BY <1>2, <1>3, SoundNext

LEMMA StepValues == ASSUME TypeOK, GotInv, ValueInv, [Next]_vars PROVE GotInv' /\ ValueInv'
<1>0. (\A n \in Under : Sound(n, reads[n], version)) /\ StoreSound BY SoundAll
<1>1. CASE UNCHANGED <<version, store, reads>>
    BY <1>1 DEF GotInv, ValueInv, Under
<1>2. ASSUME NEW n \in Under,
             Miss(n) \/ Join(n) \/ Own(n) \/ Fetch(n) \/ Finish(n) \/ Store(n) \/ Throw(n)
      PROVE  GotInv' /\ ValueInv'
    <2>1. reads[n] \in ReadState BY Typed
    <2>2. version \in Nat BY BoundAssumption DEF TypeOK, Version
    <2>3. version' = version BY <1>2 DEF Miss, Join, Own, Fetch, Finish, Store, Throw
    <2>4. PICK s \in ReadState : reads' = [reads EXCEPT ![n] = s] /\ Sound(n, s, version)
        <3>1. \A p : /\ [reads[n] EXCEPT !.at = p].at = p
                     /\ [reads[n] EXCEPT !.at = p].got = reads[n].got
                     /\ [reads[n] EXCEPT !.at = p].left = reads[n].left
            BY <2>1 DEF ReadState
        <3>2. PICK s \in ReadState :
                /\ reads' = [reads EXCEPT ![n] = s]
                /\ \/ At(n, "lookup") /\ s = [reads[n] EXCEPT !.at = "missed"]
                   \/ At(n, "missed") /\ s = [reads[n] EXCEPT !.at = "wait"]
                   \/ s = [at |-> "get", left |-> Inner[Request(n)], got |-> None]
                   \/ /\ At(n, "get")
                      /\ s = [at |-> "get", left |-> reads[n].left \ {None},
                              got |-> Older(reads[n].got, version)]
                      /\ Older(reads[n].got, version) \in {reads[n].got, version} \ {None}
                   \/ /\ At(n, "get") /\ reads[n].got # None
                      /\ s = [at |-> "store", left |-> {}, got |-> reads[n].got]
                   \/ At(n, "store") /\ s = [reads[n] EXCEPT !.at = "settle"]
                   \/ s = [at |-> "throw", left |-> {}, got |-> None]
            BY <1>2, Moved
        <3> SUFFICES Sound(n, s, version) BY <3>2
        <3>3. Sound(n, reads[n], version) BY <1>0
        <3>4. CASE At(n, "get") /\ s.at = "get" /\ s.left = reads[n].left \ {None}
                   /\ s.got \in {reads[n].got, version} \ {None}
            BY <2>2, <3>3, <3>4 DEF Sound
        <3>5. CASE s \in {[at |-> "get", left |-> Inner[Request(n)], got |-> None],
                          [at |-> "throw", left |-> {}, got |-> None]}
            BY <3>5 DEF Sound
        <3>6. CASE At(n, "get") /\ reads[n].got # None
                   /\ s = [at |-> "store", left |-> {}, got |-> reads[n].got]
            BY <3>3, <3>6 DEF Sound
        <3>7. CASE /\ s.at = "settle" => At(n, "store")
                   /\ s.at \in {"missed", "wait", "settle"}
                   /\ s.at \in {"missed", "wait"} => reads[n].at \in {"lookup", "missed"}
                   /\ s.got = reads[n].got /\ s.left = reads[n].left
            BY <3>3, <3>7 DEF Sound, At
        <3>8. CASE \/ At(n, "lookup") /\ s = [reads[n] EXCEPT !.at = "missed"]
                   \/ At(n, "missed") /\ s = [reads[n] EXCEPT !.at = "wait"]
                   \/ At(n, "store") /\ s = [reads[n] EXCEPT !.at = "settle"]
            BY <3>1, <3>7, <3>8 DEF At
        <3> QED BY <3>2, <3>4, <3>5, <3>6, <3>8
    <2>5. Moves(n, s) BY <2>4, OneMoves
    <2>6. \A m \in Under' : Sound(m, reads'[m], version')
        BY <1>0, <2>3, <2>4, <2>5 DEF Moves
    <2>7. StoreSound'
        <3>1. CASE Store(n)
            <4>1. /\ Result(n) # None /\ Result(n).version = reads[n].got
                  /\ Result(n).of = Request(n) /\ reads[n].got <= version
                BY <1>0, <3>1, Typed DEF Store, At, Sound
            <4>2. \A k \in Keys : store'[k] = IF k = Key(n) THEN Result(n) ELSE store[k]
                BY <3>1 DEF Store, TypeOK
            <4> QED BY <1>0, <2>3, <4>1, <4>2 DEF StoreSound, Key
        <3>2. CASE ~Store(n)
            <4>1. store' = store BY <1>2, <3>2 DEF Miss, Join, Own, Fetch, Finish, Throw
            <4> QED BY <1>0, <2>3, <4>1 DEF StoreSound
        <3> QED BY <3>1, <3>2
    <2> QED BY <2>6, <2>7, SoundNext
<1>3. ASSUME NEW c \in Calls, NEW r \in Requests, Ask(c, r) PROVE GotInv' /\ ValueInv'
    <2>1. /\ Under' = Under \cup {Root(c, r)}
          /\ \A m \in Under : reads'[m] = reads[m]
          /\ Root(c, r) \notin Under =>
                reads'[Root(c, r)] = [at |-> "lookup", left |-> {}, got |-> None]
        BY <1>3, RootShape, Begins DEF Ask, Under
    <2>2. Sound(Root(c, r), [at |-> "lookup", left |-> {}, got |-> None], version)
        BY DEF Sound
    <2>3. version' = version /\ store' = store BY <1>3 DEF Ask
    <2>4. \A m \in Under' : Sound(m, reads'[m], version')
        BY <1>0, <2>1, <2>2, <2>3
    <2>5. StoreSound' BY <1>0, <2>3 DEF StoreSound
    <2> QED BY <2>4, <2>5, SoundNext
<1>4. ASSUME NEW n \in Under, NEW q \in Requests, ReadThrough(n, q)
      PROVE  GotInv' /\ ValueInv'
    <2> DEFINE x == Child(n, q)
    <2>1. /\ Under' = Under \cup {x}
          /\ reads'[n].at = reads[n].at /\ reads'[n].got = reads[n].got
          /\ reads'[n].left \subseteq reads[n].left
          /\ \A m \in Under : m # n => reads'[m] = reads[m]
          /\ x \notin Under => reads'[x] = [at |-> "lookup", left |-> {}, got |-> None]
        BY <1>4, ReadsThrough
    <2>2. Sound(x, [at |-> "lookup", left |-> {}, got |-> None], version)
        BY DEF Sound
    <2>3. version' = version /\ store' = store BY <1>4 DEF ReadThrough
    <2> HIDE DEF x
    <2>4. Sound(n, reads'[n], version) BY <1>0, <2>1 DEF Sound
    <2>5. \A m \in Under' : Sound(m, reads'[m], version')
        BY <1>0, <2>1, <2>2, <2>3, <2>4
    <2>6. StoreSound' BY <1>0, <2>3 DEF StoreSound
    <2> QED BY <2>5, <2>6, SoundNext
<1>5. ASSUME NEW n \in Under, Hit(n) PROVE GotInv' /\ ValueInv'
    <2>1. Key(n) \in Keys BY Typed
    <2>2. store[Key(n)] # None /\ store[Key(n)].version <= version
        BY <1>0, <1>5, <2>1, HitReturns DEF StoreSound
    <2>3. UNCHANGED <<version, store>> BY <1>5 DEF Hit
    <2> QED BY <1>5, <2>2, <2>3, HitReturns, ReturnSound
<1>6. ASSUME NEW n \in Under, Settle(n) PROVE GotInv' /\ ValueInv'
    <2>1. Result(n) # None => Result(n).version <= version
        BY <1>0, Typed DEF Sound
    <2>2. UNCHANGED <<version, store>> BY <1>6 DEF Settle
    <2> QED BY <1>6, <2>1, <2>2, SettleReturns, ReturnSound
<1>7. ASSUME NEW p \in Processes, Restart(p) PROVE GotInv' /\ ValueInv'
    <2>1. /\ Under' \subseteq Under /\ \A m \in Under' : reads'[m] = reads[m]
          /\ version' = version /\ store' = store
        BY <1>7 DEF Restart, Under
    <2>2. StoreSound' BY <1>0, <2>1 DEF StoreSound
    <2> QED BY <1>0, <2>1, <2>2, SoundNext
<1>8. CASE Change
    <2>1. /\ version' = version + 1 /\ version \in Nat
          /\ reads' = reads /\ store' = store
        BY <1>8, BoundAssumption DEF Change, TypeOK, Version, api
    <2>2. \A n \in Under : reads[n].got \in Nat \cup {None}
        <3>1. Version \subseteq Nat BY BoundAssumption DEF Version
        <3>2. \A n \in Under : reads[n].got \in Version \cup {None} BY Typed
        <3> QED BY <3>1, <3>2
    <2>3. \A k \in Keys : store[k] # None => store[k].version \in Nat
        BY BoundAssumption DEF TypeOK, Value, Version
    <2>4. \A m \in Under' : Sound(m, reads'[m], version')
        BY <1>0, <2>1, <2>2 DEF Sound, Under
    <2>5. StoreSound' BY <1>0, <2>1, <2>3 DEF StoreSound
    <2> QED BY <2>4, <2>5, SoundNext
<1>9. ASSUME reads' = reads, version' = version, \A k \in Keys : store'[k] \in {store[k], None}
      PROVE  GotInv' /\ ValueInv'
    BY <1>9 DEF GotInv, ValueInv, Under
<1>10. ASSUME NEW k \in Keys, Expire(k) PROVE GotInv' /\ ValueInv'
    BY <1>9, <1>10 DEF Expire, api, TypeOK
<1>11. ASSUME NEW S \in SUBSET sweep, Page(S) PROVE GotInv' /\ ValueInv'
    BY <1>9, <1>11 DEF Page, api
<1>12. CASE StartSweep \/ EndSweep \/ GiveUp
    BY <1>1, <1>12 DEF StartSweep, EndSweep, GiveUp, api
<1>13. CASE UNCHANGED vars BY <1>1, <1>13 DEF vars, api
<1> QED
    BY <1>2, <1>3, <1>4, <1>5, <1>6, <1>7, <1>8, <1>10, <1>11, <1>12, <1>13
    DEF Next, Reads, Import, ServeCall, Serve

-------------------------------------------------------------------------------
(* The emptying.                                                           *)

LEMMA StepClean == ASSUME TypeOK, CleanInv, [Next]_vars PROVE CleanInv'
<1>1. Matched \subseteq Keys BY DEF Matched, Keys
<1>2. ASSUME UNCHANGED import, \A k \in Keys : Accounted(k) => Accounted(k)'
      PROVE  CleanInv'
    BY <1>1, <1>2 DEF CleanInv, import
<1>3. CASE UNCHANGED <<version, store, import, tardy>>
    BY <1>2, <1>3 DEF Accounted
<1>4. ASSUME NEW n \in Under, Store(n) PROVE CleanInv'
    <2>0. Result(n) # None => Result(n).version = reads[n].got BY Typed
    <2>1. ASSUME NEW k \in Keys, Accounted(k) PROVE Accounted(k)'
        <3>1. CASE k = Key(n)
            BY <1>4, <2>0, <3>1 DEF Store, TypeOK, Accounted
        <3>2. CASE k # Key(n)
            <4>1. store'[k] = store[k] /\ (k \in tardy' <=> k \in tardy) /\ version' = version
                BY <1>4, <3>2 DEF Store, TypeOK
            <4> QED BY <2>1, <4>1 DEF Accounted
        <3> QED BY <3>1, <3>2
    <2> QED BY <1>2, <1>4, <2>1 DEF Store
<1>5. ASSUME NEW k \in Keys, Expire(k) PROVE CleanInv'
    <2>1. ASSUME NEW l \in Keys, Accounted(l) PROVE Accounted(l)'
        BY <1>5, <2>1 DEF Expire, TypeOK, Accounted
    <2> QED BY <1>2, <1>5, <2>1 DEF Expire
<1>6. ASSUME NEW S \in SUBSET sweep, Page(S) PROVE CleanInv'
    <2>1. ASSUME NEW l \in Keys, Accounted(l) \/ l \in S PROVE Accounted(l)'
        BY <1>6, <2>1 DEF Page, Accounted
    <2>2. \A l \in Keys : l \in Matched \ sweep' => l \in Matched \ sweep \/ l \in S
        BY <1>6 DEF Page
    <2> QED BY <1>1, <1>6, <2>1, <2>2 DEF CleanInv, Page
<1>7. CASE Change BY <1>7 DEF Change, CleanInv
<1>8. CASE StartSweep BY <1>8 DEF StartSweep, Scanned, CleanInv
<1>9. CASE EndSweep BY <1>9 DEF EndSweep, CleanInv, Accounted
<1>10. CASE GiveUp BY <1>10 DEF GiveUp, CleanInv
<1>11. ASSUME NEW n \in Under,
              \/ \E q \in Requests : ReadThrough(n, q)
              \/ Hit(n) \/ Miss(n) \/ Join(n) \/ Own(n) \/ Fetch(n) \/ Finish(n)
              \/ Settle(n) \/ Throw(n)
       PROVE  CleanInv'
    BY <1>3, <1>11 DEF ReadThrough, Hit, Miss, Join, Own, Fetch, Finish, Settle, Throw
<1>12. ASSUME NEW p \in Processes, Restart(p) PROVE CleanInv'
    BY <1>3, <1>12 DEF Restart
<1>13. ASSUME NEW c \in Calls, NEW r \in Requests, Ask(c, r) PROVE CleanInv'
    BY <1>3, <1>13 DEF Ask
<1>14. CASE UNCHANGED vars BY <1>3, <1>14 DEF vars
<1> QED
    BY <1>4, <1>5, <1>6, <1>7, <1>8, <1>9, <1>10, <1>11, <1>12, <1>13, <1>14
    DEF Next, Reads, Import, ServeCall, Serve

-------------------------------------------------------------------------------
(* The theorems.                                                           *)

LEMMA InitHolds == ASSUME Init PROVE IInv
<1>1. TypeOK BY InitTypes
<1>2. Under = {} BY DEF Init, Under
<1>3. \A p \in Processes, k \in Keys : inFlight[p][k] = None BY DEF Init
<1>4. FlightInv BY <1>2, <1>3 DEF FlightInv, OwnerInv, WaitInv
<1>5. TreeInv /\ GotInv BY <1>2 DEF TreeInv, GotInv
<1>6. \A k \in Keys : store[k] = None BY DEF Init
<1>7. ValueInv BY <1>2, <1>6 DEF ValueInv
<1>8. CleanInv
    <2>1. Matched \subseteq Keys BY DEF Matched, Keys
    <2> QED BY <1>6, <2>1 DEF Init, CleanInv, Accounted
<1> QED BY <1>1, <1>4, <1>5, <1>7, <1>8 DEF IInv

LEMMA InvariantHolds == Spec => []IInv
<1>1. Init => IInv BY InitHolds
<1>2. IInv /\ [Next]_vars => IInv'
    BY StepTypes, StepFlight, StepTree, StepValues, StepClean DEF IInv
<1> QED BY <1>1, <1>2, PTL DEF Spec

\* Types hold whatever calls, getters, restarts and emptyings do, to any
\* depth of reads.
THEOREM Typing == Spec => []TypeOK
<1>1. IInv => TypeOK BY DEF IInv
<1> QED BY <1>1, InvariantHolds, PTL

\* A process runs the getter of a key once at a time, and whoever waits,
\* waits for a getter that runs (CacheService.getFromCacheOrGetAndCacheResult).
THEOREM Coalescing == Spec => []OneGetter
<1>1. ASSUME IInv PROVE OneGetter
    <2>1. TypeOK /\ OwnerInv /\ WaitInv BY <1>1 DEF IInv, FlightInv
    <2>2. \A m, n \in Under :
            Runs(m) /\ Runs(n) /\ Process(n) = Process(m) /\ Key(n) = Key(m) => m = n
        BY <2>1 DEF OwnerInv, Owner
    <2>3. ASSUME NEW m \in Under, At(m, "wait")
          PROVE  \E n \in Under : Runs(n) /\ Process(n) = Process(m) /\ Key(n) = Key(m)
        <3>1. Process(m) \in Processes /\ Key(m) \in Keys BY <2>1, Typed
        <3>2. inFlight[Process(m)][Key(m)] # None BY <2>1, <2>3 DEF WaitInv, Owner
        <3> QED BY <2>1, <3>1, <3>2 DEF OwnerInv
    <2> QED BY <2>2, <2>3 DEF OneGetter
<1> QED BY <1>1, InvariantHolds, PTL

\* An emptying that ends well leaves behind nothing that was up to date when
\* it was stored and is not any more (CacheService.cleanKeys).
THEOREM Emptying == Spec => []StaleHasACause
<1>1. IInv => StaleHasACause
    BY DEF IInv, CleanInv, Accounted, StaleHasACause
<1> QED BY <1>1, InvariantHolds, PTL

-------------------------------------------------------------------------------
(* The refinement of CachePromise.                                         *)

OldestOf(s) == Min(Ages(s) \cup {version})

\* A copy of q may be part of one of r.
Feeds(q, r) ==
    \/ Kept(q) = Kept(r)
    \/ \E p \in Inner[r] \ {None} : Kept(q) = Kept(p)

LEMMA MinFits ==
    ASSUME NEW S \in SUBSET Nat, S # {}
    PROVE  Min(S) \in S /\ \A y \in S : Min(S) <= y
<1>1. IsWellFoundedOn(OpToRel(<, Nat), Nat) BY NatLessThanWellFounded
<1>2. PICK x \in S : \A y \in S : <<y, x>> \notin OpToRel(<, Nat)
    BY <1>1, WFMin
<1>3. \A y \in S : ~(y < x) BY <1>2 DEF OpToRel
<1>4. \A y \in S : x <= y BY <1>3
<1> QED BY <1>4 DEF Min

\* Requests with one key are one request as far as keys keep it.
LEMMA KeyIsKept ==
    ASSUME NEW q \in Requests, NEW r \in Requests, CacheKey(q) = CacheKey(r)
    PROVE  Kept(q) = Kept(r)
<1>1. /\ q \in [op : Operations, arg : Arguments, db : Databases]
      /\ r \in [op : Operations, arg : Arguments, db : Databases]
    BY RequestFields
<1>2. CacheKey(q)[1] = q.op /\ CacheKey(r)[1] = r.op BY DEF CacheKey
<1>3. CASE q.op \in Ranked
    <2>1. <<q.op, q.arg>> = <<r.op, r.arg>> BY <1>2, <1>3 DEF CacheKey
    <2>2. q.op = r.op /\ q.arg = r.arg BY <2>1
    <2>3. [q EXCEPT !.db = None] = [r EXCEPT !.db = None] BY <1>1, <2>2
    <2> QED BY <1>3, <2>2, <2>3 DEF Kept
<1>4. CASE q.op \notin Ranked
    <2>1. <<q.op, q.db, q.arg>> = <<r.op, r.db, r.arg>> BY <1>2, <1>4 DEF CacheKey
    <2>2. q.op = r.op /\ q.db = r.db /\ q.arg = r.arg BY <2>1
    <2>3. q = r BY <1>1, <2>2
    <2> QED BY <2>3
<1> QED BY <1>3, <1>4

\* What answers to a subject may be made of is closed under what feeds it.
LEMMA BelowCloses ==
    ASSUME NEW s \in Subjects
    PROVE  /\ Below[s] \subseteq Requests
           /\ \A r \in Requests : Kept(r) = s => r \in Below[s]
           /\ \A q \in Requests, r \in Below[s] : Feeds(q, r) => q \in Below[s]
<1>1. Below[s] = {q \in Requests : \A S \in SUBSET Requests :
                    Closed(S) /\ (\E r \in S : Kept(r) = s) => q \in S}
    BY DEF Below
<1>2. ASSUME NEW r \in Requests, Kept(r) = s PROVE r \in Below[s]
    BY <1>1, <1>2 DEF Closed
<1>3. ASSUME NEW q \in Requests, NEW r \in Below[s], Feeds(q, r) PROVE q \in Below[s]
    <2> SUFFICES ASSUME NEW S \in SUBSET Requests, Closed(S), \E p \in S : Kept(p) = s
                 PROVE  q \in S
        BY <1>1
    <2>1. r \in S BY <1>1
    <2>2. CASE Kept(q) = Kept(r) BY <2>1, <2>2 DEF Closed
    <2>3. CASE \E p \in Inner[r] \ {None} : Kept(q) = Kept(p)
        <3>1. PICK p \in Inner[r] \ {None} : Kept(q) = Kept(p) BY <2>3
        <3>2. p \in S BY <2>1, <3>1 DEF Closed
        <3> QED BY <3>1, <3>2 DEF Closed
    <2> QED BY <1>3, <2>2, <2>3 DEF Feeds
<1> QED BY <1>1, <1>2, <1>3

LEMMA CopiesFit ==
    ASSUME IInv, NEW v \in Copies
    PROVE  v \in Value /\ v.of \in Requests /\ v.version \in Nat /\ v.version <= version
<1>0. TypeOK /\ ValueInv /\ v # None /\ Version \subseteq Nat
    BY BoundAssumption DEF IInv, Copies, Version
<1>1. CASE \E k \in Keys : v = store[k]
    BY <1>0, <1>1 DEF TypeOK, Value, ValueInv
<1>2. CASE \E n \in Under : v = Result(n)
    <2>1. PICK n \in Under : v = Result(n) BY <1>2
    <2>2. v \in Value /\ v.version = reads[n].got /\ reads[n].got # None
        BY <1>0, <2>1, Typed
    <2> QED BY <1>0, <2>2 DEF ValueInv, Value
<1> QED BY <1>1, <1>2 DEF Copies

LEMMA OldestFits ==
    ASSUME IInv, NEW s
    PROVE  /\ OldestOf(s) \in Nat /\ OldestOf(s) <= version
           /\ \A n \in Ages(s) : OldestOf(s) <= n
           /\ version \in Nat
<1>1. version \in Nat BY BoundAssumption DEF IInv, TypeOK, Version
<1>2. Ages(s) \in SUBSET Nat BY CopiesFit DEF Ages
<1>3. Ages(s) \cup {version} \in SUBSET Nat /\ Ages(s) \cup {version} # {}
    BY <1>1, <1>2
<1> QED BY <1>1, <1>3, MinFits DEF OldestOf

\* What is said of a copy that has just come alive: it is new, it was alive,
\* or it has the age of one that feeds it, which was alive.
Younger(v) ==
    \/ v.version = version
    \/ \E w \in Copies : w.version = v.version /\ Feeds(w.of, v.of)

\* What is said of a call's answer after a step.
Kind(c) ==
    \/ reply'[c] \in {reply[c], None}
    \/ \E n \in OldestOf(Kept(asked[c])) .. version :
        reply'[c] # None
        /\ [reply'[c] EXCEPT !.of = Kept(@)] = [of |-> Kept(asked[c]), version |-> n]

LEMMA ReturnedCopies ==
    ASSUME IInv, NEW S \in SUBSET Under, NEW v \in Value \cup {None},
           v # None => v \in Copies /\ \A n \in S : CacheKey(v.of) = Key(n),
           Return(S, v), UNCHANGED <<version, store>>
    PROVE  /\ \A w \in Copies' : Younger(w)
           /\ \A c \in Calls : Kind(c)
<1>0. TypeOK /\ TreeInv BY DEF IInv
<1>1. /\ Under' = Under \ S
      /\ \A n \in Under \ S :
            \/ reads'[n] = reads[n]
            \/ reads'[n] = Given(reads[n], v) /\ \E m \in S : ~IsRoot(m) /\ Parent(m) = n
      /\ \A c \in Calls :
            \/ reply'[c] = reply[c]
            \/ reply'[c] = v /\ \E n \in S : n.call = c /\ IsRoot(n)
    BY <1>0, Returned
<1>2. ASSUME NEW n \in S, v # None
      PROVE  v.of \in Requests /\ v \in Value /\ Kept(v.of) = Kept(Request(n))
    <2>1. Request(n) \in Requests BY <1>0, Typed
    <2>2. v.of \in Requests /\ v \in Value BY <1>2 DEF Value
    <2> QED BY <1>2, <2>1, <2>2, KeyIsKept DEF Key
<1>3. ASSUME NEW w \in Copies' PROVE Younger(w)
    <2>1. CASE w \in Copies BY <2>1 DEF Younger, Feeds
    <2>2. CASE w \notin Copies
        <3>1. PICK n \in Under' : w = Result(n)' /\ w # None
            BY <1>3, <2>2 DEF Copies
        <3>2. n \in Under \ S BY <1>1
        <3>3. reads'[n].got # None /\ w = [of |-> Request(n), version |-> reads'[n].got]
            BY <3>1 DEF Result
        <3>4. reads'[n].got # reads[n].got
            BY <2>2, <3>2, <3>3 DEF Copies, Result
        <3>5. /\ reads'[n] = Given(reads[n], v)
              /\ \E m \in S : ~IsRoot(m) /\ Parent(m) = n
            BY <1>1, <3>2, <3>4
        <3>6. v # None /\ reads'[n].got = v.version
            BY <1>0, <3>2, <3>3, <3>4, <3>5, GivenFits
        <3>7. PICK m \in S : ~IsRoot(m) /\ Parent(m) = n BY <3>5
        <3>8. Request(m) \in Inner[Request(n)] BY <1>0, <3>7 DEF TreeInv
        <3>9. Request(m) # None BY <1>0, Typed, NoneAssumption
        <3>10. Kept(v.of) = Kept(Request(m)) BY <1>2, <3>6
        <3>11. w.of = Request(n) /\ w.version = v.version BY <3>3, <3>6
        <3>12. Feeds(v.of, w.of) BY <3>8, <3>9, <3>10, <3>11 DEF Feeds
        <3> QED BY <3>6, <3>11, <3>12 DEF Younger
    <2> QED BY <2>1, <2>2
<1>4. ASSUME NEW c \in Calls, reply'[c] \notin {reply[c], None} PROVE Kind(c)
    <2>1. reply'[c] = v /\ v # None BY <1>1, <1>4
    <2>2. PICK n \in S : n.call = c /\ IsRoot(n) BY <1>1, <1>4
    <2>3. Request(n) = asked[c] BY <1>0, <2>2 DEF TreeInv
    <2>4. v.of \in Requests /\ v \in Value /\ Kept(v.of) = Kept(asked[c])
        BY <1>2, <2>1, <2>3
    <2>5. Kept(asked[c]) \in Subjects BY <1>0 DEF Subjects, TypeOK
    <2>6. v.of \in Below[Kept(asked[c])] BY <2>4, <2>5, BelowCloses
    <2>7. v \in Copies BY <2>1
    <2>8. v.version \in Ages(Kept(asked[c])) BY <2>6, <2>7 DEF Ages
    <2>9. v.version \in Nat /\ v.version <= version BY <2>7, CopiesFit
    <2>10. v.version \in OldestOf(Kept(asked[c])) .. version
        BY <2>8, <2>9, OldestFits
    <2>11. [v EXCEPT !.of = Kept(@)] = [of |-> Kept(asked[c]), version |-> v.version]
        BY <2>4 DEF Value
    <2> QED BY <2>1, <2>10, <2>11 DEF Kind
<1> QED BY <1>3, <1>4 DEF Kind

LEMMA StepCopies ==
    ASSUME IInv, [Next]_vars
    PROVE  /\ \A w \in Copies' : Younger(w)
           /\ \A c \in Calls : Kind(c)
<1> DEFINE Grown == \A w \in Copies' : Younger(w)
           Answers == \A c \in Calls : Kind(c)
<1>1. \A w \in Copies : Younger(w) BY DEF Younger, Feeds
<1>2. TypeOK BY DEF IInv
<1>3. ASSUME Copies' \subseteq Copies PROVE Grown
    BY <1>1, <1>3
<1>4. ASSUME \A c \in Calls : reply'[c] \in {reply[c], None} PROVE Answers
    BY <1>4 DEF Kind
<1>5. CASE UNCHANGED <<store, reads, reply>>
    <2>1. Copies' = Copies BY <1>5 DEF Copies, Under, Result
    <2> QED BY <1>3, <1>4, <1>5, <2>1
<1>6. ASSUME NEW n \in Under,
             Miss(n) \/ Join(n) \/ Own(n) \/ Fetch(n) \/ Finish(n) \/ Store(n) \/ Throw(n)
      PROVE  Grown /\ Answers
    <2>1. PICK s \in ReadState :
            /\ reads' = [reads EXCEPT ![n] = s]
            /\ s.got \in {None, reads[n].got, version}
        <3>1. \A p : [reads[n] EXCEPT !.at = p].got = reads[n].got
            BY <1>2, Typed DEF ReadState
        <3>2. PICK s \in ReadState :
                /\ reads' = [reads EXCEPT ![n] = s]
                /\ \/ s = [reads[n] EXCEPT !.at = "missed"]
                   \/ s = [reads[n] EXCEPT !.at = "wait"]
                   \/ s = [reads[n] EXCEPT !.at = "settle"]
                   \/ s.got \in {None, reads[n].got, version}
            BY <1>2, <1>6, Moved
        <3> QED BY <3>1, <3>2
    <2>2. Moves(n, s) BY <1>2, <2>1, OneMoves
    <2>3. \A k \in Keys : store'[k] \in {store[k], Result(n)}
        <3>1. CASE Store(n) BY <1>2, <3>1 DEF Store, TypeOK
        <3>2. CASE ~Store(n)
            BY <1>6, <3>2 DEF Miss, Join, Own, Fetch, Finish, Throw
        <3> QED BY <3>1, <3>2
    <2>4. ASSUME NEW w \in Copies' PROVE Younger(w)
        <3>1. CASE w \in Copies BY <1>1, <3>1
        <3>2. CASE w \notin Copies
            <4>1. w # None BY <2>4 DEF Copies
            <4>2. ~\E k \in Keys : w = store'[k] BY <2>3, <3>2, <4>1 DEF Copies
            <4>3. PICK m \in Under' : w = Result(m)' BY <2>4, <4>2 DEF Copies
            <4>4. m \in Under /\ reads'[m].got # None
                  /\ w = [of |-> Request(m), version |-> reads'[m].got]
                BY <2>2, <4>1, <4>3 DEF Moves, Result
            <4>5. reads'[m].got # reads[m].got
                BY <3>2, <4>1, <4>4 DEF Copies, Result
            <4>6. m = n BY <2>2, <4>4, <4>5 DEF Moves
            <4>7. reads'[m].got = version BY <2>1, <2>2, <4>4, <4>5, <4>6 DEF Moves
            <4>8. w.version = version BY <4>4, <4>7
            <4> QED BY <4>8 DEF Younger
        <3> QED BY <3>1, <3>2
    <2>5. reply' = reply BY <1>6 DEF Miss, Join, Own, Fetch, Finish, Store, Throw
    <2> QED BY <1>4, <2>4, <2>5
<1>7. ASSUME NEW x \in Read, Under' = Under \cup {x}, store' = store,
             \A m \in Under : reads'[m].got = reads[m].got,
             x \notin Under => reads'[x] = [at |-> "lookup", left |-> {}, got |-> None]
      PROVE  Grown
    <2>1. \A m \in Under : Result(m)' = Result(m) BY <1>7 DEF Result
    <2>2. x \notin Under => Result(x)' = None BY <1>7 DEF Result
    <2>3. Copies' \subseteq Copies BY <1>7, <2>1, <2>2 DEF Copies
    <2> QED BY <1>3, <2>3
<1>8. ASSUME NEW c \in Calls, NEW r \in Requests, Ask(c, r) PROVE Grown /\ Answers
    <2>1. /\ Root(c, r) \in Read /\ Under' = Under \cup {Root(c, r)}
          /\ \A m \in Under : reads'[m] = reads[m]
          /\ Root(c, r) \notin Under =>
                reads'[Root(c, r)] = [at |-> "lookup", left |-> {}, got |-> None]
        BY <1>2, <1>8, RootShape, Begins DEF Ask, Under
    <2>2. store' = store /\ \A d \in Calls : reply'[d] \in {reply[d], None}
        BY <1>2, <1>8 DEF Ask, TypeOK
    <2> QED BY <1>4, <1>7, <2>1, <2>2
<1>9. ASSUME NEW n \in Under, NEW q \in Requests, ReadThrough(n, q)
      PROVE  Grown /\ Answers
    <2>1. /\ Child(n, q) \in Read /\ Under' = Under \cup {Child(n, q)}
          /\ \A m \in Under : reads'[m].got = reads[m].got
          /\ Child(n, q) \notin Under =>
                reads'[Child(n, q)] = [at |-> "lookup", left |-> {}, got |-> None]
        BY <1>2, <1>9, ReadsThrough
    <2>2. store' = store /\ reply' = reply BY <1>9 DEF ReadThrough
    <2> QED BY <1>4, <1>7, <2>1, <2>2
<1>10. ASSUME NEW n \in Under, Hit(n) PROVE Grown /\ Answers
    <2> DEFINE v == store[Key(n)]
    <2>1. Key(n) \in Keys BY <1>2, Typed
    <2>2. /\ v \in Value /\ v # None /\ {n} \in SUBSET Under /\ Return({n}, v)
        BY <1>2, <1>10, HitReturns
    <2>3. v \in Copies /\ CacheKey(v.of) = Key(n)
        BY <2>1, <2>2 DEF IInv, ValueInv, Copies
    <2>4. UNCHANGED <<version, store>> BY <1>10 DEF Hit
    <2> HIDE DEF v
    <2> QED BY <2>2, <2>3, <2>4, ReturnedCopies
<1>11. ASSUME NEW n \in Under, Settle(n) PROVE Grown /\ Answers
    <2> DEFINE v == Result(n)
               S == {n} \cup Waiting(n)
    <2>1. /\ v \in Value \cup {None} /\ S \in SUBSET Under /\ Return(S, v)
        BY <1>2, <1>11, SettleReturns
    <2>2. v # None => v \in Copies /\ v.of = Request(n)
        BY <1>2, Typed DEF Copies
    <2>3. \A m \in S : Key(m) = Key(n) BY DEF Waiting
    <2>4. v # None => \A m \in S : CacheKey(v.of) = Key(m)
        BY <2>2, <2>3 DEF Key
    <2>5. UNCHANGED <<version, store>> BY <1>11 DEF Settle
    <2> HIDE DEF v, S
    <2> QED BY <2>1, <2>2, <2>4, <2>5, ReturnedCopies
<1>12. ASSUME NEW p \in Processes, Restart(p) PROVE Grown /\ Answers
    <2>1. /\ Under' \subseteq Under /\ \A m \in Under' : reads'[m] = reads[m]
          /\ store' = store /\ reply' = reply
        BY <1>12 DEF Restart, Under
    <2>2. \A m \in Under' : Result(m)' = Result(m) BY <2>1 DEF Result
    <2>3. Copies' \subseteq Copies BY <2>1, <2>2 DEF Copies
    <2> QED BY <1>3, <1>4, <2>1, <2>3
<1>13. ASSUME UNCHANGED api, \A k \in Keys : store'[k] \in {None, store[k]}
       PROVE  Grown /\ Answers
    <2>1. Under' = Under /\ \A m \in Under : Result(m)' = Result(m)
        BY <1>13 DEF api, Under, Result
    <2>2. Copies' \subseteq Copies BY <1>13, <2>1 DEF Copies
    <2> QED BY <1>3, <1>4, <1>13, <2>2 DEF api
<1>14. ASSUME NEW k \in Keys, Expire(k) PROVE Grown /\ Answers
    BY <1>2, <1>13, <1>14 DEF Expire, TypeOK
<1>15. ASSUME NEW S \in SUBSET sweep, Page(S) PROVE Grown /\ Answers
    BY <1>13, <1>15 DEF Page
<1>16. CASE Change \/ StartSweep \/ EndSweep \/ GiveUp
    BY <1>5, <1>16 DEF Change, StartSweep, EndSweep, GiveUp, api
<1>17. CASE UNCHANGED vars BY <1>5, <1>17 DEF vars, api
<1> QED
    BY <1>6, <1>8, <1>9, <1>10, <1>11, <1>12, <1>14, <1>15, <1>16, <1>17
    DEF Next, Reads, Import, ServeCall, Serve

LEMMA VersionGrows ==
    ASSUME TypeOK, [Next]_vars
    PROVE  version \in Nat /\ version' \in Nat /\ version <= version'
<1>1. version \in Nat BY BoundAssumption DEF TypeOK, Version
<1>2. version' \in {version, version + 1}
    <2>1. CASE Import
        BY <2>1 DEF Import, Change, StartSweep, Page, EndSweep, GiveUp
    <2>2. CASE Reads
        BY <2>2 DEF Reads, ServeCall, Serve, Ask, Hit, Miss, Join, Own, ReadThrough,
                    Fetch, Finish, Store, Settle, Throw, Expire, Restart
    <2>3. CASE UNCHANGED vars BY <2>3 DEF vars
    <2> QED BY <2>1, <2>2, <2>3 DEF Next
<1> QED BY <1>1, <1>2

LEMMA OldestGrows ==
    ASSUME IInv, IInv', [Next]_vars, NEW s \in Subjects
    PROVE  OldestOf(s) <= OldestOf(s)' /\ OldestOf(s)' <= version'
<1>1. /\ OldestOf(s) \in Nat /\ OldestOf(s) <= version
      /\ \A n \in Ages(s) : OldestOf(s) <= n
    BY OldestFits
<1>2. /\ version \in Nat /\ version' \in Nat /\ version <= version'
    BY VersionGrows DEF IInv
<1>3. ASSUME NEW v \in Copies', v.of \in Below[s]
      PROVE  v.version \in Nat /\ OldestOf(s) <= v.version
    <2>1. Younger(v) BY <1>3, StepCopies
    <2>2. CASE v.version = version BY <1>1, <1>2, <2>2
    <2>3. CASE \E w \in Copies : w.version = v.version /\ Feeds(w.of, v.of)
        <3>1. PICK w \in Copies : w.version = v.version /\ Feeds(w.of, v.of) BY <2>3
        <3>2. w.of \in Requests /\ w.version \in Nat BY <3>1, CopiesFit
        <3>3. w.of \in Below[s] BY <1>3, <3>1, <3>2, BelowCloses
        <3>4. w.version \in Ages(s) BY <3>1, <3>3 DEF Ages
        <3> QED BY <1>1, <3>1, <3>2, <3>4
    <2> QED BY <2>1, <2>2, <2>3 DEF Younger
<1>4. Ages(s)' = {v.version : v \in {w \in Copies' : w.of \in Below[s]}}
    BY DEF Ages
<1>5. \A n \in Ages(s)' : n \in Nat /\ OldestOf(s) <= n BY <1>3, <1>4
<1>6. Ages(s)' \cup {version'} \in SUBSET Nat /\ Ages(s)' \cup {version'} # {}
    BY <1>2, <1>5
<1>7. /\ Min(Ages(s)' \cup {version'}) \in Ages(s)' \cup {version'}
      /\ \A n \in Ages(s)' \cup {version'} : Min(Ages(s)' \cup {version'}) <= n
    BY <1>6, MinFits
<1>8. OldestOf(s)' = Min(Ages(s)' \cup {version'}) BY DEF OldestOf
<1>9. OldestOf(s) <= version' BY <1>1, <1>2
<1> QED BY <1>5, <1>7, <1>8, <1>9

\* The cache keeps CachePromise, whatever its getters read: an answer belongs
\* to its request, as far as the key tells it from others, and is not older
\* than the oldest copy alive of all that it may be made of.
THEOREM Refinement == Spec => KeepsPromise
<1>1. ASSUME Init PROVE Promise!Init
    <2>1. IInv BY <1>1, InitHolds
    <2>2. \A k \in Keys : store[k] = None BY <1>1 DEF Init
    <2>3. Under = {} BY <1>1 DEF Init, Under
    <2>4. Copies = {} BY <2>2, <2>3 DEF Copies
    <2>5. \A s \in Subjects : Min(Ages(s) \cup {version}) = version
        <3> TAKE s \in Subjects
        <3>1. Ages(s) = {} BY <2>4 DEF Ages
        <3>2. version \in Nat BY <2>1, OldestFits
        <3>3. {version} \in SUBSET Nat /\ {version} # {} BY <3>2
        <3>4. Min({version}) \in {version} BY <3>3, MinFits
        <3> QED BY <3>1, <3>4
    <2>6. \A c \in Calls : reply[c] = None BY <1>1 DEF Init
    <2> QED BY <2>5, <2>6 DEF Promise!Init
<1>2. ASSUME IInv, IInv', [Next]_vars PROVE [Promise!Step]_(Promise!vars)
    <2>1. version <= version' BY <1>2, VersionGrows DEF IInv
    <2>2. Promise!CopiesGetYounger
        BY <1>2, OldestGrows DEF Promise!CopiesGetYounger, OldestOf
    <2> DEFINE answer(c) == IF reply[c] = None THEN None
                            ELSE [reply[c] EXCEPT !.of = Kept(@)]
               answerNext(c) == IF reply'[c] = None THEN None
                                ELSE [reply'[c] EXCEPT !.of = Kept(@)]
    <2>3. ASSUME NEW c \in Calls
          PROVE  \/ answerNext(c) \in {answer(c), None}
                 \/ \E n \in OldestOf(Kept(asked[c])) .. version :
                        answerNext(c) = [of |-> Kept(asked[c]), version |-> n]
        <3>1. Kind(c) BY <1>2, StepCopies
        <3>2. CASE reply'[c] \in {reply[c], None} BY <3>2
        <3>3. CASE reply'[c] \notin {reply[c], None} BY <3>1, <3>3 DEF Kind
        <3> QED BY <3>2, <3>3
    <2>4. \A c \in Calls : Kept(asked[c]) \in Subjects
        BY <1>2 DEF IInv, TypeOK, Subjects
    <2>5. Promise!Step
        BY <2>1, <2>2, <2>3, <2>4 DEF Promise!Step, Promise!Answered, OldestOf
    <2> QED BY <2>5
<1> QED BY <1>1, <1>2, InvariantHolds, PTL DEF Spec, KeepsPromise, Promise!Spec

-------------------------------------------------------------------------------
(* The distribution of the ranking, which keeps its numbers in the process *)
(* beside the cache.                                                       *)

\* Who has read the number since it was counted last has the number.
TableInv ==
    \A r \in Askers \ overtaken :
        request[r].at \in {"table", "points", "done"} => request[r].table = memberCount

DistributionInv == DistributionTypeOK /\ TableInv /\ ThresholdsFit

LEMMA RequestShapes ==
    ASSUME DistributionTypeOK, NEW r \in Askers
    PROVE  /\ request[r].at \in {"idle", "count", "table", "points", "done"}
           /\ request[r].at = "idle" => request[r] = NotAsking
           /\ request[r].at \in {"table", "points", "done"} => request[r].table \in Numbers
           /\ request[r].at = "points" => request[r].points \in 0 .. MaxImports
           /\ request[r].at = "done" => request[r].shown \in LetterPoints
BY DEF DistributionTypeOK, Serving, NotAsking

LEMMA DistributionBegins ==
    ASSUME DistributionInit
    PROVE  DistributionInv
<1>1. 0 \in 0 .. MaxDay /\ {0, 1} \subseteq Nat BY DistributionAssumption
<1>2. None \in Numbers BY DEF Numbers
<1>3. refreshing \in [Counters -> Numbers] BY <1>2 DEF DistributionInit
<1>4. request \in [Askers -> Serving] BY DEF DistributionInit, Serving
<1>5. DistributionTypeOK
    <2>1. imports \in 0 .. MaxImports
        <3>1. MaxImports \in Nat \ {0} /\ imports \in {0, 1}
            BY DistributionAssumption DEF DistributionInit
        <3> QED BY <3>1
    <2> QED BY <2>1, <1>1, <1>2, <1>3, <1>4 DEF DistributionInit, DistributionTypeOK
<1>6. \A r \in Askers : request[r].at = "idle" BY DEF DistributionInit, NotAsking
<1>7. TableInv /\ ThresholdsFit BY <1>6 DEF DistributionInit, TableInv, ThresholdsFit
<1> QED BY <1>5, <1>7 DEF DistributionInv

\* A count that ends well overtakes every request that is between reading
\* the number and its answer.
LEMMA CountKept ==
    ASSUME DistributionInv, NEW c \in Counters,
           Ended(c), refreshing[c] # 0, Keep(c)
    PROVE  /\ memberCount' \in Numbers /\ lastUpdated' \in (0 .. MaxDay) \cup {None}
           /\ pointThresholds' = None /\ spoiled' = FALSE
           /\ refreshing' \in [Counters -> Numbers]
           /\ overtaken' \in SUBSET Askers
           /\ \A r \in Askers \ overtaken' :
                  request[r].at \notin {"table", "points", "done"}
<1>1. /\ refreshing \in [Counters -> Numbers] /\ refreshing[c] \in Numbers
      /\ None \in Numbers
    BY DEF DistributionInv, DistributionTypeOK, Numbers
<1> QED BY <1>1 DEF DistributionInv, DistributionTypeOK, Ended, Keep, UnderWay

LEMMA TimerStep ==
    ASSUME DistributionInv,
           TimerCounts \/ TimerKeeps \/ TimerFails
    PROVE  DistributionInv'
<1>1. "timer" \in Counters /\ imports \in Numbers /\ None \in Numbers
    BY DEF Counters, DistributionInv, DistributionTypeOK, Numbers
<1>2. CASE TimerCounts \/ TimerFails
    <2>1. refreshing' \in [Counters -> Numbers]
        BY <1>1, <1>2 DEF TimerCounts, TimerFails, Count, Ended, DistributionInv, DistributionTypeOK
    <2>2. UNCHANGED <<day, imports, memberCount, lastUpdated, pointThresholds, request,
                      overtaken, spoiled>>
        BY <1>2 DEF TimerCounts, TimerFails, KeepNothing, counts, causes
    <2> QED BY <2>1, <2>2 DEF DistributionInv, DistributionTypeOK, TableInv, ThresholdsFit
<1>3. CASE TimerKeeps
    <2>1. /\ Ended("timer") /\ refreshing["timer"] # 0 /\ Keep("timer")
          /\ UNCHANGED <<day, imports, request>>
        BY <1>3 DEF TimerKeeps
    <2>2. /\ memberCount' \in Numbers /\ lastUpdated' \in (0 .. MaxDay) \cup {None}
          /\ pointThresholds' = None /\ spoiled' = FALSE
          /\ refreshing' \in [Counters -> Numbers]
          /\ overtaken' \in SUBSET Askers
          /\ \A r \in Askers \ overtaken' : request[r].at \notin {"table", "points", "done"}
        BY <1>1, <2>1, CountKept
    <2> QED BY <2>1, <2>2 DEF DistributionInv, DistributionTypeOK, TableInv, ThresholdsFit
<1> QED BY <1>2, <1>3

LEMMA RankingAsked ==
    ASSUME DistributionInv, NEW r \in Askers, AskRanking(r)
    PROVE  DistributionInv'
<1>1. /\ r \in Counters /\ imports \in Numbers
      /\ UNCHANGED <<day, imports, memberCount, lastUpdated, pointThresholds, spoiled>>
      /\ overtaken' = overtaken \ {r}
    BY DEF Counters, DistributionInv, DistributionTypeOK, Numbers, AskRanking, counts
<1>2. /\ \A q \in Askers \ {r} : request'[q] = request[q]
      /\ \/ request'[r] = [at |-> "count"]
         \/ request'[r] = [at |-> "table", table |-> memberCount]
      /\ request' \in [Askers -> Serving]
    BY DEF AskRanking, DistributionInv, DistributionTypeOK, Serving
<1>3. refreshing' \in [Counters -> Numbers]
    BY <1>1 DEF AskRanking, Count, DistributionInv, DistributionTypeOK
<1>4. DistributionTypeOK'
    BY <1>1, <1>2, <1>3 DEF DistributionInv, DistributionTypeOK
<1>5. TableInv' /\ ThresholdsFit'
    BY <1>1, <1>2 DEF DistributionInv, TableInv, ThresholdsFit
<1> QED BY <1>4, <1>5 DEF DistributionInv

LEMMA RankingCounted ==
    ASSUME DistributionInv, NEW r \in Askers,
           GetMembersWithRankingCount(r)
    PROVE  DistributionInv'
<1>1. /\ r \in Counters /\ Ended(r) /\ UNCHANGED <<day, imports>>
      /\ request' = [request EXCEPT ![r] = [at |-> "table", table |-> memberCount']]
    BY DEF Counters, GetMembersWithRankingCount
<1>2. CASE refreshing[r] # 0 /\ Keep(r)
    <2>1. /\ memberCount' \in Numbers /\ lastUpdated' \in (0 .. MaxDay) \cup {None}
          /\ pointThresholds' = None /\ spoiled' = FALSE
          /\ refreshing' \in [Counters -> Numbers]
          /\ overtaken' \in SUBSET Askers
          /\ \A q \in Askers \ overtaken' : request[q].at \notin {"table", "points", "done"}
        BY <1>1, <1>2, CountKept
    <2>2. /\ request' \in [Askers -> Serving]
          /\ request'[r] = [at |-> "table", table |-> memberCount']
          /\ \A q \in Askers \ {r} : request'[q] = request[q]
        BY <1>1, <2>1 DEF DistributionInv, DistributionTypeOK, Serving
    <2> QED BY <1>1, <2>1, <2>2 DEF DistributionInv, DistributionTypeOK, TableInv, ThresholdsFit
<1>3. CASE KeepNothing
    <2>1. UNCHANGED <<memberCount, lastUpdated, pointThresholds, overtaken, spoiled>>
        BY <1>3 DEF KeepNothing, counts, causes
    <2>2. memberCount \in Numbers /\ None \in Numbers
        BY DEF DistributionInv, DistributionTypeOK, Numbers
    <2>3. refreshing' \in [Counters -> Numbers]
        BY <1>1, <2>2 DEF Ended, DistributionInv, DistributionTypeOK
    <2>4. /\ request' \in [Askers -> Serving]
          /\ request'[r] = [at |-> "table", table |-> memberCount]
          /\ \A q \in Askers \ {r} : request'[q] = request[q]
        BY <1>1, <2>1, <2>2 DEF DistributionInv, DistributionTypeOK, Serving
    <2> QED BY <1>1, <2>1, <2>3, <2>4 DEF DistributionInv, DistributionTypeOK, TableInv, ThresholdsFit
<1> QED BY <1>2, <1>3 DEF GetMembersWithRankingCount

LEMMA PointsRead ==
    ASSUME DistributionInv, NEW r \in Askers, ReadPoints(r)
    PROVE  DistributionInv'
<1>1. /\ UNCHANGED <<day, imports, memberCount, lastUpdated, pointThresholds, refreshing,
                     overtaken, spoiled>>
      /\ request[r].at = "table" /\ request[r].table \in Numbers
      /\ \A q \in Askers \ {r} : request'[q] = request[q]
    BY RequestShapes DEF ReadPoints, counts, causes, DistributionInv, DistributionTypeOK
<1>2. CASE pointThresholds # None
    <2>1. /\ request'[r] = [at |-> "done", table |-> request[r].table, shown |-> pointThresholds]
          /\ request' \in [Askers -> Serving]
        BY <1>1, <1>2 DEF ReadPoints, DistributionInv, DistributionTypeOK, Serving
    <2>2. DistributionTypeOK' BY <1>1, <2>1 DEF DistributionInv, DistributionTypeOK
    <2>3. TableInv' BY <1>1, <2>1 DEF DistributionInv, TableInv
    <2>4. ThresholdsFit'
        BY <1>1, <1>2, <2>1 DEF DistributionInv, TableInv, ThresholdsFit
    <2> QED BY <2>2, <2>3, <2>4 DEF DistributionInv
<1>3. CASE pointThresholds = None
    <2>1. /\ request'[r] = [at |-> "points", table |-> request[r].table, points |-> imports]
          /\ request' \in [Askers -> Serving]
        BY <1>1, <1>3 DEF ReadPoints, DistributionInv, DistributionTypeOK, Serving
    <2> QED BY <1>1, <2>1 DEF DistributionInv, DistributionTypeOK, TableInv, ThresholdsFit
<1> QED BY <1>2, <1>3

LEMMA PointsKept ==
    ASSUME DistributionInv, NEW r \in Askers, KeepPoints(r)
    PROVE  DistributionInv'
<1> DEFINE found == [table |-> request[r].table, points |-> request[r].points]
<1>1. /\ UNCHANGED <<day, imports, memberCount, lastUpdated, refreshing, overtaken>>
      /\ request[r].at = "points" /\ request[r].table \in Numbers
      /\ found \in LetterPoints /\ found.table = request[r].table
      /\ \A q \in Askers \ {r} : request'[q] = request[q]
      /\ pointThresholds' = IF request[r].points = 0 THEN pointThresholds ELSE found
      /\ spoiled' = (spoiled \/ r \in overtaken)
      /\ request'[r] = [at |-> "done", table |-> request[r].table, shown |-> found]
    BY RequestShapes DEF KeepPoints, counts, DistributionInv, DistributionTypeOK, LetterPoints
<1>2. request' \in [Askers -> Serving]
    BY <1>1 DEF KeepPoints, DistributionInv, DistributionTypeOK, Serving
<1> HIDE DEF found
<1>3. DistributionTypeOK' BY <1>1, <1>2 DEF DistributionInv, DistributionTypeOK
<1>4. TableInv' BY <1>1 DEF DistributionInv, TableInv
<1>5. r \notin overtaken => request[r].table = memberCount
    BY <1>1 DEF DistributionInv, TableInv
<1>6. ASSUME spoiled' = FALSE
      PROVE  spoiled = FALSE /\ r \notin overtaken
    BY <1>1, <1>6 DEF DistributionInv, DistributionTypeOK
<1>7. ASSUME spoiled' = FALSE, NEW q \in Askers \ overtaken', request'[q].at = "done"
      PROVE  request'[q].shown.table = request'[q].table
    <2>1. CASE q = r BY <1>1, <2>1
    <2>2. CASE q # r
        BY <1>1, <1>6, <1>7, <2>2 DEF DistributionInv, ThresholdsFit
    <2> QED BY <2>1, <2>2
<1>8. ASSUME spoiled' = FALSE, pointThresholds' # None
      PROVE  pointThresholds'.table = memberCount'
    BY <1>1, <1>5, <1>6, <1>8 DEF DistributionInv, ThresholdsFit
<1>9. spoiled' = FALSE \/ spoiled' = TRUE
    BY <1>3 DEF DistributionTypeOK
<1>10. ThresholdsFit' BY <1>7, <1>8, <1>9 DEF ThresholdsFit
<1> QED BY <1>3, <1>4, <1>10 DEF DistributionInv

LEMMA RankingAnswered ==
    ASSUME DistributionInv, NEW r \in Askers, Answer(r)
    PROVE  DistributionInv'
<1>1. /\ UNCHANGED <<day, imports, memberCount, lastUpdated, pointThresholds, refreshing,
                     overtaken, spoiled>>
      /\ \A q \in Askers \ {r} : request'[q] = request[q]
      /\ request'[r].at = "idle"
      /\ request' \in [Askers -> Serving]
    BY DEF Answer, counts, causes, DistributionInv, DistributionTypeOK, Serving, NotAsking
<1> QED BY <1>1 DEF DistributionInv, DistributionTypeOK, TableInv, ThresholdsFit

LEMMA DistributionHolds == DistributionSpec => []DistributionInv
<1>1. DistributionInit => DistributionInv BY DistributionBegins
<1>2. DistributionInv /\ [DistributionNext]_distributionVars => DistributionInv'
    <2>1. CASE ImportPlayers \/ NextDay
        BY <2>1, DistributionAssumption DEF ImportPlayers, NextDay, counts, causes,
            DistributionInv, DistributionTypeOK, TableInv, ThresholdsFit
    <2>2. CASE UNCHANGED distributionVars
        BY <2>2 DEF distributionVars, counts, causes, DistributionInv, DistributionTypeOK, TableInv,
            ThresholdsFit
    <2> QED BY <2>1, <2>2, TimerStep, RankingAsked, RankingCounted, PointsRead, PointsKept,
            RankingAnswered DEF DistributionNext
<1> QED BY <1>1, <1>2, PTL DEF DistributionSpec

\* The points kept, and those an answer shows beside a table, are those of
\* that table unless a count ended while a request was between reading the
\* number and its answer, for any number of requests, days and imports
\* (refreshMemberCounts, getRankingPointThresholds).
THEOREM ThresholdsFollowTheTable == DistributionSpec => []ThresholdsFit
<1>1. DistributionInv => ThresholdsFit BY DEF DistributionInv
<1> QED BY <1>1, DistributionHolds, PTL

-------------------------------------------------------------------------------
(* The layers of a member's dashboard, each kept by this cache.            *)

Sources == {"points", "results", "members", "matches"}

\* A value of a layer, of whose parts none is older at a time than what is
\* below the layer allows, and n more.
Young(l, v, n, t) ==
    /\ IsValue(v, l)
    /\ l \in Sources => t - v <= n
    /\ l = "weekly" => WeeklyWithin(v, n, t)
    /\ l = "ranking" => RankingWithin(v, n, t)
    /\ l = "latest" => LatestWithin(v, n, t)
    /\ l = "stats" => StatsWithin(v, n, t)
    /\ l = "dashboard" => DashboardWithin(v, n, t)
    /\ l = "all" => \A c \in DOMAIN v : DashboardWithin(v[c], Age("dashboard") + n, t)

\* Entries that are alive at a time, and were as young when they were put
\* there.
KeptAt(e, t) ==
    /\ e = [k \in LayerKeys |-> e[k]]
    /\ \A k \in LayerKeys : e[k] # None =>
           /\ e[k].until \in Nat /\ t < e[k].until
           /\ Young(k[1], e[k].value, 0, e[k].until - Ttl[k[1]])

DashboardInv ==
    /\ time \in ReadTimes /\ enrolled \in SUBSET Categories
    /\ KeptAt(entries, time)
    /\ PartsAreBounded

LEMMA KeysOfLayers ==
    /\ \A c \in Categories, l \in OfCategory : <<l, c>> \in LayerKeys
    /\ \A c \in Categories, v \in Views : <<"dashboard", <<c, v>>>> \in LayerKeys
    /\ \A v \in Views : <<"all", v>> \in LayerKeys
    /\ <<"matches", None>> \in LayerKeys /\ <<"categories", None>> \in LayerKeys
    /\ \A k \in LayerKeys :
           \/ \E l \in OfCategory, c \in Categories : k = <<l, c>>
           \/ \E c \in Categories, v \in Views : k = <<"dashboard", <<c, v>>>>
           \/ \E v \in Views : k = <<"all", v>>
           \/ k = <<"matches", None>> \/ k = <<"categories", None>>
BY DEF LayerKeys

LEMMA KeyHasLayer == ASSUME NEW k \in LayerKeys PROVE k[1] \in Layers
BY DEF LayerKeys, Layers

LEMMA TimesAre ==
    /\ \A l \in Layers : Ttl[l] \in Nat /\ Age(l) = Ttl[l] - 1 /\ Age(l) \in Nat
    /\ \A l \in {"points", "results", "weekly", "ranking", "members", "latest", "stats",
                 "dashboard", "matches", "categories", "all"} : Age(l) \in Nat
    /\ ReadTimes \subseteq Nat /\ None \notin Nat
BY DashboardAssumption DEF ReadTimes, Age, Layers, OfCategory

LEMMA ValuesAre ==
    ASSUME NEW v
    PROVE  /\ \A l \in Sources : IsValue(v, l) <=> v \in ReadTimes
           /\ IsValue(v, "weekly") <=> v \in Weekly
           /\ IsValue(v, "ranking") <=> v \in Weekly
           /\ IsValue(v, "latest") <=> v \in LatestRead
           /\ IsValue(v, "stats") <=> v \in Stats
           /\ IsValue(v, "dashboard") <=> v \in Dashboards
           /\ IsValue(v, "categories") <=> v \in SUBSET Categories
           /\ IsValue(v, "all") <=>
                 DOMAIN v \in SUBSET Categories /\ v \in [DOMAIN v -> Dashboards]
BY DEF IsValue, Sources

LEMMA WeeklyLater ==
    ASSUME NEW w \in Weekly, NEW n \in Nat, NEW m \in Nat, NEW t \in Int, NEW u \in Int,
           u <= t + m, WeeklyWithin(w, n, t)
    PROVE  WeeklyWithin(w, n + m, u)
<1>1. w.points \in Nat /\ w.results \in Nat BY TimesAre DEF Weekly
<1>2. Age("points") \in Nat /\ Age("results") \in Nat BY TimesAre
<1> QED BY <1>1, <1>2 DEF WeeklyWithin

LEMMA RankingLater ==
    ASSUME NEW w \in Weekly, NEW n \in Nat, NEW m \in Nat, NEW t \in Int, NEW u \in Int,
           u <= t + m, RankingWithin(w, n, t)
    PROVE  RankingWithin(w, n + m, u)
<1> DEFINE a == Age("weekly")
<1>1. a \in Nat BY TimesAre
<1>2. WeeklyWithin(w, a + n, t) BY DEF RankingWithin
<1> HIDE DEF a
<1>3. a + n \in Nat /\ (a + n) + m = a + (n + m) BY <1>1
<1>4. WeeklyWithin(w, (a + n) + m, u) BY <1>2, <1>3, WeeklyLater
<1> QED BY <1>3, <1>4 DEF RankingWithin, a

LEMMA LatestLater ==
    ASSUME NEW l \in LatestRead, NEW n \in Nat, NEW m \in Nat, NEW t \in Int, NEW u \in Int,
           u <= t + m, LatestWithin(l, n, t)
    PROVE  LatestWithin(l, n + m, u)
<1>1. l.member \in Nat /\ (l.matches # None => l.matches \in Nat) BY TimesAre DEF LatestRead
<1>2. Age("members") \in Nat /\ Age("matches") \in Nat BY TimesAre
<1> QED BY <1>1, <1>2 DEF LatestWithin

LEMMA StatsLater ==
    ASSUME NEW s \in Stats, NEW n \in Nat, NEW m \in Nat, NEW t \in Int, NEW u \in Int,
           u <= t + m, StatsWithin(s, n, t)
    PROVE  StatsWithin(s, n + m, u)
<1> DEFINE a == Age("ranking")
<1>1. a \in Nat /\ Age("members") \in Nat BY TimesAre
<1>2. s.member \in Nat /\ s.ranking \in Weekly \cup {None} BY TimesAre DEF Stats
<1>3. u - s.member <= Age("members") + (n + m) BY <1>1, <1>2 DEF StatsWithin
<1>4. s.ranking # None => RankingWithin(s.ranking, a + n, t) BY DEF StatsWithin
<1> HIDE DEF a
<1>5. a + n \in Nat /\ (a + n) + m = a + (n + m) BY <1>1
<1>6. s.ranking # None => RankingWithin(s.ranking, (a + n) + m, u)
    BY <1>2, <1>4, <1>5, RankingLater
<1> QED BY <1>3, <1>5, <1>6 DEF StatsWithin, a

LEMMA DashboardLater ==
    ASSUME NEW d \in Dashboards, NEW n \in Nat, NEW m \in Nat, NEW t \in Int, NEW u \in Int,
           u <= t + m, DashboardWithin(d, n, t)
    PROVE  DashboardWithin(d, n + m, u)
<1> DEFINE r == Age("ranking")
           l == Age("latest")
           s == Age("stats")
<1>1. r \in Nat /\ l \in Nat /\ s \in Nat /\ Age("members") \in Nat BY TimesAre
<1>2. d.member \in Nat /\ d.ranking \in Weekly /\ d.latest \in LatestRead /\ d.stats \in Stats
    BY TimesAre DEF Dashboards
<1>3. u - d.member <= Age("members") + (n + m) BY <1>1, <1>2 DEF DashboardWithin
<1>4. /\ RankingWithin(d.ranking, r + n, t)
      /\ LatestWithin(d.latest, l + n, t)
      /\ StatsWithin(d.stats, s + n, t)
    BY DEF DashboardWithin
<1> HIDE DEF r, l, s
<1>5. /\ r + n \in Nat /\ (r + n) + m = r + (n + m)
      /\ l + n \in Nat /\ (l + n) + m = l + (n + m)
      /\ s + n \in Nat /\ (s + n) + m = s + (n + m)
    BY <1>1
<1>6. RankingWithin(d.ranking, (r + n) + m, u) BY <1>2, <1>4, <1>5, RankingLater
<1>7. LatestWithin(d.latest, (l + n) + m, u) BY <1>2, <1>4, <1>5, LatestLater
<1>8. StatsWithin(d.stats, (s + n) + m, u) BY <1>2, <1>4, <1>5, StatsLater
<1> QED BY <1>3, <1>5, <1>6, <1>7, <1>8 DEF DashboardWithin, r, l, s

\* m later, a value may be m older.
LEMMA YoungLater ==
    ASSUME NEW l \in Layers, NEW v, NEW n \in Nat, NEW m \in Nat, NEW t \in Int, NEW u \in Int,
           u <= t + m, Young(l, v, n, t), NEW o, o = n + m
    PROVE  Young(l, v, o, u)
<1>0. o \in Nat /\ n + m = o OBVIOUS
<1>1. CASE l \in Sources
    <2>1. v \in Nat /\ t - v <= n BY <1>1, ValuesAre, TimesAre DEF Young
    <2>2. u - v <= o BY <2>1
    <2> QED BY <1>1, <2>2 DEF Young, Sources
<1>2. CASE l = "weekly" BY <1>2, <1>0, ValuesAre, WeeklyLater DEF Young, Sources
<1>3. CASE l = "ranking" BY <1>3, <1>0, ValuesAre, RankingLater DEF Young, Sources
<1>4. CASE l = "latest" BY <1>4, <1>0, ValuesAre, LatestLater DEF Young, Sources
<1>5. CASE l = "stats" BY <1>5, <1>0, ValuesAre, StatsLater DEF Young, Sources
<1>6. CASE l = "dashboard" BY <1>6, <1>0, ValuesAre, DashboardLater DEF Young, Sources
<1>7. CASE l = "categories" BY <1>7 DEF Young, Sources
<1>8. CASE l = "all"
    <2> DEFINE a == Age("dashboard")
    <2>1. a \in Nat BY TimesAre
    <2>2. v \in [DOMAIN v -> Dashboards] BY <1>8, ValuesAre DEF Young
    <2>3. \A c \in DOMAIN v : DashboardWithin(v[c], a + n, t) BY <1>8 DEF Young
    <2> HIDE DEF a
    <2>4. a + n \in Nat /\ (a + n) + m = a + o BY <2>1
    <2>5. ASSUME NEW c \in DOMAIN v PROVE DashboardWithin(v[c], a + o, u)
        <3>1. v[c] \in Dashboards BY <2>2
        <3>2. DashboardWithin(v[c], (a + n) + m, u) BY <2>3, <2>4, <3>1, DashboardLater
        <3> QED BY <2>4, <3>2
    <2> QED BY <1>8, <2>5 DEF Young, Sources, a
<1> QED BY <1>1, <1>2, <1>3, <1>4, <1>5, <1>6, <1>7, <1>8 DEF Layers, OfCategory, Sources

\* A hit is an entry whose age is less than its layer lives.
LEMMA HitIsYoung ==
    ASSUME DashboardInv, NEW k \in LayerKeys, LayerHit(k)
    PROVE  Young(k[1], entries[k].value, Age(k[1]), time)
<1> DEFINE b == entries[k].until - Ttl[k[1]]
<1>1. k[1] \in Layers /\ time \in Nat BY KeyHasLayer, TimesAre DEF DashboardInv
<1>2. entries[k].until \in Nat /\ time < entries[k].until /\ Young(k[1], entries[k].value, 0, b)
    BY DEF DashboardInv, KeptAt, LayerHit
<1>3. Ttl[k[1]] \in Nat /\ Age(k[1]) = Ttl[k[1]] - 1 /\ Age(k[1]) \in Nat BY <1>1, TimesAre
<1>4. b \in Int /\ time <= b + Age(k[1]) BY <1>1, <1>2, <1>3
<1> HIDE DEF b
<1>5. 0 \in Nat /\ Age(k[1]) = 0 + Age(k[1]) BY <1>3
<1> QED BY <1>1, <1>2, <1>3, <1>4, <1>5, YoungLater

LEMMA NowIsYoung ==
    ASSUME DashboardInv, NEW l \in Layers, NEW v, Young(l, v, 0, time)
    PROVE  Young(l, v, Age(l), time)
<1>1. time \in Int /\ Age(l) \in Nat /\ 0 \in Nat BY TimesAre DEF DashboardInv
<1>2. time <= time + Age(l) /\ Age(l) = 0 + Age(l) BY <1>1
<1> QED BY <1>1, <1>2, YoungLater

\* What is read of a layer, if what its getter returns is as young as that.
LEMMA CachedIsYoung ==
    ASSUME DashboardInv, NEW k \in LayerKeys, NEW got, Young(k[1], got, 0, time)
    PROVE  /\ Young(k[1], Cached(k, got), Age(k[1]), time)
           /\ ~LayerHit(k) => Young(k[1], Cached(k, got), 0, time)
<1>1. Young(k[1], got, Age(k[1]), time) BY KeyHasLayer, NowIsYoung
<1> QED BY <1>1, HitIsYoung DEF Cached

LEMMA SourcesNow ==
    ASSUME DashboardInv, NEW c \in Categories
    PROVE  /\ Young("members", GetMembers(c), Age("members"), time)
           /\ ~LayerHit(<<"members", c>>) => Young("members", GetMembers(c), 0, time)
           /\ Young("points", ActualPoints(c), Age("points"), time)
           /\ ~LayerHit(<<"points", c>>) => Young("points", ActualPoints(c), 0, time)
           /\ Young("results", ResultsDetailsHistory(c), Age("results"), time)
           /\ ~LayerHit(<<"results", c>>) => Young("results", ResultsDetailsHistory(c), 0, time)
<1>1. \A l \in {"members", "points", "results"} : <<l, c>> \in LayerKeys /\ <<l, c>>[1] = l
    BY KeysOfLayers DEF OfCategory
<1>2. \A l \in {"members", "points", "results"} : Young(l, time, 0, time)
    BY ValuesAre, TimesAre DEF Young, Sources, DashboardInv
<1> QED BY <1>1, <1>2, CachedIsYoung DEF GetMembers, ActualPoints, ResultsDetailsHistory

LEMMA MatchesNow ==
    ASSUME DashboardInv
    PROVE  /\ Young("matches", GetMatches, Age("matches"), time)
           /\ ~LayerHit(<<"matches", None>>) => Young("matches", GetMatches, 0, time)
<1>1. <<"matches", None>> \in LayerKeys /\ <<"matches", None>>[1] = "matches" BY KeysOfLayers
<1>2. Young("matches", time, 0, time) BY ValuesAre, TimesAre DEF Young, Sources, DashboardInv
<1> QED BY <1>1, <1>2, CachedIsYoung DEF GetMatches

LEMMA WeeklyNow ==
    ASSUME DashboardInv, NEW c \in Categories
    PROVE  /\ Young("weekly", GetWeeklyRanking(c), Age("weekly"), time)
           /\ ~LayerHit(<<"weekly", c>>) => Young("weekly", GetWeeklyRanking(c), 0, time)
<1> DEFINE got == [points |-> ActualPoints(c), results |-> ResultsDetailsHistory(c)]
<1>1. /\ ActualPoints(c) \in ReadTimes /\ ResultsDetailsHistory(c) \in ReadTimes
      /\ time - ActualPoints(c) <= Age("points")
      /\ time - ResultsDetailsHistory(c) <= Age("results")
    BY SourcesNow, ValuesAre DEF Young, Sources
<1>2. Age("points") \in Nat /\ Age("results") \in Nat BY TimesAre
<1>3. got \in Weekly /\ WeeklyWithin(got, 0, time) BY <1>1, <1>2 DEF Weekly, WeeklyWithin
<1>4. Young("weekly", got, 0, time) BY <1>3, ValuesAre DEF Young, Sources
<1>5. <<"weekly", c>> \in LayerKeys /\ <<"weekly", c>>[1] = "weekly" BY KeysOfLayers DEF OfCategory
<1> QED BY <1>4, <1>5, CachedIsYoung DEF GetWeeklyRanking

LEMMA RankingNow ==
    ASSUME DashboardInv, NEW c \in Categories
    PROVE  /\ Young("ranking", GetNumericRanking(c), Age("ranking"), time)
           /\ ~LayerHit(<<"ranking", c>>) => Young("ranking", GetNumericRanking(c), 0, time)
<1> DEFINE got == GetWeeklyRanking(c)
<1>1. got \in Weekly /\ WeeklyWithin(got, Age("weekly"), time)
    BY WeeklyNow, ValuesAre DEF Young, Sources
<1>2. Age("weekly") \in Nat BY TimesAre
<1> HIDE DEF got
<1>3. RankingWithin(got, 0, time) BY <1>1, <1>2 DEF RankingWithin
<1>4. Young("ranking", got, 0, time) BY <1>1, <1>3, ValuesAre DEF Young, Sources
<1>5. <<"ranking", c>> \in LayerKeys /\ <<"ranking", c>>[1] = "ranking"
    BY KeysOfLayers DEF OfCategory
<1> QED BY <1>4, <1>5, CachedIsYoung DEF GetNumericRanking, got

LEMMA LatestNow ==
    ASSUME DashboardInv, NEW c \in Categories
    PROVE  /\ Young("latest", GetLatestMatches(c), Age("latest"), time)
           /\ ~LayerHit(<<"latest", c>>) => Young("latest", GetLatestMatches(c), 0, time)
<1> DEFINE found == IF c \in WithResults THEN GetMatches ELSE None
           got == [member |-> GetMembers(c), matches |-> found]
<1>1. /\ GetMembers(c) \in ReadTimes /\ time - GetMembers(c) <= Age("members")
      /\ GetMatches \in ReadTimes /\ time - GetMatches <= Age("matches")
    BY SourcesNow, MatchesNow, ValuesAre DEF Young, Sources
<1>2. Age("members") \in Nat /\ Age("matches") \in Nat BY TimesAre
<1>3. found \in ReadTimes \cup {None} /\ (found # None => time - found <= Age("matches") + 0)
    BY <1>1, <1>2
<1> HIDE DEF found
<1>4. got \in LatestRead /\ LatestWithin(got, 0, time) BY <1>1, <1>2, <1>3 DEF LatestRead, LatestWithin
<1>5. Young("latest", got, 0, time) BY <1>4, ValuesAre DEF Young, Sources
<1>6. <<"latest", c>> \in LayerKeys /\ <<"latest", c>>[1] = "latest" BY KeysOfLayers DEF OfCategory
<1> QED BY <1>5, <1>6, CachedIsYoung DEF GetLatestMatches, found

LEMMA StatsNow ==
    ASSUME DashboardInv, NEW c \in Categories
    PROVE  /\ Young("stats", GetMemberStats(c), Age("stats"), time)
           /\ ~LayerHit(<<"stats", c>>) => Young("stats", GetMemberStats(c), 0, time)
<1> DEFINE r == IF c \in WithResults THEN GetNumericRanking(c) ELSE None
           got == [member |-> GetMembers(c), ranking |-> r]
<1>1. /\ GetMembers(c) \in ReadTimes /\ time - GetMembers(c) <= Age("members")
      /\ r \in Weekly \cup {None}
      /\ r # None => RankingWithin(r, Age("ranking"), time)
    BY SourcesNow, RankingNow, ValuesAre DEF Young, Sources
<1>2. Age("members") + 0 = Age("members") /\ Age("ranking") + 0 = Age("ranking") BY TimesAre
<1> HIDE DEF r
<1>3. got \in Stats /\ StatsWithin(got, 0, time) BY <1>1, <1>2 DEF Stats, StatsWithin
<1>4. Young("stats", got, 0, time) BY <1>3, ValuesAre DEF Young, Sources
<1>5. <<"stats", c>> \in LayerKeys /\ <<"stats", c>>[1] = "stats" BY KeysOfLayers DEF OfCategory
<1> QED BY <1>4, <1>5, CachedIsYoung DEF GetMemberStats, r

LEMMA DashboardNow ==
    ASSUME DashboardInv, NEW c \in Categories, NEW v \in Views
    PROVE  /\ Young("dashboard", GetOneDashboard(c, v), Age("dashboard"), time)
           /\ ~LayerHit(<<"dashboard", <<c, v>>>>) =>
                  Young("dashboard", GetOneDashboard(c, v), 0, time)
<1> DEFINE r == GetNumericRanking(c)
           l == GetLatestMatches(c)
           s == GetMemberStats(c)
           got == [member |-> GetMembers(c), ranking |-> r, latest |-> l, stats |-> s]
<1>1. /\ GetMembers(c) \in ReadTimes /\ time - GetMembers(c) <= Age("members")
      /\ r \in Weekly /\ RankingWithin(r, Age("ranking"), time)
    BY SourcesNow, RankingNow, ValuesAre DEF Young, Sources
<1>2. /\ l \in LatestRead /\ LatestWithin(l, Age("latest"), time)
      /\ s \in Stats /\ StatsWithin(s, Age("stats"), time)
    BY LatestNow, StatsNow, ValuesAre DEF Young, Sources
<1>3. /\ Age("members") + 0 = Age("members") /\ Age("ranking") + 0 = Age("ranking")
      /\ Age("latest") + 0 = Age("latest") /\ Age("stats") + 0 = Age("stats")
    BY TimesAre
<1>4. BuildDashboard(c) = got BY DEF BuildDashboard
<1> HIDE DEF r, l, s
<1>5. got \in Dashboards BY <1>1, <1>2 DEF Dashboards
<1>6. DashboardWithin(got, 0, time) BY <1>1, <1>2, <1>3 DEF DashboardWithin
<1>7. Young("dashboard", got, 0, time) BY <1>5, <1>6, ValuesAre DEF Young, Sources
<1>8. <<"dashboard", <<c, v>>>> \in LayerKeys /\ <<"dashboard", <<c, v>>>>[1] = "dashboard"
    BY KeysOfLayers
<1>9. GetOneDashboard(c, v) = Cached(<<"dashboard", <<c, v>>>>, got) BY <1>4 DEF GetOneDashboard
<1> HIDE DEF got
<1> QED BY <1>7, <1>8, <1>9, CachedIsYoung

\* Keys that getters may put: no category's list, no answer for all.
Puttable(S) ==
    S \subseteq {k \in LayerKeys : k[1] \notin {"categories", "all"} /\ ~LayerHit(k)}

LEMMA PutsAreYoung ==
    ASSUME DashboardInv, NEW k \in LayerKeys, k[1] \notin {"categories", "all"}, ~LayerHit(k)
    PROVE  Young(k[1], ValueOf(k), 0, time)
<1>1. ASSUME NEW l \in OfCategory, NEW c \in Categories, k = <<l, c>>
      PROVE  Young(k[1], ValueOf(k), 0, time)
    <2>1. k[1] = l /\ k[2] = c BY <1>1
    <2>2. CASE l = "points" BY <2>1, <2>2, <1>1, SourcesNow DEF ValueOf
    <2>3. CASE l = "results" BY <2>1, <2>3, <1>1, SourcesNow DEF ValueOf
    <2>4. CASE l = "weekly" BY <2>1, <2>4, <1>1, WeeklyNow DEF ValueOf
    <2>5. CASE l = "ranking" BY <2>1, <2>5, <1>1, RankingNow DEF ValueOf
    <2>6. CASE l = "members" BY <2>1, <2>6, <1>1, SourcesNow DEF ValueOf
    <2>7. CASE l = "latest" BY <2>1, <2>7, <1>1, LatestNow DEF ValueOf
    <2>8. CASE l = "stats" BY <2>1, <2>8, <1>1, StatsNow DEF ValueOf
    <2> QED BY <2>2, <2>3, <2>4, <2>5, <2>6, <2>7, <2>8 DEF OfCategory
<1>2. ASSUME NEW c \in Categories, NEW v \in Views, k = <<"dashboard", <<c, v>>>>
      PROVE  Young(k[1], ValueOf(k), 0, time)
    <2>1. k[1] = "dashboard" /\ k[2][1] = c /\ k[2][2] = v BY <1>2
    <2>2. ValueOf(k) = GetOneDashboard(c, v) BY <2>1 DEF ValueOf
    <2> QED BY <2>1, <2>2, <1>2, DashboardNow
<1>3. CASE k = <<"matches", None>>
    <2>1. k[1] = "matches" BY <1>3
    <2>2. ValueOf(k) = GetMatches BY <2>1 DEF ValueOf
    <2> QED BY <2>1, <2>2, <1>3, MatchesNow
<1>4. k # <<"categories", None>> /\ \A v \in Views : k # <<"all", v>> OBVIOUS
<1> QED BY <1>1, <1>2, <1>3, <1>4, KeysOfLayers

\* An entry just put lives for what its layer lives.
LEMMA FreshIsKept ==
    ASSUME DashboardInv, NEW l \in Layers, NEW v, Young(l, v, 0, time)
    PROVE  /\ Fresh(l, v).until \in Nat /\ time < Fresh(l, v).until
           /\ Young(l, Fresh(l, v).value, 0, Fresh(l, v).until - Ttl[l])
<1>1. time \in Nat /\ Ttl[l] \in Nat /\ Ttl[l] >= 1
    BY TimesAre, DashboardAssumption DEF DashboardInv
<1>2. Fresh(l, v).until = time + Ttl[l] /\ Fresh(l, v).value = v BY DEF Fresh
<1>3. (time + Ttl[l]) - Ttl[l] = time BY <1>1
<1> QED BY <1>1, <1>2, <1>3

LEMMA FilledIsKept ==
    ASSUME DashboardInv, NEW S, Puttable(S)
    PROVE  KeptAt(Filled(S), time)
<1>1. Filled(S) = [k \in LayerKeys |-> Filled(S)[k]] BY DEF Filled
<1>2. ASSUME NEW k \in LayerKeys, Filled(S)[k] # None
      PROVE  /\ Filled(S)[k].until \in Nat /\ time < Filled(S)[k].until
             /\ Young(k[1], Filled(S)[k].value, 0, Filled(S)[k].until - Ttl[k[1]])
    <2>1. CASE k \in S
        <3>1. Filled(S)[k] = Fresh(k[1], ValueOf(k)) BY <2>1 DEF Filled
        <3>2. Young(k[1], ValueOf(k), 0, time) BY <2>1, PutsAreYoung DEF Puttable
        <3> QED BY <3>1, <3>2, FreshIsKept, KeyHasLayer
    <2>2. CASE k \notin S
        <3>1. Filled(S)[k] = entries[k] BY <2>2 DEF Filled
        <3> QED BY <1>2, <3>1 DEF DashboardInv, KeptAt
    <2> QED BY <2>1, <2>2
<1> QED BY <1>1, <1>2 DEF KeptAt

LEMMA OneMoreKept ==
    ASSUME DashboardInv, NEW e, KeptAt(e, time), NEW k \in LayerKeys, NEW v,
           Young(k[1], v, 0, time)
    PROVE  KeptAt([e EXCEPT ![k] = Fresh(k[1], v)], time)
<1> DEFINE f == [e EXCEPT ![k] = Fresh(k[1], v)]
<1>1. DOMAIN e = LayerKeys BY DEF KeptAt
<1>2. f = [j \in LayerKeys |-> f[j]] BY <1>1
<1>3. f[k] = Fresh(k[1], v) /\ \A j \in LayerKeys : j # k => f[j] = e[j] BY <1>1
<1> HIDE DEF f
<1>4. ASSUME NEW j \in LayerKeys, f[j] # None
      PROVE  /\ f[j].until \in Nat /\ time < f[j].until
             /\ Young(j[1], f[j].value, 0, f[j].until - Ttl[j[1]])
    <2>1. CASE j = k BY <1>3, <2>1, FreshIsKept, KeyHasLayer
    <2>2. CASE j # k BY <1>3, <1>4, <2>2 DEF KeptAt
    <2> QED BY <2>1, <2>2
<1>5. KeptAt(f, time) BY <1>2, <1>4 DEF KeptAt
<1> QED BY <1>5 DEF f

LEMMA WeeklyPutsFit ==
    ASSUME NEW c \in Categories, NEW down, NEW k \in WeeklyPuts(c, down)
    PROVE  k \in LayerKeys /\ k[1] \in OfCategory /\ ~LayerHit(k)
<1>1. ~LayerHit(<<"weekly", c>>) BY DEF WeeklyPuts
<1>2. \/ k \in Missing({<<"points", c>>, <<"results", c>>})
      \/ k = <<"weekly", c>>
    BY <1>1 DEF WeeklyPuts
<1>3. \A l \in {"points", "results", "weekly"} :
          <<l, c>> \in LayerKeys /\ <<l, c>>[1] = l /\ l \in OfCategory
    BY KeysOfLayers DEF OfCategory
<1> QED BY <1>1, <1>2, <1>3 DEF Missing

LEMMA RankingPutsFit ==
    ASSUME NEW c \in Categories, NEW down, NEW k \in RankingPuts(c, down)
    PROVE  k \in LayerKeys /\ k[1] \in OfCategory /\ ~LayerHit(k)
<1>1. ~LayerHit(<<"ranking", c>>) BY DEF RankingPuts
<1>2. k \in WeeklyPuts(c, down) \/ k = <<"ranking", c>> BY <1>1 DEF RankingPuts
<1>3. <<"ranking", c>> \in LayerKeys /\ "ranking" \in OfCategory BY KeysOfLayers DEF OfCategory
<1> QED BY <1>1, <1>2, <1>3, WeeklyPutsFit

LEMMA LatestPutsFit ==
    ASSUME NEW c \in Categories, NEW down, NEW k \in LatestPuts(c, down)
    PROVE  k \in LayerKeys /\ k[1] \in OfCategory \cup {"matches"} /\ ~LayerHit(k)
<1>1. ~LayerHit(<<"latest", c>>) BY DEF LatestPuts
<1>2. k \in Missing({<<"matches", None>>}) \/ k = <<"latest", c>> BY <1>1 DEF LatestPuts
<1>3. /\ <<"latest", c>> \in LayerKeys /\ "latest" \in OfCategory
      /\ <<"matches", None>> \in LayerKeys
    BY KeysOfLayers DEF OfCategory
<1> QED BY <1>1, <1>2, <1>3 DEF Missing

LEMMA DashboardPutsFit ==
    ASSUME NEW c \in Categories, NEW v \in Views, NEW down, NEW k \in DashboardPuts(c, v, down)
    PROVE  /\ k \in LayerKeys /\ ~LayerHit(k)
           /\ k[1] \in OfCategory \cup {"matches", "dashboard"}
<1>1. \/ k \in Missing({<<"members", c>>})
      \/ k \in RankingPuts(c, down)
      \/ k \in LatestPuts(c, down)
      \/ k \in Missing({<<"stats", c>>, <<"dashboard", <<c, v>>>>})
    BY DEF DashboardPuts
<1>2. /\ <<"members", c>> \in LayerKeys /\ "members" \in OfCategory
      /\ <<"stats", c>> \in LayerKeys /\ "stats" \in OfCategory
      /\ <<"dashboard", <<c, v>>>> \in LayerKeys
    BY KeysOfLayers DEF OfCategory
<1>3. CASE k \in Missing({<<"members", c>>}) BY <1>2, <1>3 DEF Missing
<1>4. CASE k \in Missing({<<"stats", c>>, <<"dashboard", <<c, v>>>>}) BY <1>2, <1>4 DEF Missing
<1> QED BY <1>1, <1>3, <1>4, RankingPutsFit, LatestPutsFit

LEMMA PutsFit ==
    ASSUME NEW c \in Categories, NEW v \in Views, NEW down
    PROVE  Puttable(DashboardPuts(c, v, down))
<1>1. "categories" \notin OfCategory \cup {"matches", "dashboard"} BY DEF OfCategory
<1>2. "all" \notin OfCategory \cup {"matches", "dashboard"} BY DEF OfCategory
<1> QED BY <1>1, <1>2, DashboardPutsFit DEF Puttable

LEMMA WeeklyRead ==
    ASSUME DashboardInv, NEW c \in Categories, NEW down, ReadWeeklyRanking(c, down)
    PROVE  DashboardInv'
<1>1. KeptAt(Filled(WeeklyPuts(c, down)), time)
    <2>1. Puttable(WeeklyPuts(c, down))
        BY WeeklyPutsFit DEF Puttable, OfCategory
    <2> QED BY <2>1, FilledIsKept
<1>2. /\ entries' = Filled(WeeklyPuts(c, down)) /\ shown' = None
      /\ time' = time /\ enrolled' = enrolled
    BY DEF ReadWeeklyRanking
<1>3. KeptAt(entries', time') BY <1>1, <1>2
<1>4. PartsAreBounded' BY <1>2 DEF PartsAreBounded
<1> QED BY <1>2, <1>3, <1>4 DEF DashboardInv

LEMMA DashboardGot ==
    ASSUME DashboardInv, NEW c \in Categories, NEW v \in Views, NEW down,
           GetDashboard(c, v, down)
    PROVE  DashboardInv'
<1>1. KeptAt(Filled(DashboardPuts(c, v, down)), time) BY PutsFit, FilledIsKept
<1>2. /\ entries' = Filled(DashboardPuts(c, v, down))
      /\ time' = time /\ enrolled' = enrolled
    BY DEF GetDashboard
<1>3. DashboardWithin(GetOneDashboard(c, v), Age("dashboard"), time)
    BY DashboardNow DEF Young
<1>4. PartsAreBounded'
    <2>1. CASE shown' = [kind |-> "unavailable"] BY <2>1 DEF PartsAreBounded
    <2>2. CASE shown' = [kind |-> "dashboard", value |-> GetOneDashboard(c, v), at |-> time]
        <3>1. /\ shown'.kind = "dashboard" /\ shown'.value = GetOneDashboard(c, v)
              /\ shown'.at = time
            BY <2>2
        <3> QED BY <1>3, <3>1 DEF PartsAreBounded
    <2> QED BY <2>1, <2>2 DEF GetDashboard
<1>5. KeptAt(entries', time') BY <1>1, <1>2
<1> QED BY <1>2, <1>4, <1>5 DEF DashboardInv

LEMMA CategoriesFound ==
    ASSUME DashboardInv
    PROVE  FindMemberCategories \in SUBSET Categories
<1>1. Young("categories", enrolled, 0, time)
    BY ValuesAre DEF Young, Sources, DashboardInv
<1>2. <<"categories", None>> \in LayerKeys /\ <<"categories", None>>[1] = "categories"
    BY KeysOfLayers
<1>3. Young("categories", FindMemberCategories, Age("categories"), time)
    BY <1>1, <1>2, CachedIsYoung DEF FindMemberCategories
<1> QED BY <1>3, ValuesAre DEF Young

\* All of the categories, as their dashboards are now.
LEMMA AllNow ==
    ASSUME DashboardInv, NEW cats \in SUBSET Categories, NEW v \in Views
    PROVE  Young("all", [c \in cats |-> GetOneDashboard(c, v)], 0, time)
<1> DEFINE value == [c \in cats |-> GetOneDashboard(c, v)]
<1>1. \A c \in cats : /\ GetOneDashboard(c, v) \in Dashboards
                      /\ DashboardWithin(GetOneDashboard(c, v), Age("dashboard"), time)
    BY DashboardNow, ValuesAre DEF Young
<1>2. Age("dashboard") + 0 = Age("dashboard") BY TimesAre
<1>3. DOMAIN value = cats /\ \A c \in cats : value[c] = GetOneDashboard(c, v) OBVIOUS
<1>4. value \in [cats -> Dashboards] BY <1>1
<1> HIDE DEF value
<1>5. IsValue(value, "all") BY <1>3, <1>4, ValuesAre
<1>6. \A c \in DOMAIN value : DashboardWithin(value[c], Age("dashboard") + 0, time)
    BY <1>1, <1>2, <1>3
<1>7. Young("all", value, 0, time) BY <1>5, <1>6 DEF Young, Sources
<1> QED BY <1>7 DEF value

LEMMA AllGot ==
    ASSUME DashboardInv, NEW v \in Views, NEW down, GetMultiCategoryDashboard(v, down)
    PROVE  DashboardInv'
<1> DEFINE cats == FindMemberCategories
           lost == ~Readable(<<"categories", None>>, down)
           value == [c \in cats |-> GetOneDashboard(c, v)]
           puts == IF lost THEN {} ELSE UNION {DashboardPuts(c, v, down) : c \in cats}
           kept == IF lost \/ LayerHit(<<"categories", None>>) THEN Filled(puts)
                   ELSE [Filled(puts) EXCEPT ![<<"categories", None>>] = Fresh("categories", cats)]
           all == [kept EXCEPT ![<<"all", v>>] = Fresh("all", value)]
<1>1. cats \in SUBSET Categories BY CategoriesFound
<1>2. Young("all", value, 0, time) BY <1>1, AllNow
<1>3. Puttable(puts) BY <1>1, PutsFit DEF Puttable
<1>4. KeptAt(Filled(puts), time) BY <1>3, FilledIsKept
<1>5. Young("categories", cats, 0, time) BY <1>1, ValuesAre DEF Young, Sources
<1>6. /\ <<"categories", None>> \in LayerKeys /\ <<"categories", None>>[1] = "categories"
      /\ <<"all", v>> \in LayerKeys /\ <<"all", v>>[1] = "all"
    BY KeysOfLayers
<1>7. KeptAt([Filled(puts) EXCEPT ![<<"categories", None>>] = Fresh("categories", cats)], time)
    BY <1>4, <1>5, <1>6, OneMoreKept
<1>8. KeptAt(kept, time) BY <1>4, <1>7
<1>9. KeptAt(all, time) BY <1>2, <1>6, <1>8, OneMoreKept
<1>10. /\ time' = time /\ enrolled' = enrolled
       /\ \/ /\ LayerHit(<<"all", v>>) /\ entries' = entries
             /\ shown' = [kind |-> "all", value |-> entries[<<"all", v>>].value, at |-> time]
          \/ entries' = kept /\ shown' = [kind |-> "unavailable"]
          \/ entries' = all /\ shown' = [kind |-> "all", value |-> value, at |-> time]
    BY DEF GetMultiCategoryDashboard
<1> HIDE DEF cats, lost, value, puts, kept, all
<1>11. time' \in ReadTimes /\ enrolled' \in SUBSET Categories /\ KeptAt(entries', time')
    BY <1>8, <1>9, <1>10 DEF DashboardInv
<1>12. PartsAreBounded'
    <2>1. ASSUME NEW a, shown' = [kind |-> "all", value |-> a, at |-> time],
                 Young("all", a, Age("all"), time)
          PROVE  PartsAreBounded'
        <3>1. shown'.kind = "all" /\ shown'.value = a /\ shown'.at = time BY <2>1
        <3>2. \A c \in DOMAIN a : DashboardWithin(a[c], Age("dashboard") + Age("all"), time)
            BY <2>1 DEF Young
        <3> QED BY <3>1, <3>2 DEF PartsAreBounded
    <2>2. CASE /\ LayerHit(<<"all", v>>)
               /\ shown' = [kind |-> "all", value |-> entries[<<"all", v>>].value, at |-> time]
        BY <1>6, <2>1, <2>2, HitIsYoung
    <2>3. CASE shown' = [kind |-> "unavailable"] BY <2>3 DEF PartsAreBounded
    <2>4. CASE shown' = [kind |-> "all", value |-> value, at |-> time]
        <3>1. "all" \in Layers BY DEF Layers
        <3>2. Young("all", value, Age("all"), time) BY <1>2, <3>1, NowIsYoung
        <3> QED BY <2>1, <2>4, <3>2
    <2> QED BY <1>10, <2>2, <2>3, <2>4
<1> QED BY <1>11, <1>12 DEF DashboardInv

LEMMA CacheTicks ==
    ASSUME DashboardInv, DashboardTick
    PROVE  DashboardInv'
<1>1. /\ time' \in ReadTimes /\ enrolled' \in SUBSET Categories /\ shown' = None
    BY DashboardAssumption DEF DashboardTick, DashboardInv, ReadTimes
<1>2. \A k \in LayerKeys :
          \/ entries'[k] = None
          \/ entries'[k] = entries[k] /\ entries[k] # None /\ time' < entries[k].until
    BY DEF DashboardTick, EntryAlive
<1>3. entries' = [k \in LayerKeys |-> entries'[k]] BY DEF DashboardTick
<1>4. KeptAt(entries', time') BY <1>2, <1>3 DEF DashboardInv, KeptAt
<1>5. PartsAreBounded' BY <1>1 DEF PartsAreBounded
<1> QED BY <1>1, <1>4, <1>5 DEF DashboardInv

LEMMA CachesEmptied ==
    ASSUME DashboardInv, InvalidateCaches
    PROVE  DashboardInv'
<1>1. \A k \in LayerKeys : entries'[k] = None \/ entries'[k] = entries[k]
    BY DEF InvalidateCaches
<1>2. entries' = [k \in LayerKeys |-> entries'[k]] BY DEF InvalidateCaches
<1>3. time' = time /\ enrolled' = enrolled /\ shown' = None BY DEF InvalidateCaches
<1>4. KeptAt(entries', time') BY <1>1, <1>2, <1>3 DEF DashboardInv, KeptAt
<1>5. PartsAreBounded' BY <1>3 DEF PartsAreBounded
<1> QED BY <1>3, <1>4, <1>5 DEF DashboardInv

LEMMA DashboardHolds == DashboardSpec => []DashboardInv
<1>1. DashboardInit => DashboardInv
    <2>1. 0 \in ReadTimes BY DashboardAssumption DEF ReadTimes
    <2> QED BY <2>1 DEF DashboardInit, DashboardInv, KeptAt, PartsAreBounded
<1>2. DashboardInv /\ [DashboardNext]_dashboardVars => DashboardInv'
    <2>1. CASE \E cats \in SUBSET Categories : Enrol(cats)
        BY <2>1 DEF Enrol, DashboardInv, PartsAreBounded
    <2>2. CASE UNCHANGED dashboardVars
        BY <2>2 DEF dashboardVars, DashboardInv, PartsAreBounded
    <2> QED BY <2>1, <2>2, WeeklyRead, DashboardGot, AllGot, CacheTicks, CachesEmptied
            DEF DashboardNext
<1> QED BY <1>1, <1>2, PTL DEF DashboardSpec

\* No part of a dashboard is older than the caches it came through allow
\* together, for any categories and views, any time each layer lives and any
\* sets of reads that fail at once (getDashboardForAllCategories and below).
THEOREM AgesAddUp == DashboardSpec => []PartsAreBounded
<1>1. DashboardInv => PartsAreBounded BY DEF DashboardInv
<1> QED BY <1>1, DashboardHolds, PTL
===============================================================================
