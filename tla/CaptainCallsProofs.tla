-------------------------- MODULE CaptainCallsProofs --------------------------
(***************************************************************************)
(* For any number of players, requests served at once, sendings and        *)
(* decisions: whom a convocation asks was told, a reply by link answers    *)
(* the sending of its link, and the last decision on a player stands.  The *)
(* second part is about CaptainAccounts: what is taken away from a captain *)
(* is lost when a token or a look-up has run out.                          *)
(***************************************************************************)
EXTENDS CaptainCalls, CaptainAccounts, TLAPS

-------------------------------------------------------------------------------
(* The inductive invariant.                                                *)

Notifying(r) == Doing(r, {"send"}, "notify")
Decides(r)   == Doing(r, Deciding, "write")
Numbers      == {e.number : e \in ended}

\* What a sending has read, and what is stored of it, are the starters of
\* the line-up unless it was saved again.
StartersInv ==
    /\ \A r \in Requests : Doing(r, {"send"}, "upsert") =>
        /\ request[r].saved <= lineup.saved
        /\ request[r].saved = lineup.saved => request[r].starters = lineup.starters
    /\ call # None =>
        /\ call.saved <= lineup.saved
        /\ call.saved = lineup.saved => DOMAIN call.replies = lineup.starters

\* Whoever was told, tells or replies, does so of a convocation.
StoredInv ==
    /\ \A p \in Players : told[p] # 0 => call # None
    /\ \A r \in Requests :
        Notifying(r) \/ (~Free(r) /\ request[r].op \in Replying) => call # None

\* Sendings that do not overlap run one after the other, and what is told is
\* what is stored.
AloneInv ==
    ~overlapped =>
        /\ \A r, s \in Sending : r = s
        /\ \A r \in Requests : Notifying(r) => request[r].sending = call.sending

\* Who is asked was told, is being told or is known to be lost.
Tells(r, p) ==
    Notifying(r) /\ request[r].sending = call.sending /\ p \in request[r].starters
ToldInv ==
    call # None => \A p \in DOMAIN call.replies :
        told[p] = call.sending \/ p \in lost \/ overlapped \/ \E r \in Requests : Tells(r, p)

\* A reply by link that no sending has crossed was checked for the stored one.
LinkInv ==
    \A r \in Requests : Doing(r, {"respondPublic"}, "write") /\ r \notin crossed =>
        call.sending = request[r].seen

\* A decision that is under way has a number of its own, and it began after
\* decisions that have ended.
NumbersInv ==
    /\ Numbers \subseteq 1 .. decisions
    /\ \A e \in ended :
        e.after \subseteq Numbers /\ poll # None /\ e.player \in DOMAIN poll
    /\ \A r \in Requests : Decides(r) =>
        /\ request[r].number \in (1 .. decisions) \ Numbers
        /\ request[r].after \subseteq Numbers
        /\ poll # None /\ request[r].player \in DOMAIN poll
    /\ \A r, s \in Requests : Decides(r) /\ Decides(s) /\ r # s =>
        request[r].number # request[s].number

CallInv == StartersInv /\ StoredInv /\ AloneInv /\ ToldInv /\ LinkInv /\ LinkAnswersItsSending
PollInv == NumbersInv /\ LastDecisionStands
IInv    == TypeOK /\ CallInv /\ PollInv

-------------------------------------------------------------------------------
(* Requests and rows.                                                      *)

\* What a request does tells its fields.
LEMMA Kinds ==
    ASSUME TypeOK, NEW r \in Requests, ~Free(r)
    PROVE  /\ request[r] \in Request /\ request[r] # None
           /\ request[r].op = "send" => request[r] \in SendRequest
           /\ request[r].op \in Replying => request[r] \in ReplyRequest
           /\ request[r].op \in {"create", "remind"} => request[r] \in PollRequest
           /\ request[r].op \in Deciding => request[r] \in OpinionRequest
<1>1. request[r] \in Request /\ request[r] # None BY DEF TypeOK, Free
<1> QED
    BY <1>1 DEF Request, SendRequest, ReplyRequest, PollRequest, OpinionRequest,
                Replying, Deciding

LEMMA RequestParts ==
    /\ SendRequest \subseteq Request /\ ReplyRequest \subseteq Request
    /\ PollRequest \subseteq Request /\ OpinionRequest \subseteq Request
    /\ None \notin Request /\ None \notin CallRow /\ None \notin PollRow
    /\ None \notin Notes
BY NoneAssumption DEF Request

LEMMA Begun ==
    ASSUME TypeOK, NEW r \in Requests, NEW q \in Request \cup {None}, Begin(r, q)
    PROVE  /\ request' \in [Requests -> Request \cup {None}]
           /\ \A s \in Requests : request'[s] = IF s = r THEN q ELSE request[s]
BY DEF TypeOK, Begin

LEMMA CallFields ==
    ASSUME TypeOK, call # None
    PROVE  /\ call \in CallRow
           /\ call.sending \in Sendings /\ call.link \in BOOLEAN /\ call.saved \in Nat
           /\ DOMAIN call.replies \subseteq Players
           /\ call.replies \in [DOMAIN call.replies -> Reply]
<1>1. call \in CallRow BY DEF TypeOK
<1>2. /\ call.replies \in UNION {[S -> Reply] : S \in SUBSET Players}
      /\ call.sending \in Sendings /\ call.link \in BOOLEAN /\ call.saved \in Nat
    BY <1>1 DEF CallRow
<1>3. PICK S \in SUBSET Players : call.replies \in [S -> Reply] BY <1>2
<1> QED BY <1>1, <1>2, <1>3

LEMMA PollFields ==
    ASSUME TypeOK, poll # None
    PROVE  /\ poll \in PollRow /\ DOMAIN poll \subseteq Players
           /\ poll \in [DOMAIN poll -> Opinion]
<1>1. poll \in PollRow BY DEF TypeOK
<1>2. PICK S \in SUBSET Players : poll \in [S -> Opinion] BY <1>1 DEF PollRow
<1> QED BY <1>1, <1>2

-------------------------------------------------------------------------------
(* Types.                                                                  *)

LEMMA InitTypes == ASSUME Init PROVE TypeOK
<1>1. 0 \in Sendings /\ 0 \in Decisions BY BoundsAssumption DEF Sendings, Decisions
<1>2. lineup \in [starters : SUBSET Players, saved : Nat] BY DEF Init
<1> QED BY <1>1, <1>2 DEF Init, TypeOK

\* What a request becomes at each step of it.
LEMMA SendShapes ==
    ASSUME TypeOK, NEW r \in Requests
    PROVE  /\ Send(r) =>
                [op |-> "send", at |-> "read", starters |-> {}, saved |-> 0,
                 exists |-> FALSE, sending |-> sends + 1] \in SendRequest
           /\ ReadLineup(r) =>
                LET q == [request[r] EXCEPT !.at = "upsert", !.starters = lineup.starters,
                                            !.saved = lineup.saved, !.exists = call # None]
                IN  /\ q \in SendRequest /\ q.at = "upsert" /\ q.op = "send"
                    /\ q.starters = lineup.starters /\ q.saved = lineup.saved
           /\ Upsert(r) =>
                LET q == [request[r] EXCEPT !.at = "notify"]
                IN  /\ q \in SendRequest /\ q.at = "notify" /\ q.op = "send"
                    /\ q.starters = request[r].starters
                    /\ q.sending = request[r].sending
<1>1. ASSUME Send(r)
      PROVE  [op |-> "send", at |-> "read", starters |-> {}, saved |-> 0,
              exists |-> FALSE, sending |-> sends + 1] \in SendRequest
    <2>1. sends + 1 \in Sendings
        BY <1>1, BoundsAssumption DEF Send, TypeOK, Sendings
    <2> QED BY <2>1 DEF SendRequest
<1>2. ASSUME Doing(r, {"send"}, "upsert") \/ Doing(r, {"send"}, "read")
      PROVE  request[r] \in SendRequest
    BY <1>2, Kinds DEF Doing
<1>3. lineup.starters \in SUBSET Players /\ lineup.saved \in Nat BY DEF TypeOK
<1>4. ASSUME ReadLineup(r)
      PROVE  LET q == [request[r] EXCEPT !.at = "upsert", !.starters = lineup.starters,
                                         !.saved = lineup.saved, !.exists = call # None]
             IN  /\ q \in SendRequest /\ q.at = "upsert" /\ q.op = "send"
                 /\ q.starters = lineup.starters /\ q.saved = lineup.saved
    BY <1>2, <1>3, <1>4 DEF ReadLineup, SendRequest
<1>5. ASSUME Upsert(r)
      PROVE  LET q == [request[r] EXCEPT !.at = "notify"]
             IN  /\ q \in SendRequest /\ q.at = "notify" /\ q.op = "send"
                 /\ q.starters = request[r].starters
                 /\ q.sending = request[r].sending
    BY <1>2, <1>5 DEF Upsert, SendRequest
<1> QED BY <1>1, <1>4, <1>5

LEMMA ReplyShapes ==
    ASSUME TypeOK, NEW r \in Requests
    PROVE  /\ \A p \in Players, op \in Replying, s \in Statuses : Respond(r, p, op, s) =>
                [op |-> op, at |-> "check", player |-> p, status |-> s, seen |-> told[p]]
                    \in ReplyRequest
           /\ Doing(r, Replying, "check") =>
                LET q == [request[r] EXCEPT !.at = "write"]
                IN  /\ q \in ReplyRequest /\ q.at = "write" /\ q.op = request[r].op
                    /\ q.seen = request[r].seen /\ q.player = request[r].player
           /\ Doing(r, Replying, "check") \/ Doing(r, Replying, "write") =>
                request[r] \in ReplyRequest
<1>1. Doing(r, Replying, "check") \/ Doing(r, Replying, "write") =>
        request[r] \in ReplyRequest
    BY Kinds DEF Doing
<1>2. \A p \in Players : told[p] \in Sendings BY DEF TypeOK
<1>3. \A p \in Players, op \in Replying, s \in Statuses :
        [op |-> op, at |-> "check", player |-> p, status |-> s, seen |-> told[p]]
            \in ReplyRequest
    BY <1>2 DEF ReplyRequest, Replying
<1>4. ASSUME Doing(r, Replying, "check")
      PROVE  LET q == [request[r] EXCEPT !.at = "write"]
             IN  /\ q \in ReplyRequest /\ q.at = "write" /\ q.op = request[r].op
                 /\ q.seen = request[r].seen /\ q.player = request[r].player
    BY <1>1, <1>4 DEF ReplyRequest
<1> QED BY <1>1, <1>3, <1>4

LEMMA PollShapes ==
    ASSUME TypeOK, NEW r \in Requests
    PROVE  /\ \A S \in SUBSET Players :
                [op |-> "create", at |-> "create", players |-> S] \in PollRequest
           /\ Doing(r, {"create"}, "create") =>
                LET q == [request[r] EXCEPT !.at = "notify"]
                IN  /\ q \in PollRequest /\ q.op = "create"
                    /\ request[r].players \in SUBSET Players
           /\ poll # None =>
                [op |-> "remind", at |-> "notify",
                 players |-> {p \in DOMAIN poll : poll[p].status = "pending"}] \in PollRequest
           /\ Doing(r, Deciding, "write") => request[r] \in OpinionRequest
<1>1. Doing(r, {"create"}, "create") => request[r] \in PollRequest
    BY Kinds DEF Doing
<1>2. Doing(r, Deciding, "write") => request[r] \in OpinionRequest
    BY Kinds DEF Doing
<1>3. ASSUME Doing(r, {"create"}, "create")
      PROVE  LET q == [request[r] EXCEPT !.at = "notify"]
             IN  /\ q \in PollRequest /\ q.op = "create"
                 /\ request[r].players \in SUBSET Players
    BY <1>1, <1>3 DEF PollRequest, Doing
<1>4. \A S \in SUBSET Players :
        [op |-> "create", at |-> "create", players |-> S] \in PollRequest
    BY DEF PollRequest
<1>5. ASSUME poll # None
      PROVE  [op |-> "remind", at |-> "notify",
              players |-> {p \in DOMAIN poll : poll[p].status = "pending"}] \in PollRequest
    <2>1. {p \in DOMAIN poll : poll[p].status = "pending"} \in SUBSET Players
        BY <1>5, PollFields
    <2> QED BY <2>1 DEF PollRequest
<1> QED BY <1>2, <1>3, <1>4, <1>5

\* The rows that are written.
LEMMA RowShapes ==
    ASSUME TypeOK, NEW r \in Requests
    PROVE  /\ Doing(r, {"send"}, "upsert") =>
                LET q == request[r]
                    c == [sending |-> q.sending, link |-> TRUE, saved |-> q.saved,
                          replies |-> Replies(q.starters)]
                IN  /\ c \in CallRow /\ c # None /\ DOMAIN c.replies = q.starters
                    /\ \A p \in q.starters : c.replies[p].link = FALSE
           /\ Doing(r, Replying, "write") /\ call # None
                /\ request[r].player \in DOMAIN call.replies =>
                LET q == request[r]
                    v == [status |-> q.status, of |-> q.seen,
                          link |-> q.op = "respondPublic" /\ r \notin crossed]
                    c == [call EXCEPT !.replies[q.player] = v]
                IN  /\ c \in CallRow /\ c # None
                    /\ DOMAIN c.replies = DOMAIN call.replies
                    /\ \A p \in DOMAIN call.replies :
                        c.replies[p] = IF p = q.player THEN v ELSE call.replies[p]
                    /\ c.sending = call.sending /\ c.saved = call.saved
<1>1. ASSUME Doing(r, {"send"}, "upsert")
      PROVE  LET q == request[r]
                 c == [sending |-> q.sending, link |-> TRUE, saved |-> q.saved,
                       replies |-> Replies(q.starters)]
             IN  /\ c \in CallRow /\ c # None /\ DOMAIN c.replies = q.starters
                 /\ \A p \in q.starters : c.replies[p].link = FALSE
    <2>1. request[r] \in SendRequest BY <1>1, Kinds DEF Doing
    <2>2. /\ request[r].sending \in Sendings /\ request[r].saved \in Nat
          /\ request[r].starters \in SUBSET Players
        BY <2>1 DEF SendRequest
    <2>3. [status |-> "pending", of |-> 0, link |-> FALSE] \in Reply
        BY BoundsAssumption DEF Reply, Status, Sendings
    <2>4. Replies(request[r].starters) \in [request[r].starters -> Reply]
        BY <2>3 DEF Replies, Pending
    <2>5. \A p \in request[r].starters : Replies(request[r].starters)[p].link = FALSE
        BY DEF Replies, Pending
    <2> DEFINE f == Replies(request[r].starters)
    <2>6. f \in UNION {[S -> Reply] : S \in SUBSET Players}
        BY <2>2, <2>4
    <2>7. DOMAIN f = request[r].starters BY <2>4
    <2> HIDE DEF f
    <2>8. [sending |-> request[r].sending, link |-> TRUE, saved |-> request[r].saved,
           replies |-> f] \in CallRow
        BY <2>2, <2>6 DEF CallRow
    <2> QED BY <2>5, <2>7, <2>8, RequestParts DEF f
<1>2. ASSUME Doing(r, Replying, "write"), call # None,
             request[r].player \in DOMAIN call.replies
      PROVE  LET q == request[r]
                 v == [status |-> q.status, of |-> q.seen,
                       link |-> q.op = "respondPublic" /\ r \notin crossed]
                 c == [call EXCEPT !.replies[q.player] = v]
             IN  /\ c \in CallRow /\ c # None
                 /\ DOMAIN c.replies = DOMAIN call.replies
                 /\ \A p \in DOMAIN call.replies :
                     c.replies[p] = IF p = q.player THEN v ELSE call.replies[p]
                 /\ c.sending = call.sending /\ c.saved = call.saved
    <2> DEFINE q == request[r]
               b == q.op = "respondPublic" /\ r \notin crossed
               v == [status |-> q.status, of |-> q.seen, link |-> b]
               D == DOMAIN call.replies
               f == [call.replies EXCEPT ![q.player] = v]
               c == [call EXCEPT !.replies = f]
    <2>1. q \in ReplyRequest BY <1>2, Kinds DEF Doing
    <2>2. q.status \in Statuses /\ q.seen \in Sendings BY <2>1 DEF ReplyRequest
    <2>3. b \in BOOLEAN OBVIOUS
    <2>4. v \in Reply BY <2>2, <2>3 DEF Reply, Status
    <2>5. D \in SUBSET Players /\ call.replies \in [D -> Reply] /\ call \in CallRow
        BY <1>2, CallFields
    <2> HIDE DEF v
    <2>6. /\ f \in [D -> Reply]
          /\ \A p \in D : f[p] = IF p = q.player THEN v ELSE call.replies[p]
        BY <2>4, <2>5
    <2>7. f \in UNION {[S -> Reply] : S \in SUBSET Players} BY <2>5, <2>6
    <2> HIDE DEF f, D, q
    <2>8. /\ c \in CallRow /\ c.replies = f /\ c.sending = call.sending
          /\ c.saved = call.saved
        BY <2>5, <2>7 DEF CallRow
    <2>9. DOMAIN c.replies = D BY <2>6, <2>8
    <2>10. [call EXCEPT !.replies[q.player] = v] = c BY DEF f
    <2> QED BY <2>6, <2>8, <2>9, <2>10, RequestParts DEF v, D, q
<1> QED BY <1>1, <1>2

LEMMA DecideShapes ==
    ASSUME TypeOK, NEW r \in Requests, NEW p \in Players, NEW op \in Deciding,
           NEW s \in Statuses, NEW n \in Notes \cup {None}, decisions < MaxDecisions
    PROVE  [op |-> op, at |-> "write", player |-> p, status |-> s, note |-> n,
            number |-> decisions + 1, after |-> Numbers] \in OpinionRequest
<1>1. decisions + 1 \in Decisions BY BoundsAssumption DEF TypeOK, Decisions
<1>2. Numbers \subseteq Decisions BY DEF TypeOK, Numbers
<1> QED BY <1>1, <1>2 DEF OpinionRequest, Deciding

\* The row a decision writes.
LEMMA DecidedRow ==
    ASSUME TypeOK, NEW r \in Requests, WriteDecision(r), poll # None,
           request[r].player \in DOMAIN poll
    PROVE  /\ poll' \in PollRow /\ poll' # None /\ DOMAIN poll' = DOMAIN poll
           /\ \A p \in DOMAIN poll : p # request[r].player => poll'[p] = poll[p]
           /\ poll'[request[r].player].decision = request[r].number
<1> DEFINE q == request[r]
           v == [status |-> q.status,
                 note   |-> IF q.note = None THEN poll[q.player].note ELSE q.note,
                 source |-> IF q.op = "submit" THEN "player" ELSE "captain",
                 decision |-> q.number]
<1>1. q \in OpinionRequest BY PollShapes DEF WriteDecision
<1>2. poll[q.player] \in Opinion BY PollFields
<1>3. /\ q.status \in Status /\ q.number \in Decisions
      /\ poll[q.player].note \in Notes \cup {None} /\ q.note \in Notes \cup {None}
    BY <1>1, <1>2 DEF OpinionRequest, Opinion, Status
<1>4. v \in Opinion BY <1>3 DEF Opinion
<1>5. v.decision = q.number OBVIOUS
<1>6. poll' = [poll EXCEPT ![q.player] = v] BY DEF WriteDecision, MayWrite
<1> HIDE DEF v, q
<1>7. poll \in [DOMAIN poll -> Opinion] /\ DOMAIN poll \in SUBSET Players BY PollFields
<1>8. poll' \in [DOMAIN poll -> Opinion] BY <1>4, <1>6, <1>7
<1>9. poll' \in PollRow BY <1>7, <1>8 DEF PollRow
<1> QED BY <1>5, <1>6, <1>7, <1>8, <1>9, RequestParts DEF q

LEMMA ConvocationTypes ==
    ASSUME TypeOK, StoredInv, Convocation
    PROVE  TypeOK'
<1> USE DEF polls
<1>1. CASE \E S \in SUBSET Players \ {{}} : SaveLineup(S)
    BY <1>1 DEF SaveLineup, TypeOK
<1>2. CASE LinkExpires
    <2>1. call' \in CallRow BY <1>2, CallFields DEF LinkExpires, CallRow
    <2> QED BY <1>2, <2>1 DEF LinkExpires, TypeOK
<1>3. ASSUME NEW r \in Requests, Send(r) PROVE TypeOK'
    <2>1. request' \in [Requests -> Request \cup {None}]
        BY <1>3, SendShapes, RequestParts, Begun DEF Send
    <2>2. sends' \in Sendings BY <1>3, BoundsAssumption DEF Send, TypeOK, Sendings
    <2> QED BY <1>3, <2>1, <2>2 DEF Send, TypeOK
<1>4. ASSUME NEW r \in Requests, ReadLineup(r) PROVE TypeOK'
    <2>1. request' \in [Requests -> Request \cup {None}]
        BY <1>4, SendShapes, RequestParts, Begun DEF ReadLineup
    <2> QED BY <1>4, <2>1 DEF ReadLineup, TypeOK, calls
<1>5. ASSUME NEW r \in Requests, Upsert(r) PROVE TypeOK'
    <2>1. request' \in [Requests -> Request \cup {None}]
        BY <1>5, SendShapes, RequestParts, Begun DEF Upsert, End
    <2>2. call' \in CallRow \cup {None} BY <1>5, RowShapes DEF Upsert, TypeOK
    <2>3. crossed' \in SUBSET Requests BY <1>5 DEF Upsert, TypeOK
    <2> QED BY <1>5, <2>1, <2>2, <2>3 DEF Upsert, TypeOK
<1>6. ASSUME NEW r \in Requests, NEW S \in SUBSET Players, NotifyCall(r, S) PROVE TypeOK'
    <2>1. request' \in [Requests -> Request \cup {None}]
        BY <1>6, Begun DEF NotifyCall, End
    <2>2. request[r] \in SendRequest BY <1>6, Kinds DEF NotifyCall, Doing
    <2>3. request[r].starters \in SUBSET Players /\ request[r].sending \in Sendings
        BY <2>2 DEF SendRequest
    <2> QED BY <1>6, <2>1, <2>3 DEF NotifyCall, TypeOK, Recipients
<1>7. ASSUME NEW r \in Requests, NEW p \in Players, NEW op \in Replying, NEW s \in Statuses,
             Respond(r, p, op, s)
      PROVE  TypeOK'
    <2>1. request' \in [Requests -> Request \cup {None}]
        BY <1>7, ReplyShapes, RequestParts, Begun DEF Respond
    <2> QED BY <1>7, <2>1 DEF Respond, TypeOK, calls
<1>8. ASSUME NEW r \in Requests, CheckReply(r) PROVE TypeOK'
    <2>1. request' \in [Requests -> Request \cup {None}]
        BY <1>8, ReplyShapes, RequestParts, Begun DEF CheckReply, End
    <2> QED BY <1>8, <2>1 DEF CheckReply, TypeOK
<1>9. ASSUME NEW r \in Requests, WriteReply(r) PROVE TypeOK'
    <2>1. request' \in [Requests -> Request \cup {None}]
        BY <1>9, Begun DEF WriteReply, End
    <2>2. call # None BY <1>9 DEF StoredInv, WriteReply, Doing
    <2>3. call' \in CallRow \cup {None} BY <1>9, <2>2, RowShapes DEF WriteReply, TypeOK
    <2> QED BY <1>9, <2>1, <2>3 DEF WriteReply, TypeOK
<1> QED BY <1>1, <1>2, <1>3, <1>4, <1>5, <1>6, <1>7, <1>8, <1>9 DEF Convocation

LEMMA AvailabilityTypes ==
    ASSUME TypeOK, NumbersInv, Availability
    PROVE  TypeOK'
<1> USE DEF calls
<1>1. ASSUME NEW r \in Requests, NEW S \in SUBSET Players, Create(r, S) PROVE TypeOK'
    <2>1. request' \in [Requests -> Request \cup {None}]
        BY <1>1, PollShapes, RequestParts, Begun DEF Create
    <2> QED BY <1>1, <2>1 DEF Create, TypeOK, polls
<1>2. ASSUME NEW r \in Requests, NEW S \in SUBSET Players, NotifyPoll(r, S) PROVE TypeOK'
    <2>1. request' \in [Requests -> Request \cup {None}]
        BY <1>2, Begun DEF NotifyPoll, End
    <2> QED BY <1>2, <2>1 DEF NotifyPoll, TypeOK
<1>3. ASSUME NEW r \in Requests, InsertPoll(r) PROVE TypeOK'
    <2>1. request' \in [Requests -> Request \cup {None}]
        BY <1>3, PollShapes, RequestParts, Begun DEF InsertPoll, End
    <2>2. poll' \in PollRow \cup {None}
        <3>1. [status |-> "pending", note |-> None, source |-> "player", decision |-> 0] \in Opinion
            BY BoundsAssumption DEF Opinion, Status, Decisions
        <3>2. request[r].players \in SUBSET Players BY <1>3, PollShapes DEF InsertPoll
        <3>3. poll' = poll \/ poll' \in [request[r].players -> Opinion]
            BY <1>3, <3>1 DEF InsertPoll
        <3> QED BY <3>2, <3>3 DEF PollRow, TypeOK
    <2> QED BY <1>3, <2>1, <2>2 DEF InsertPoll, TypeOK
<1>4. ASSUME NEW r \in Requests, Remind(r) PROVE TypeOK'
    <2>1. request' \in [Requests -> Request \cup {None}]
        BY <1>4, PollShapes, RequestParts, Begun DEF Remind
    <2> QED BY <1>4, <2>1 DEF Remind, TypeOK, polls
<1>5. ASSUME NEW r \in Requests, WriteDecision(r) PROVE TypeOK'
    <2>1. request' \in [Requests -> Request \cup {None}]
        BY <1>5, Begun DEF WriteDecision, End
    <2>2. poll # None /\ request[r].player \in DOMAIN poll
        BY <1>5 DEF WriteDecision, NumbersInv, Decides
    <2>3. request[r] \in OpinionRequest BY <1>5, PollShapes DEF WriteDecision
    <2>4. ended' \in SUBSET [player : Players, number : Decisions, after : SUBSET Decisions]
        BY <1>5, <2>3 DEF WriteDecision, OpinionRequest, TypeOK
    <2> QED BY <1>5, <2>1, <2>2, <2>4, DecidedRow DEF WriteDecision, TypeOK
<1>6. ASSUME NEW r \in Requests, NEW p \in Players, NEW op \in Deciding, NEW s \in Statuses,
             NEW n \in Notes \cup {None}, Decide(r, p, op, s, n)
      PROVE  TypeOK'
    <2>1. request' \in [Requests -> Request \cup {None}]
        <3>1. CASE p \in DOMAIN poll
            BY <1>6, <3>1, DecideShapes, RequestParts, Begun DEF Decide, Numbers
        <3>2. CASE p \notin DOMAIN poll BY <1>6, <3>2 DEF Decide, TypeOK
        <3> QED BY <3>1, <3>2
    <2>2. decisions' \in Decisions BY <1>6, BoundsAssumption DEF Decide, TypeOK, Decisions
    <2> QED BY <1>6, <2>1, <2>2 DEF Decide, TypeOK
<1> QED BY <1>1, <1>2, <1>3, <1>4, <1>5, <1>6 DEF Availability

LEMMA CrashTypes == ASSUME TypeOK, Crash PROVE TypeOK'
<1>1. request' \in [Requests -> Request \cup {None}] BY DEF Crash
<1>2. \A r \in Sending : request[r].starters \in SUBSET Players
    BY Kinds DEF Sending, SendRequest
<1>3. lost' \in SUBSET Players BY <1>2 DEF Crash, TypeOK
<1> QED BY <1>1, <1>3 DEF Crash, TypeOK, polls

-------------------------------------------------------------------------------
(* The convocation.                                                        *)

Quiet(q) == q = None \/ q.op \notin {"send"} \cup Replying

LEMMA SaveLineupKeeps ==
    ASSUME TypeOK, CallInv, NEW S \in SUBSET Players, SaveLineup(S)
    PROVE  CallInv'
<1>1. lineup'.saved = lineup.saved + 1 /\ lineup.saved \in Nat
    BY DEF SaveLineup, TypeOK
<1>2. UNCHANGED <<call, told, sends, lost, overlapped, crossed, request>>
    BY DEF SaveLineup
<1>3. \A r \in Requests : Doing(r, {"send"}, "upsert") => request[r].saved \in Nat
    BY Kinds DEF Doing, SendRequest
<1>4. call # None => call.saved \in Nat BY CallFields
<1>5. StartersInv' BY <1>1, <1>2, <1>3, <1>4 DEF CallInv, StartersInv, Doing, Free
<1> QED
    BY <1>2, <1>5 DEF CallInv, StoredInv, AloneInv, ToldInv, Tells, LinkInv,
        LinkAnswersItsSending, Notifying, Doing, Free, Sending

LEMMA LinkExpiresKeeps ==
    ASSUME TypeOK, CallInv, LinkExpires
    PROVE  CallInv'
<1>1. UNCHANGED <<lineup, told, sends, lost, overlapped, crossed, request>> /\ call # None
    BY DEF LinkExpires
<1>2. /\ call' # None /\ call'.sending = call.sending /\ call'.saved = call.saved
      /\ call'.replies = call.replies
    <2>1. call' \in CallRow BY CallFields DEF LinkExpires, CallRow
    <2>2. call \in CallRow BY CallFields DEF LinkExpires
    <2> QED BY <2>1, <2>2, RequestParts DEF LinkExpires, CallRow
<1> QED
    BY <1>1, <1>2 DEF CallInv, StartersInv, StoredInv, AloneInv, ToldInv, Tells, LinkInv,
        LinkAnswersItsSending, Notifying, Doing, Free, Sending

\* A request for the poll begins, goes on or ends.
LEMMA QuietKeeps ==
    ASSUME TypeOK, CallInv, UNCHANGED calls, NEW r \in Requests,
           \A s \in Requests : s # r => request'[s] = request[s],
           Quiet(request[r]), Quiet(request'[r])
    PROVE  CallInv'
<1>1. \A s \in Requests : Doing(s, {"send"}, "upsert")' =>
        Doing(s, {"send"}, "upsert") /\ request'[s] = request[s]
    BY DEF Quiet, Doing, Free
<1>2. \A s \in Requests : Notifying(s)' <=> Notifying(s)
    BY DEF Quiet, Notifying, Doing, Free
<1>3. \A s \in Requests : Notifying(s) => request'[s] = request[s]
    BY DEF Quiet, Notifying, Doing, Free
<1>4. \A s \in Requests : request'[s] # None /\ request'[s].op \in Replying =>
        request'[s] = request[s]
    BY DEF Quiet
<1>5. Sending' = Sending BY DEF Sending, Quiet, Free
<1>6. UNCHANGED <<lineup, call, told, lost, overlapped, crossed>> BY DEF calls
<1>7. StartersInv' BY <1>1, <1>6 DEF CallInv, StartersInv
<1>8. StoredInv' BY <1>2, <1>4, <1>6 DEF CallInv, StoredInv, Free
<1>9. AloneInv' BY <1>2, <1>3, <1>5, <1>6 DEF CallInv, AloneInv
<1>10. ToldInv' BY <1>2, <1>3, <1>6 DEF CallInv, ToldInv, Tells
<1>11. LinkInv' BY <1>4, <1>6 DEF CallInv, LinkInv, Doing, Free, Replying
<1>12. LinkAnswersItsSending' BY <1>6 DEF CallInv, LinkAnswersItsSending
<1> QED BY <1>7, <1>8, <1>9, <1>10, <1>11, <1>12 DEF CallInv

LEMMA SendKeeps ==
    ASSUME TypeOK, CallInv, NEW r \in Requests, Send(r)
    PROVE  CallInv'
<1> DEFINE q == [op |-> "send", at |-> "read", starters |-> {}, saved |-> 0,
                 exists |-> FALSE, sending |-> sends + 1]
<1>1. \A s \in Requests : request'[s] = IF s = r THEN q ELSE request[s]
    BY SendShapes, RequestParts, Begun DEF Send
<1>2. q.op = "send" /\ q.at = "read" /\ q # None /\ Free(r)
    BY SendShapes, RequestParts DEF Send
<1>3. UNCHANGED <<lineup, call, told, lost, crossed>>
      /\ overlapped' = (overlapped \/ Sending # {})
    BY DEF Send
<1> HIDE DEF q
<1>4. \A s \in Requests : Notifying(s)' <=> Notifying(s)
    BY <1>1, <1>2 DEF Notifying, Doing, Free
<1>5. \A s \in Requests : Notifying(s) => request'[s] = request[s]
    BY <1>1, <1>2 DEF Notifying, Doing, Free
<1>6. Sending' = Sending \cup {r} BY <1>1, <1>2 DEF Sending, Free
<1>7. StartersInv' BY <1>1, <1>2, <1>3 DEF CallInv, StartersInv, Doing, Free
<1>8. StoredInv' BY <1>1, <1>2, <1>3, <1>4 DEF CallInv, StoredInv, Free, Replying
<1>9. AloneInv'
    <2> SUFFICES ASSUME ~overlapped' PROVE
                    /\ \A s, t \in Sending' : s = t
                    /\ \A s \in Requests : Notifying(s)' => request'[s].sending = call'.sending
        BY DEF AloneInv
    <2>1. ~overlapped /\ Sending = {} BY <1>3
    <2> QED BY <1>3, <1>4, <1>5, <1>6, <2>1 DEF CallInv, AloneInv
<1>10. ToldInv' BY <1>3, <1>4, <1>5 DEF CallInv, ToldInv, Tells
<1>11. LinkInv' BY <1>1, <1>2, <1>3 DEF CallInv, LinkInv, Doing, Free
<1>12. LinkAnswersItsSending' BY <1>3 DEF CallInv, LinkAnswersItsSending
<1> QED BY <1>7, <1>8, <1>9, <1>10, <1>11, <1>12 DEF CallInv

LEMMA ReadLineupKeeps ==
    ASSUME TypeOK, CallInv, NEW r \in Requests, ReadLineup(r)
    PROVE  CallInv'
<1> DEFINE q == [request[r] EXCEPT !.at = "upsert", !.starters = lineup.starters,
                                   !.saved = lineup.saved, !.exists = call # None]
<1>1. \A s \in Requests : request'[s] = IF s = r THEN q ELSE request[s]
    BY SendShapes, RequestParts, Begun DEF ReadLineup
<1>2. /\ q.op = "send" /\ q.at = "upsert" /\ q # None
      /\ q.starters = lineup.starters /\ q.saved = lineup.saved
    BY SendShapes, RequestParts
<1>3. UNCHANGED <<lineup, call, told, lost, overlapped, crossed>>
      /\ r \in Sending /\ request[r].at = "read" /\ lineup.saved \in Nat
    BY DEF ReadLineup, calls, Doing, Sending, TypeOK
<1> HIDE DEF q
<1>4. \A s \in Requests : Notifying(s)' <=> Notifying(s)
    BY <1>1, <1>2, <1>3 DEF Notifying, Doing, Free
<1>5. \A s \in Requests : Notifying(s) => request'[s] = request[s]
    BY <1>1, <1>3 DEF Notifying, Doing, Free
<1>6. Sending' = Sending BY <1>1, <1>2, <1>3 DEF Sending, Free
<1>7. StartersInv' BY <1>1, <1>2, <1>3 DEF CallInv, StartersInv, Doing, Free
<1>8. StoredInv' BY <1>1, <1>2, <1>3, <1>4 DEF CallInv, StoredInv, Free, Replying
<1>9. AloneInv' BY <1>3, <1>4, <1>5, <1>6 DEF CallInv, AloneInv
<1>10. ToldInv' BY <1>3, <1>4, <1>5 DEF CallInv, ToldInv, Tells
<1>11. LinkInv' BY <1>1, <1>2, <1>3 DEF CallInv, LinkInv, Doing, Free
<1>12. LinkAnswersItsSending' BY <1>3 DEF CallInv, LinkAnswersItsSending
<1> QED BY <1>7, <1>8, <1>9, <1>10, <1>11, <1>12 DEF CallInv

LEMMA UpsertKeeps ==
    ASSUME TypeOK, CallInv, NEW r \in Requests, Upsert(r)
    PROVE  CallInv'
<1>1. UNCHANGED <<lineup, told, lost, overlapped>> /\ Doing(r, {"send"}, "upsert")
      /\ r \in Sending
    BY DEF Upsert, Doing, Sending
<1>2. CASE ~request[r].exists /\ call # None
    <2>1. \A s \in Requests : request'[s] = IF s = r THEN None ELSE request[s]
        BY <1>2, Begun DEF Upsert, End
    <2>2. UNCHANGED <<call, crossed>> BY <1>2 DEF Upsert
    <2>3. \A s \in Requests : Notifying(s)' <=> Notifying(s)
        BY <1>1, <2>1 DEF Notifying, Doing, Free
    <2>4. \A s \in Requests : Notifying(s) => request'[s] = request[s]
        BY <1>1, <2>1 DEF Notifying, Doing, Free
    <2>5. Sending' = Sending \ {r} BY <2>1 DEF Sending, Free
    <2>6. StartersInv' BY <1>1, <2>1, <2>2 DEF CallInv, StartersInv, Doing, Free
    <2>7. StoredInv' BY <1>1, <2>1, <2>2, <2>3 DEF CallInv, StoredInv, Free
    <2>8. AloneInv' BY <1>1, <2>2, <2>3, <2>4, <2>5 DEF CallInv, AloneInv
    <2>9. ToldInv' BY <1>1, <2>2, <2>3, <2>4 DEF CallInv, ToldInv, Tells
    <2>10. LinkInv' BY <2>1, <2>2 DEF CallInv, LinkInv, Doing, Free
    <2>11. LinkAnswersItsSending' BY <2>2 DEF CallInv, LinkAnswersItsSending
    <2> QED BY <2>6, <2>7, <2>8, <2>9, <2>10, <2>11 DEF CallInv
<1>3. CASE ~(~request[r].exists /\ call # None)
    <2> DEFINE q == [request[r] EXCEPT !.at = "notify"]
               c == [sending |-> request[r].sending, link |-> TRUE, saved |-> request[r].saved,
                     replies |-> Replies(request[r].starters)]
    <2>1. \A s \in Requests : request'[s] = IF s = r THEN q ELSE request[s]
        BY <1>3, SendShapes, RequestParts, Begun DEF Upsert
    <2>2. /\ q.op = "send" /\ q.at = "notify" /\ q # None
          /\ q.starters = request[r].starters /\ q.sending = request[r].sending
        BY SendShapes, RequestParts
    <2>3. /\ call' = c
          /\ crossed' = {s \in Requests : Doing(s, Replying, "write")}
        BY <1>3 DEF Upsert
    <2>4. /\ c # None /\ DOMAIN c.replies = request[r].starters
          /\ \A p \in request[r].starters : c.replies[p].link = FALSE
        BY <1>1, RowShapes
    <2>5. c.sending = request[r].sending /\ c.saved = request[r].saved OBVIOUS
    <2> HIDE DEF q, c
    <2>6. \A s \in Requests : Notifying(s)' <=> Notifying(s) \/ s = r
        BY <1>1, <2>1, <2>2 DEF Notifying, Doing, Free
    <2>7. Sending' = Sending BY <1>1, <2>1, <2>2 DEF Sending, Free
    <2>8. StartersInv'
        BY <1>1, <2>1, <2>2, <2>3, <2>4, <2>5 DEF CallInv, StartersInv, Doing, Free
    <2>9. StoredInv' BY <2>3, <2>4 DEF StoredInv
    <2>10. AloneInv'
        BY <1>1, <2>1, <2>2, <2>3, <2>5, <2>6, <2>7
        DEF CallInv, AloneInv, Notifying, Doing, Sending
    <2>11. ToldInv'
        <3> SUFFICES ASSUME NEW p \in DOMAIN call'.replies PROVE Tells(r, p)'
            BY DEF ToldInv
        <3> QED BY <2>1, <2>2, <2>3, <2>4, <2>5, <2>6 DEF Tells
    <2>12. LinkInv'
        <3> SUFFICES ASSUME NEW s \in Requests, Doing(s, {"respondPublic"}, "write")'
                     PROVE  s \in crossed'
            BY DEF LinkInv
        <3> QED BY <2>1, <2>2, <2>3 DEF Doing, Free, Replying
    <2>13. LinkAnswersItsSending' BY <2>3, <2>4 DEF LinkAnswersItsSending
    <2> QED BY <2>8, <2>9, <2>10, <2>11, <2>12, <2>13 DEF CallInv
<1> QED BY <1>2, <1>3

LEMMA NotifyCallKeeps ==
    ASSUME TypeOK, CallInv, NEW r \in Requests, NEW S \in SUBSET Players, NotifyCall(r, S)
    PROVE  CallInv'
<1> DEFINE q == request[r]
<1>1. \A s \in Requests : request'[s] = IF s = r THEN None ELSE request[s]
    BY Begun DEF NotifyCall, End
<1>2. UNCHANGED <<lineup, call, overlapped, crossed>> /\ Notifying(r) /\ r \in Sending
    BY DEF NotifyCall, Notifying, Doing, Sending
<1>3. /\ \A p \in Players : told'[p] = IF p \in S THEN q.sending ELSE told[p]
      /\ lost' = (lost \ S) \cup (q.starters \ S)
    BY DEF NotifyCall, Recipients
<1>4. call # None BY <1>2 DEF CallInv, StoredInv
<1>5. \A s \in Requests : Notifying(s)' <=> Notifying(s) /\ s # r
    BY <1>1 DEF Notifying, Doing, Free
<1>6. \A s \in Requests : Notifying(s) /\ s # r => request'[s] = request[s]
    BY <1>1
<1>7. Sending' = Sending \ {r} BY <1>1 DEF Sending, Free
<1>8. StartersInv' BY <1>1, <1>2 DEF CallInv, StartersInv, Doing, Free
<1>9. StoredInv' BY <1>2, <1>4 DEF StoredInv
<1>10. AloneInv' BY <1>2, <1>5, <1>6, <1>7 DEF CallInv, AloneInv
<1>11. ToldInv'
    <2> SUFFICES ASSUME NEW p \in DOMAIN call.replies, ~overlapped
                 PROVE  \/ told'[p] = call.sending \/ p \in lost'
                        \/ \E s \in Requests : Tells(s, p)'
        BY <1>2 DEF ToldInv
    <2>1. p \in Players BY <1>4, CallFields
    <2>2. q.sending = call.sending BY <1>2 DEF CallInv, AloneInv
    <2>3. CASE p \in S BY <1>3, <2>1, <2>2, <2>3
    <2>4. CASE p \notin S
        <3>1. CASE told[p] = call.sending \/ p \in lost BY <1>3, <2>1, <2>4, <3>1
        <3>2. CASE \E s \in Requests : Tells(s, p)
            <4>1. PICK s \in Requests : Tells(s, p) BY <3>2
            <4>2. s \in Sending BY <4>1 DEF Tells, Notifying, Doing, Sending
            <4>3. s = r BY <1>2, <4>2 DEF CallInv, AloneInv
            <4> QED BY <1>3, <2>4, <4>1, <4>3 DEF Tells
        <3> QED BY <1>4, <3>1, <3>2 DEF CallInv, ToldInv
    <2> QED BY <2>3, <2>4
<1>12. LinkInv' BY <1>1, <1>2 DEF CallInv, LinkInv, Doing, Free
<1>13. LinkAnswersItsSending' BY <1>2 DEF CallInv, LinkAnswersItsSending
<1> QED BY <1>8, <1>9, <1>10, <1>11, <1>12, <1>13 DEF CallInv

\* A reply is received, checked or written: the sendings do not notice.
LEMMA ReplyingKeeps ==
    ASSUME TypeOK, CallInv, NEW r \in Requests,
           Quiet(request[r]) \/ request[r].op \in Replying,
           Quiet(request'[r]) \/ request'[r].op \in Replying,
           \A s \in Requests : s # r => request'[s] = request[s],
           UNCHANGED <<lineup, told, lost, overlapped>>,
           call # None, call' # None, call'.sending = call.sending, call'.saved = call.saved,
           DOMAIN call'.replies = DOMAIN call.replies
    PROVE  StartersInv' /\ StoredInv' /\ AloneInv' /\ ToldInv'
<1>1. \A s \in Requests : Doing(s, {"send"}, "upsert")' =>
        Doing(s, {"send"}, "upsert") /\ request'[s] = request[s]
    BY DEF Quiet, Doing, Free, Replying
<1>2. \A s \in Requests : Notifying(s)' <=> Notifying(s)
    BY DEF Quiet, Notifying, Doing, Free, Replying
<1>3. \A s \in Requests : Notifying(s) => request'[s] = request[s]
    BY DEF Quiet, Notifying, Doing, Free, Replying
<1>4. Sending' = Sending BY DEF Sending, Quiet, Free, Replying
<1>5. StartersInv' BY <1>1 DEF CallInv, StartersInv
<1>6. StoredInv' BY DEF StoredInv
<1>7. AloneInv' BY <1>2, <1>3, <1>4 DEF CallInv, AloneInv
<1>8. ToldInv' BY <1>2, <1>3 DEF CallInv, ToldInv, Tells
<1> QED BY <1>5, <1>6, <1>7, <1>8

LEMMA RespondKeeps ==
    ASSUME TypeOK, CallInv, NEW r \in Requests, NEW p \in Players, NEW op \in Replying,
           NEW s \in Statuses, Respond(r, p, op, s)
    PROVE  CallInv'
<1> DEFINE q == [op |-> op, at |-> "check", player |-> p, status |-> s, seen |-> told[p]]
<1>1. \A t \in Requests : request'[t] = IF t = r THEN q ELSE request[t]
    BY ReplyShapes, RequestParts, Begun DEF Respond
<1>2. q.op \in Replying /\ q.at = "check" OBVIOUS
<1>3. call # None BY DEF Respond, CallInv, StoredInv
<1>4. UNCHANGED calls /\ Quiet(request[r]) BY DEF Respond, Quiet, Free
<1> HIDE DEF q
<1>5. StartersInv' /\ StoredInv' /\ AloneInv' /\ ToldInv'
    BY <1>1, <1>2, <1>3, <1>4, ReplyingKeeps DEF calls
<1>6. LinkInv' BY <1>1, <1>2, <1>4 DEF CallInv, LinkInv, Doing, Free, calls
<1>7. LinkAnswersItsSending' BY <1>4 DEF CallInv, LinkAnswersItsSending, calls
<1> QED BY <1>5, <1>6, <1>7 DEF CallInv

LEMMA CheckReplyKeeps ==
    ASSUME TypeOK, CallInv, NEW r \in Requests, CheckReply(r)
    PROVE  CallInv'
<1> DEFINE q == [request[r] EXCEPT !.at = "write"]
           ok == /\ request[r].op = "respondPublic" => call.link /\ LinkIsOf(request[r])
                 /\ request[r].player \in DOMAIN call.replies
<1>1. /\ Doing(r, Replying, "check") /\ call # None
      /\ UNCHANGED <<lineup, call, told, lost, overlapped>> /\ crossed' = crossed \ {r}
    BY DEF CheckReply, CallInv, StoredInv, Doing
<1>2. /\ q \in ReplyRequest /\ q.at = "write" /\ q.op = request[r].op
      /\ q.seen = request[r].seen
    BY <1>1, ReplyShapes
<1>3. \A t \in Requests : request'[t] = IF t # r THEN request[t] ELSE IF ok THEN q ELSE None
    <2>1. CASE ok BY <1>2, <2>1, RequestParts, Begun DEF CheckReply
    <2>2. CASE ~ok BY <2>2, Begun DEF CheckReply, End
    <2> QED BY <2>1, <2>2
<1>4. ok /\ request[r].op = "respondPublic" => call.sending = request[r].seen
    BY DEF LinkIsOf
<1> HIDE DEF q, ok
<1>5. request'[r] = None \/ request'[r].op \in Replying
    BY <1>1, <1>2, <1>3 DEF Doing
<1>6. StartersInv' /\ StoredInv' /\ AloneInv' /\ ToldInv'
    BY <1>1, <1>3, <1>5, ReplyingKeeps DEF Quiet, Doing
<1>7. LinkInv'
    <2> SUFFICES ASSUME NEW s \in Requests, Doing(s, {"respondPublic"}, "write")', s \notin crossed'
                 PROVE  call.sending = request'[s].seen
        BY <1>1 DEF LinkInv
    <2>1. CASE s = r BY <1>2, <1>3, <1>4, <2>1 DEF Doing, Free
    <2>2. CASE s # r BY <1>1, <1>3, <2>2 DEF CallInv, LinkInv, Doing, Free
    <2> QED BY <2>1, <2>2
<1>8. LinkAnswersItsSending' BY <1>1 DEF CallInv, LinkAnswersItsSending
<1> QED BY <1>6, <1>7, <1>8 DEF CallInv

LEMMA WriteReplyKeeps ==
    ASSUME TypeOK, CallInv, NEW r \in Requests, WriteReply(r)
    PROVE  CallInv'
<1> DEFINE q == request[r]
           v == [status |-> q.status, of |-> q.seen,
                 link |-> q.op = "respondPublic" /\ r \notin crossed]
           c == [call EXCEPT !.replies[q.player] = v]
<1>1. /\ Doing(r, Replying, "write") /\ call # None
      /\ UNCHANGED <<lineup, told, lost, overlapped, crossed>>
    BY DEF WriteReply, CallInv, StoredInv, Doing
<1>2. \A t \in Requests : request'[t] = IF t = r THEN None ELSE request[t]
    BY Begun DEF WriteReply, End
<1>3. /\ call' # None /\ call'.sending = call.sending /\ call'.saved = call.saved
      /\ DOMAIN call'.replies = DOMAIN call.replies
      /\ \A p \in DOMAIN call.replies : call'.replies[p] = call.replies[p]
            \/ call'.replies[p] = v
    <2>1. CASE q.player \in DOMAIN call.replies
        <3>1. call' = c BY <2>1 DEF WriteReply
        <3>2. /\ c \in CallRow /\ c # None
              /\ DOMAIN c.replies = DOMAIN call.replies
              /\ \A p \in DOMAIN call.replies :
                  c.replies[p] = IF p = q.player THEN v ELSE call.replies[p]
              /\ c.sending = call.sending /\ c.saved = call.saved
            BY <1>1, <2>1, RowShapes
        <3> HIDE DEF c, v
        <3> QED BY <3>1, <3>2
    <2>2. CASE q.player \notin DOMAIN call.replies BY <1>1, <2>2 DEF WriteReply
    <2> QED BY <2>1, <2>2
<1>4. StartersInv' /\ StoredInv' /\ AloneInv' /\ ToldInv'
    BY <1>1, <1>2, <1>3, ReplyingKeeps DEF Quiet, Doing
<1>5. LinkInv' BY <1>1, <1>2, <1>3 DEF CallInv, LinkInv, Doing, Free
<1>6. v.of = q.seen /\ (v.link <=> q.op = "respondPublic" /\ r \notin crossed) OBVIOUS
<1> HIDE DEF v
<1>7. v.link => v.of = call.sending
    BY <1>1, <1>6 DEF CallInv, LinkInv, Doing
<1>8. LinkAnswersItsSending'
    BY <1>1, <1>3, <1>7 DEF CallInv, LinkAnswersItsSending
<1> QED BY <1>4, <1>5, <1>8 DEF CallInv

LEMMA CrashKeeps == ASSUME TypeOK, CallInv, Crash PROVE CallInv'
<1>1. /\ \A r \in Requests : request'[r] = None
      /\ UNCHANGED <<lineup, call, told, overlapped>>
      /\ lost' = lost \cup UNION {request[r].starters :
                            r \in {s \in Sending : request[s].at = "notify"}}
    BY DEF Crash
<1>2. \A r \in Requests, p \in Players : Tells(r, p) => p \in lost'
    BY <1>1 DEF Tells, Notifying, Doing, Sending
<1>3. ToldInv' BY <1>1, <1>2, CallFields DEF CallInv, ToldInv
<1> QED
    BY <1>1, <1>3 DEF CallInv, StartersInv, StoredInv, AloneInv, LinkInv,
        LinkAnswersItsSending, Notifying, Doing, Free, Sending

LEMMA StepCall == ASSUME TypeOK, CallInv, [Next]_vars PROVE CallInv'
<1>1. CASE Convocation
    BY <1>1, SaveLineupKeeps, LinkExpiresKeeps, SendKeeps, ReadLineupKeeps, UpsertKeeps,
       NotifyCallKeeps, RespondKeeps, CheckReplyKeeps, WriteReplyKeeps DEF Convocation
<1>2. CASE Availability
    <2>1. PICK r \in Requests :
            \/ \E S \in SUBSET Players : Create(r, S) \/ NotifyPoll(r, S)
            \/ InsertPoll(r) \/ Remind(r) \/ WriteDecision(r)
            \/ \E p \in Players, op \in Deciding, s \in Statuses, n \in Notes \cup {None} :
                Decide(r, p, op, s, n)
        BY <1>2 DEF Availability
    <2>2. UNCHANGED calls
        BY <2>1 DEF Create, NotifyPoll, InsertPoll, Remind, WriteDecision, Decide
    <2>3. Quiet(request[r])
        BY <2>1 DEF Create, NotifyPoll, InsertPoll, Remind, WriteDecision, Decide,
            Quiet, Doing, Free, Deciding, Replying
    <2>4. (\A s \in Requests : s # r => request'[s] = request[s]) /\ Quiet(request'[r])
        <3>1. CASE \E S \in SUBSET Players : Create(r, S)
            BY <3>1 DEF Create, Begin, TypeOK, Quiet, Replying
        <3>2. CASE \E S \in SUBSET Players : NotifyPoll(r, S)
            BY <3>2 DEF NotifyPoll, End, Begin, TypeOK, Quiet
        <3>3. CASE InsertPoll(r)
            <4> DEFINE q == [request[r] EXCEPT !.at = "notify"]
            <4>1. q \in PollRequest /\ q.op = "create" BY <3>3, PollShapes DEF InsertPoll
            <4>2. Begin(r, q) \/ Begin(r, None) BY <3>3 DEF InsertPoll, End
            <4> HIDE DEF q
            <4> QED BY <4>1, <4>2 DEF Begin, TypeOK, Quiet, Replying
        <3>4. CASE Remind(r) BY <3>4 DEF Remind, Begin, TypeOK, Quiet, Replying
        <3>5. CASE WriteDecision(r) BY <3>5 DEF WriteDecision, End, Begin, TypeOK, Quiet
        <3>6. ASSUME NEW p \in Players, NEW op \in Deciding, NEW s \in Statuses,
                     NEW n \in Notes \cup {None}, Decide(r, p, op, s, n)
              PROVE  (\A t \in Requests : t # r => request'[t] = request[t]) /\ Quiet(request'[r])
            <4>1. CASE p \in DOMAIN poll
                BY <3>6, <4>1 DEF Decide, Begin, TypeOK, Quiet, Replying, Deciding
            <4>2. CASE p \notin DOMAIN poll
                BY <2>3, <3>6, <4>2 DEF Decide
            <4> QED BY <4>1, <4>2
        <3> QED BY <2>1, <3>1, <3>2, <3>3, <3>4, <3>5, <3>6
    <2> QED BY <2>2, <2>3, <2>4, QuietKeeps
<1>3. CASE Crash BY <1>3, CrashKeeps
<1>4. CASE UNCHANGED vars
    BY <1>4 DEF vars, calls, CallInv, StartersInv, StoredInv, AloneInv, ToldInv, Tells, LinkInv,
        LinkAnswersItsSending, Notifying, Doing, Free, Sending
<1> QED BY <1>1, <1>2, <1>3, <1>4 DEF Next

-------------------------------------------------------------------------------
(* The poll.                                                               *)

Aside(q) == q = None \/ q.op \notin Deciding

\* A request that decides nothing begins, goes on or ends.
LEMMA AsideKeeps ==
    ASSUME PollInv, NEW r \in Requests, Aside(request[r]), Aside(request'[r]),
           \A s \in Requests : s # r => request'[s] = request[s],
           UNCHANGED <<ended, decisions>>, poll # None => poll' = poll
    PROVE  PollInv'
<1>1. \A s \in Requests : Decides(s)' <=> Decides(s)
    BY DEF Aside, Decides, Doing, Free
<1>2. \A s \in Requests : Decides(s) => request'[s] = request[s]
    BY DEF Aside, Decides, Doing, Free
<1>3. NumbersInv' BY <1>1, <1>2 DEF PollInv, NumbersInv, Numbers
<1>4. LastDecisionStands'
    BY DEF PollInv, NumbersInv, LastDecisionStands
<1> QED BY <1>3, <1>4 DEF PollInv

LEMMA ConvocationAside ==
    ASSUME TypeOK, PollInv, Convocation
    PROVE  PollInv'
<1>1. UNCHANGED <<poll, decisions, ended>>
    BY DEF Convocation, SaveLineup, LinkExpires, Send, ReadLineup, Upsert, NotifyCall,
        Respond, CheckReply, WriteReply, polls
<1>2. CASE request' = request
    BY <1>1, <1>2 DEF PollInv, NumbersInv, Numbers, Decides, Doing, Free, LastDecisionStands
<1>3. ASSUME NEW r \in Requests, NEW q \in Request \cup {None}, Begin(r, q), Aside(q),
             Aside(request[r])
      PROVE  PollInv'
    BY <1>1, <1>3, Begun, AsideKeeps
<1>4. ASSUME NEW r \in Requests, Send(r) PROVE PollInv'
    <2> DEFINE q == [op |-> "send", at |-> "read", starters |-> {}, saved |-> 0,
                     exists |-> FALSE, sending |-> sends + 1]
    <2>1. q \in Request /\ q.op = "send" /\ Begin(r, q) /\ Free(r)
        BY <1>4, SendShapes, RequestParts DEF Send
    <2> HIDE DEF q
    <2> QED BY <1>3, <2>1 DEF Aside, Deciding, Free
<1>5. ASSUME NEW r \in Requests, ReadLineup(r) PROVE PollInv'
    <2> DEFINE q == [request[r] EXCEPT !.at = "upsert", !.starters = lineup.starters,
                                       !.saved = lineup.saved, !.exists = call # None]
    <2>1. q \in SendRequest /\ q.op = "send" BY <1>5, SendShapes
    <2>2. q \in Request BY <2>1, RequestParts
    <2>3. Begin(r, q) /\ request[r].op = "send" BY <1>5 DEF ReadLineup, Doing
    <2> HIDE DEF q
    <2> QED BY <1>3, <2>1, <2>2, <2>3 DEF Aside, Deciding
<1>6. ASSUME NEW r \in Requests, Upsert(r) PROVE PollInv'
    <2> DEFINE q == [request[r] EXCEPT !.at = "notify"]
    <2>1. q \in SendRequest /\ q.op = "send" BY <1>6, SendShapes
    <2>2. q \in Request BY <2>1, RequestParts
    <2>3. (Begin(r, q) \/ Begin(r, None)) /\ request[r].op = "send"
        BY <1>6 DEF Upsert, Doing, End
    <2> HIDE DEF q
    <2> QED BY <1>3, <2>1, <2>2, <2>3 DEF Aside, Deciding
<1>7. ASSUME NEW r \in Requests, NEW S \in SUBSET Players, NotifyCall(r, S) PROVE PollInv'
    <2>1. Begin(r, None) /\ request[r].op = "send" BY <1>7 DEF NotifyCall, Doing, End
    <2> QED BY <1>3, <2>1 DEF Aside, Deciding
<1>8. ASSUME NEW r \in Requests, NEW p \in Players, NEW op \in Replying, NEW s \in Statuses,
             Respond(r, p, op, s)
      PROVE  PollInv'
    <2> DEFINE q == [op |-> op, at |-> "check", player |-> p, status |-> s, seen |-> told[p]]
    <2>1. q \in Request /\ q.op \in Replying /\ Begin(r, q) /\ Free(r)
        BY <1>8, ReplyShapes, RequestParts DEF Respond
    <2> HIDE DEF q
    <2> QED BY <1>3, <2>1 DEF Aside, Deciding, Replying, Free
<1>9. ASSUME NEW r \in Requests, CheckReply(r) PROVE PollInv'
    <2> DEFINE q == [request[r] EXCEPT !.at = "write"]
    <2>1. q \in ReplyRequest /\ q.op = request[r].op BY <1>9, ReplyShapes DEF CheckReply
    <2>2. q \in Request BY <2>1, RequestParts
    <2>3. (Begin(r, q) \/ Begin(r, None)) /\ request[r].op \in Replying
        BY <1>9 DEF CheckReply, Doing, End
    <2> HIDE DEF q
    <2> QED BY <1>3, <2>1, <2>2, <2>3 DEF Aside, Deciding, Replying
<1>10. ASSUME NEW r \in Requests, WriteReply(r) PROVE PollInv'
    <2>1. Begin(r, None) /\ request[r].op \in Replying BY <1>10 DEF WriteReply, Doing, End
    <2> QED BY <1>3, <2>1 DEF Aside, Deciding, Replying
<1> QED
    BY <1>2, <1>4, <1>5, <1>6, <1>7, <1>8, <1>9, <1>10
    DEF Convocation, SaveLineup, LinkExpires

\* The steps of the poll that decide nothing.
LEMMA PollingKeeps ==
    ASSUME TypeOK, PollInv, NEW r \in Requests,
           \/ \E S \in SUBSET Players : Create(r, S) \/ NotifyPoll(r, S)
           \/ InsertPoll(r) \/ Remind(r)
    PROVE  PollInv'
<1>1. UNCHANGED <<decisions, ended>> /\ (poll # None => poll' = poll)
    BY DEF Create, NotifyPoll, InsertPoll, KeyIsFree, Remind, polls
<1>2. ASSUME NEW q \in Request \cup {None}, Begin(r, q), Aside(q), Aside(request[r])
      PROVE  PollInv'
    BY <1>1, <1>2, Begun, AsideKeeps
<1>3. ASSUME NEW S \in SUBSET Players, Create(r, S) PROVE PollInv'
    <2> DEFINE q == [op |-> "create", at |-> "create", players |-> S]
    <2>1. q \in Request /\ q.op = "create" /\ Begin(r, q) /\ Free(r)
        BY <1>3, PollShapes, RequestParts DEF Create
    <2> HIDE DEF q
    <2> QED BY <1>2, <2>1 DEF Aside, Deciding, Free
<1>4. ASSUME NEW S \in SUBSET Players, NotifyPoll(r, S) PROVE PollInv'
    <2>1. Begin(r, None) /\ request[r].op \in {"create", "remind"}
        BY <1>4 DEF NotifyPoll, Doing, End
    <2> QED BY <1>2, <2>1 DEF Aside, Deciding
<1>5. CASE InsertPoll(r)
    <2> DEFINE q == [request[r] EXCEPT !.at = "notify"]
    <2>1. q \in PollRequest /\ q.op = "create" BY <1>5, PollShapes DEF InsertPoll
    <2>2. q \in Request BY <2>1, RequestParts
    <2>3. (Begin(r, q) \/ Begin(r, None)) /\ request[r].op = "create"
        BY <1>5 DEF InsertPoll, Doing, End
    <2> HIDE DEF q
    <2> QED BY <1>2, <2>1, <2>2, <2>3 DEF Aside, Deciding
<1>6. CASE Remind(r)
    <2> DEFINE q == [op |-> "remind", at |-> "notify",
                     players |-> {p \in DOMAIN poll : poll[p].status = "pending"}]
    <2>1. q \in PollRequest /\ q.op = "remind" BY <1>6, PollShapes DEF Remind
    <2>2. q \in Request BY <2>1, RequestParts
    <2>3. Begin(r, q) /\ Free(r) BY <1>6 DEF Remind
    <2> HIDE DEF q
    <2> QED BY <1>2, <2>1, <2>2, <2>3 DEF Aside, Deciding, Free
<1> QED BY <1>3, <1>4, <1>5, <1>6

LEMMA DecideKeeps ==
    ASSUME TypeOK, PollInv, NEW r \in Requests, NEW p \in Players, NEW op \in Deciding,
           NEW s \in Statuses, NEW n \in Notes \cup {None}, Decide(r, p, op, s, n)
    PROVE  PollInv'
<1> DEFINE q == [op |-> op, at |-> "write", player |-> p, status |-> s, note |-> n,
                 number |-> decisions + 1, after |-> Numbers]
<1>1. /\ UNCHANGED <<poll, ended>> /\ decisions' = decisions + 1 /\ decisions \in Nat
      /\ poll # None /\ Free(r)
    BY DEF Decide, polls, TypeOK, Decisions
<1>2. LastDecisionStands' BY <1>1 DEF PollInv, LastDecisionStands
<1>3. Numbers' = Numbers /\ Numbers \subseteq 1 .. decisions
    BY <1>1 DEF Numbers, PollInv, NumbersInv
<1>4. (1 .. decisions) \subseteq 1 .. decisions' /\ decisions + 1 \in 1 .. decisions'
      /\ decisions + 1 \notin 1 .. decisions
    BY <1>1
<1>5. CASE p \notin DOMAIN poll
    <2>1. request' = request BY <1>5 DEF Decide
    <2>2. NumbersInv' BY <1>1, <1>3, <1>4, <2>1 DEF PollInv, NumbersInv, Decides, Doing, Free
    <2> QED BY <1>2, <2>2 DEF PollInv
<1>6. CASE p \in DOMAIN poll
    <2>1. Begin(r, q) BY <1>6 DEF Decide, Numbers
    <2>2. q \in OpinionRequest BY DecideShapes DEF Decide
    <2>3. \A t \in Requests : request'[t] = IF t = r THEN q ELSE request[t]
        BY <2>1, <2>2, RequestParts, Begun
    <2>4. q.number = decisions + 1 /\ q.after = Numbers /\ q.player = p OBVIOUS
    <2> HIDE DEF q
    <2>5. \A t \in Requests : Decides(t)' /\ t # r => Decides(t) /\ request'[t] = request[t]
        BY <2>3 DEF Decides, Doing, Free
    <2>6. \A t \in Requests : Decides(t) => request[t].number # decisions + 1
        BY <1>4 DEF PollInv, NumbersInv
    <2>7. ASSUME NEW t \in Requests, Decides(t)'
          PROVE  /\ request'[t].number \in (1 .. decisions') \ Numbers'
                 /\ request'[t].after \subseteq Numbers'
                 /\ poll' # None /\ request'[t].player \in DOMAIN poll'
        <3>1. CASE t = r BY <1>1, <1>3, <1>4, <1>6, <2>3, <2>4, <3>1
        <3>2. CASE t # r BY <1>1, <1>3, <1>4, <2>5, <2>7, <3>2 DEF PollInv, NumbersInv
        <3> QED BY <3>1, <3>2
    <2>8. ASSUME NEW t \in Requests, NEW u \in Requests, Decides(t)', Decides(u)', t # u
          PROVE  request'[t].number # request'[u].number
        BY <2>3, <2>4, <2>5, <2>6, <2>8 DEF PollInv, NumbersInv
    <2>9. NumbersInv' BY <1>1, <1>3, <1>4, <2>7, <2>8 DEF PollInv, NumbersInv
    <2> QED BY <1>2, <2>9 DEF PollInv
<1> QED BY <1>5, <1>6

LEMMA WriteDecisionKeeps ==
    ASSUME TypeOK, PollInv, NEW r \in Requests, WriteDecision(r)
    PROVE  PollInv'
<1> DEFINE q == request[r]
           e == [player |-> q.player, number |-> q.number, after |-> q.after]
<1>1. Decides(r) BY DEF WriteDecision, Decides
<1>2. /\ q.number \in (1 .. decisions) \ Numbers /\ q.after \subseteq Numbers
      /\ poll # None /\ q.player \in DOMAIN poll
    BY <1>1 DEF PollInv, NumbersInv
<1>3. /\ poll' \in PollRow /\ poll' # None /\ DOMAIN poll' = DOMAIN poll
      /\ \A p \in DOMAIN poll : p # q.player => poll'[p] = poll[p]
      /\ poll'[q.player].decision = q.number
    BY <1>2, DecidedRow
<1>4. ended' = ended \cup {e} /\ decisions' = decisions
    BY DEF WriteDecision
<1>5. \A t \in Requests : request'[t] = IF t = r THEN None ELSE request[t]
    BY Begun DEF WriteDecision, End
<1>6. e.player = q.player /\ e.number = q.number /\ e.after = q.after OBVIOUS
<1> HIDE DEF e, q
<1>7. Numbers' = Numbers \cup {q.number} BY <1>4, <1>6 DEF Numbers
<1>8. \A t \in Requests : Decides(t)' => Decides(t) /\ t # r /\ request'[t] = request[t]
    BY <1>5 DEF Decides, Doing, Free
<1>9. \A t \in Requests : Decides(t) /\ t # r => request[t].number # q.number
    BY <1>1 DEF PollInv, NumbersInv, q
<1>10. NumbersInv'
    <2>1. Numbers' \subseteq 1 .. decisions'
        BY <1>2, <1>4, <1>7 DEF PollInv, NumbersInv
    <2>2. \A f \in ended' : f.after \subseteq Numbers' /\ poll' # None /\ f.player \in DOMAIN poll'
        BY <1>2, <1>3, <1>4, <1>6, <1>7 DEF PollInv, NumbersInv
    <2>3. \A t \in Requests : Decides(t)' =>
            /\ request'[t].number \in (1 .. decisions') \ Numbers'
            /\ request'[t].after \subseteq Numbers'
            /\ poll' # None /\ request'[t].player \in DOMAIN poll'
        BY <1>3, <1>4, <1>7, <1>8, <1>9 DEF PollInv, NumbersInv
    <2>4. \A t, u \in Requests : Decides(t)' /\ Decides(u)' /\ t # u =>
            request'[t].number # request'[u].number
        BY <1>8 DEF PollInv, NumbersInv
    <2> QED BY <2>1, <2>2, <2>3, <2>4 DEF NumbersInv
<1>11. LastDecisionStands'
    <2> SUFFICES ASSUME NEW f \in ended' PROVE poll'[f.player].decision \notin f.after
        BY DEF LastDecisionStands
    <2>1. f.after \subseteq Numbers /\ f.player \in DOMAIN poll
        BY <1>2, <1>4, <1>6 DEF PollInv, NumbersInv
    <2>2. CASE f.player = q.player BY <1>2, <1>3, <2>1, <2>2
    <2>3. CASE f.player # q.player
        <3>1. f \in ended BY <1>4, <1>6, <2>3
        <3> QED BY <1>2, <1>3, <2>1, <2>3, <3>1 DEF PollInv, LastDecisionStands
    <2> QED BY <2>2, <2>3
<1> QED BY <1>10, <1>11 DEF PollInv

LEMMA StepPoll == ASSUME TypeOK, PollInv, [Next]_vars PROVE PollInv'
<1>1. CASE Convocation BY <1>1, ConvocationAside
<1>2. CASE Availability
    BY <1>2, PollingKeeps, DecideKeeps, WriteDecisionKeeps DEF Availability
<1>3. CASE Crash
    BY <1>3 DEF Crash, polls, PollInv, NumbersInv, Numbers, Decides, Doing, Free,
        LastDecisionStands
<1>4. CASE UNCHANGED vars
    BY <1>4 DEF vars, polls, PollInv, NumbersInv, Numbers, Decides, Doing, Free,
        LastDecisionStands
<1> QED BY <1>1, <1>2, <1>3, <1>4 DEF Next

-------------------------------------------------------------------------------
(* The theorems.                                                           *)

LEMMA InitHolds == ASSUME Init PROVE IInv
<1>1. TypeOK BY InitTypes
<1>2. CallInv
    BY DEF Init, CallInv, StartersInv, StoredInv, AloneInv, ToldInv, LinkInv,
        LinkAnswersItsSending, Notifying, Doing, Free, Sending
<1>3. PollInv
    BY DEF Init, PollInv, NumbersInv, Numbers, Decides, Doing, Free, LastDecisionStands
<1> QED BY <1>1, <1>2, <1>3 DEF IInv

LEMMA StepTypes == ASSUME IInv, [Next]_vars PROVE TypeOK'
<1>1. CASE UNCHANGED vars BY <1>1 DEF vars, calls, polls, IInv, TypeOK
<1> QED BY <1>1, ConvocationTypes, AvailabilityTypes, CrashTypes DEF Next, IInv, CallInv, PollInv

LEMMA InvariantHolds == Spec => []IInv
<1>1. Init => IInv BY InitHolds
<1>2. IInv /\ [Next]_vars => IInv'
    BY StepTypes, StepCall, StepPoll DEF IInv
<1> QED BY <1>1, <1>2, PTL DEF Spec

\* Types hold whatever requests, saves and crashes do.
THEOREM Typing == Spec => []TypeOK
<1>1. IInv => TypeOK BY DEF IInv
<1> QED BY <1>1, InvariantHolds, PTL

\* When no sending runs, the convocation asks the starters, and each of them
\* was told last of that sending, or is known not to have been
\* (ConvocationService.sendConvocation).
THEOREM WhoIsAskedWasTold == Spec => []Asked
<1>1. IInv => Asked
    <2> SUFFICES ASSUME IInv, call # None, Sending = {} PROVE
            /\ call.saved = lineup.saved => DOMAIN call.replies = lineup.starters
            /\ \A p \in DOMAIN call.replies :
                told[p] = call.sending \/ p \in lost \/ overlapped
        BY DEF Asked
    <2>1. \A r \in Requests, p \in Players : ~Tells(r, p)
        BY DEF Tells, Notifying, Doing, Sending
    <2> QED BY <2>1, CallFields DEF IInv, CallInv, StartersInv, ToldInv
<1> QED BY <1>1, InvariantHolds, PTL

\* A reply by the public link answers the sending of its link, unless that
\* was replaced between its check and its write (respondPublic).
THEOREM LinksAnswerTheirSending == Spec => []LinkAnswersItsSending
<1>1. IInv => LinkAnswersItsSending BY DEF IInv, CallInv
<1> QED BY <1>1, InvariantHolds, PTL

\* What is stored of a player is never a decision that had ended before
\* another one on that player began (submitResponse, override).
THEOREM LastDecisions == Spec => []LastDecisionStands
<1>1. IInv => LastDecisionStands BY DEF IInv, PollInv
<1> QED BY <1>1, InvariantHolds, PTL

\* A poll is created once and its opinions are never taken back (createPoll).
THEOREM OnePoll == Spec => PollStands
<1>1. ASSUME IInv, [Next]_vars, poll' # poll, poll # None
      PROVE  /\ poll' # None /\ DOMAIN poll' = DOMAIN poll
             /\ \A p \in DOMAIN poll : poll[p].decision # 0 => poll'[p].decision # 0
    <2>1. \E r \in Requests : WriteDecision(r)
        BY <1>1 DEF Next, Convocation, Availability, SaveLineup, LinkExpires, Send, ReadLineup,
            Upsert, NotifyCall, Respond, CheckReply, WriteReply, Create, NotifyPoll,
            InsertPoll, KeyIsFree, Remind, Decide, Crash, polls, vars
    <2>2. PICK r \in Requests : WriteDecision(r) BY <2>1
    <2>3. /\ request[r].number \in 1 .. decisions /\ request[r].player \in DOMAIN poll
        BY <1>1, <2>2 DEF IInv, PollInv, NumbersInv, Decides, WriteDecision
    <2>4. /\ poll' # None /\ DOMAIN poll' = DOMAIN poll
          /\ \A p \in DOMAIN poll : p # request[r].player => poll'[p] = poll[p]
          /\ poll'[request[r].player].decision = request[r].number
        BY <1>1, <2>2, <2>3, DecidedRow DEF IInv
    <2>5. request[r].number # 0 BY <2>3
    <2> QED BY <2>4, <2>5
<1>2. IInv /\ [Next]_vars =>
        [poll # None => /\ poll' # None /\ DOMAIN poll' = DOMAIN poll
                        /\ \A p \in DOMAIN poll : poll[p].decision # 0 =>
                              poll'[p].decision # 0]_poll
    BY <1>1
<1> QED BY <1>2, InvariantHolds, PTL DEF Spec, PollStands

-------------------------------------------------------------------------------
(* The captains' accounts, which share no state with their calls.          *)

\* A session is of a club where the account was when it was issued, or later.
HeldInv ==
    /\ account # None => lastHeld[account] = clock
    /\ \A c \in Clubs : lastHeld[c] # None => lastHeld[c] <= clock
    /\ \A s \in sessions : lastHeld[s.club] # None /\ s.since <= lastHeld[s.club]

\* A look-up that says yes was made while there was a subscription, and is
\* remembered no longer than it takes and lives from then on.
ProInv ==
    /\ pro => lastPro = clock
    /\ lastPro # None => lastPro <= clock
    /\ \A r \in Lookups : lookup[r] # None /\ lookup[r].active =>
           lastPro # None /\ lookup[r].since <= lastPro
    /\ proCache # None /\ proCache.active =>
           lastPro # None /\ proCache.validUntil <= lastPro + HttpTimeout + ProTtl

AccountsInv == AccountsTypeOK /\ HeldInv /\ ProInv /\ AccessEnds

LEMMA AccountsBegin ==
    ASSUME AccountsInit
    PROVE  AccountsInv
<1>1. AccountsTypeOK
    <2>1. 0 \in Times BY AccountsAssumption DEF Times
    <2>2. lastHeld \in [Clubs -> Times \cup {None}] BY <2>1 DEF AccountsInit
    <2>3. lookup \in [Lookups -> [active : BOOLEAN, since : Times] \cup {None}] BY DEF AccountsInit
    <2>4. lastPro \in Times \cup {None} BY <2>1 DEF AccountsInit
    <2>5. sessions \in SUBSET [club : Clubs, since : Times] BY DEF AccountsInit
    <2> QED BY <2>1, <2>2, <2>3, <2>4, <2>5 DEF AccountsInit, AccountsTypeOK
<1>2. HeldInv
    BY AccountsAssumption DEF AccountsInit, HeldInv
<1>3. ProInv
    BY AccountsAssumption DEF AccountsInit, ProInv
<1>4. AccessEnds
    BY DEF AccountsInit, AccessEnds
<1> QED BY <1>1, <1>2, <1>3, <1>4 DEF AccountsInv

\* Whoever issues a session issues it to a club that is held now.
LEMMA SessionIssued ==
    ASSUME AccountsInv, NEW c \in Clubs, IssueSession(c)
    PROVE  /\ sessions' \in SUBSET [club : Clubs, since : Times]
           /\ \A s \in sessions' : s \in sessions \/ s = [club |-> c, since |-> clock]
<1>1. \A s \in sessions' : s \in sessions \/ s = [club |-> c, since |-> clock]
    BY DEF IssueSession
<1>2. [club |-> c, since |-> clock] \in [club : Clubs, since : Times]
    BY DEF AccountsInv, AccountsTypeOK
<1> QED BY <1>1, <1>2 DEF AccountsInv, AccountsTypeOK

\* What Held leaves, when the clock stands still.
LEMMA HeldNow ==
    ASSUME AccountsInv, NEW c \in Clubs \cup {None}
    PROVE  /\ Held(c) \in [Clubs -> Times \cup {None}]
           /\ c \in Clubs => Held(c)[c] = clock
           /\ \A d \in Clubs : d # c => Held(c)[d] = lastHeld[d]
BY DEF AccountsInv, AccountsTypeOK, Held

LEMMA AccountProvided ==
    ASSUME AccountsInv, NEW c \in Clubs \cup {None}, Provide(c)
    PROVE  AccountsInv'
<1>1. AccountsTypeOK'
    BY HeldNow DEF Provide, AccountsInv, AccountsTypeOK, subscription, Times
<1>2. HeldInv'
    BY HeldNow, AccountsAssumption DEF Provide, AccountsInv, AccountsTypeOK, Times, HeldInv
<1>3. ProInv' /\ AccessEnds'
    BY DEF Provide, AccountsInv, subscription, ProInv, AccessEnds
<1> QED BY <1>1, <1>2, <1>3 DEF AccountsInv

LEMMA LoginFinished ==
    ASSUME AccountsInv, FinishLogin
    PROVE  AccountsInv'
<1>1. ProInv' /\ AccessEnds'
    BY DEF FinishLogin, AccountsInv, subscription, ProInv, AccessEnds
<1>2. AccountsTypeOK' /\ HeldInv'
    <2>1. CASE member = login /\ account # None
        <3>1. /\ login \in Clubs /\ account' = login /\ lastHeld' = Held(login)
              /\ IssueSession(login) /\ clock' = clock
            BY <2>1 DEF FinishLogin, AccountsInv, AccountsTypeOK
        <3>2. AccountsTypeOK'
            BY <3>1, HeldNow, SessionIssued
            DEF FinishLogin, AccountsInv, AccountsTypeOK, subscription, Times
        <3>3. /\ account' # None => lastHeld'[account'] = clock'
              /\ \A c \in Clubs : lastHeld'[c] # None => lastHeld'[c] <= clock'
            BY <3>1, HeldNow, AccountsAssumption DEF AccountsInv, AccountsTypeOK, Times, HeldInv
        <3>4. ASSUME NEW s \in sessions'
              PROVE  lastHeld'[s.club] # None /\ s.since <= lastHeld'[s.club]
            <4>1. CASE s \in sessions
                BY <3>1, <4>1, HeldNow, AccountsAssumption DEF AccountsInv, AccountsTypeOK, Times, HeldInv
            <4>2. CASE s = [club |-> login, since |-> clock]
                BY <3>1, <4>2, HeldNow, AccountsAssumption DEF AccountsInv, AccountsTypeOK, Times
            <4> QED BY <3>1, <4>1, <4>2, SessionIssued
        <3> QED BY <3>2, <3>3, <3>4 DEF HeldInv
    <2>2. CASE ~(member = login /\ account # None)
        BY <2>2 DEF FinishLogin, AccountsInv, AccountsTypeOK, subscription, Times, HeldInv
    <2> QED BY <2>1, <2>2
<1> QED BY <1>1, <1>2 DEF AccountsInv

LEMMA SessionRefreshed ==
    ASSUME AccountsInv, NEW s \in sessions, Refresh(s)
    PROVE  AccountsInv'
<1>1. account \in Clubs /\ IssueSession(account)
    BY DEF Refresh, AccountsInv, AccountsTypeOK
<1>2. AccountsTypeOK'
    BY <1>1, SessionIssued DEF Refresh, AccountsInv, AccountsTypeOK, subscription, Times
<1>3. ASSUME NEW t \in sessions'
      PROVE  lastHeld'[t.club] # None /\ t.since <= lastHeld'[t.club]
    BY <1>1, SessionIssued, AccountsAssumption DEF Refresh, AccountsInv, AccountsTypeOK, Times, HeldInv
<1>4. HeldInv'
    BY <1>3 DEF Refresh, AccountsInv, HeldInv
<1>5. ProInv' /\ AccessEnds'
    BY DEF Refresh, AccountsInv, subscription, ProInv, AccessEnds
<1> QED BY <1>2, <1>4, <1>5 DEF AccountsInv

LEMMA RequestAuthorized ==
    ASSUME AccountsInv, NEW s \in sessions, Authorize(s)
    PROVE  AccountsInv'
<1>1. /\ s \in [club : Clubs, since : Times]
      /\ lastHeld[s.club] # None /\ s.since <= lastHeld[s.club]
    BY DEF AccountsInv, AccountsTypeOK, HeldInv
<1>2. AccountsTypeOK' /\ HeldInv' /\ ProInv'
    BY <1>1 DEF Authorize, AccountsInv, AccountsTypeOK, subscription, Times, HeldInv, ProInv
<1>3. lastHeld[s.club] \in Nat /\ clock \in Nat /\ s.since \in Nat
    BY <1>1, AccountsAssumption DEF AccountsInv, AccountsTypeOK, Times
<1>4. clock - lastHeld[s.club] < AccessTtl
    BY <1>1, <1>3, AccountsAssumption DEF Authorize
<1>5. AccessEnds'
    BY <1>1, <1>4 DEF Authorize, AccountsInv, subscription, AccessEnds
<1> QED BY <1>2, <1>5 DEF AccountsInv

LEMMA IdentityStep ==
    ASSUME AccountsInv, Identities
    PROVE  AccountsInv'
<1>1. CASE \E c \in Clubs : Transfer(c)
    BY <1>1 DEF Transfer, AccountsInv, AccountsTypeOK, subscription, Times, HeldInv, ProInv,
        AccessEnds
<1>2. CASE Login
    BY <1>2 DEF Login, AccountsInv, AccountsTypeOK, subscription, Times, HeldInv, ProInv,
        AccessEnds
<1> QED BY <1>1, <1>2, AccountProvided, LoginFinished, SessionRefreshed, RequestAuthorized
        DEF Identities

LEMMA SubscriptionRemembered ==
    ASSUME AccountsInv, NEW r \in Lookups, Remember(r)
    PROVE  AccountsInv'
<1>1. /\ lookup[r] \in [active : BOOLEAN, since : Times]
      /\ clock \in Nat /\ lookup[r].since \in Nat /\ clock <= lookup[r].since + HttpTimeout
      /\ lastPro # None => lastPro \in Nat
    BY DEF Remember, AccountsInv, AccountsTypeOK, Times
<1>2. AccountsTypeOK'
    BY <1>1, AccountsAssumption DEF Remember, AccountsInv, AccountsTypeOK, identity, Times
<1>3. lookup[r].active =>
          /\ lastPro # None
          /\ clock + ProTtl <= lastPro + HttpTimeout + ProTtl
          /\ clock - lastPro < ProTtl + HttpTimeout
    BY <1>1, AccountsAssumption DEF Remember, AccountsInv, ProInv
<1>4. /\ proCache' = [active |-> lookup[r].active, validUntil |-> clock + ProTtl]
      /\ admitted' = lookup[r].active /\ lastPro' = lastPro /\ pro' = pro /\ clock' = clock
      /\ \A q \in Lookups : lookup'[q] = lookup[q] \/ lookup'[q] = None
    BY DEF Remember, AccountsInv, AccountsTypeOK
<1>5. ProInv'
    BY <1>3, <1>4 DEF AccountsInv, ProInv
<1>6. HeldInv' /\ AccessEnds'
    BY <1>3, <1>4 DEF Remember, AccountsInv, identity, HeldInv, AccessEnds
<1> QED BY <1>2, <1>5, <1>6 DEF AccountsInv

LEMMA SubscriptionActivated ==
    ASSUME AccountsInv, Activate
    PROVE  AccountsInv'
<1>1. AccountsTypeOK' /\ HeldInv' /\ ProInv'
    BY DEF Activate, Remembered, AccountsInv, AccountsTypeOK, identity, Times, HeldInv, ProInv
<1>2. proCache.active => lastPro # None /\ clock - lastPro < ProTtl + HttpTimeout
    BY AccountsAssumption DEF Activate, Remembered, AccountsInv, AccountsTypeOK, Times, ProInv
<1>3. AccessEnds'
    BY <1>2 DEF Activate, AccountsInv, identity, AccessEnds
<1> QED BY <1>1, <1>3 DEF AccountsInv

LEMMA SubscriptionStep ==
    ASSUME AccountsInv, Subscriptions
    PROVE  AccountsInv'
<1>1. CASE Changes
    <2>1. AccountsTypeOK' /\ HeldInv' /\ AccessEnds'
        BY <1>1 DEF Changes, AccountsInv, AccountsTypeOK, identity, Times, HeldInv, AccessEnds
    <2>2. clock \in Nat /\ lastPro' = clock /\ (lastPro # None => lastPro \in Nat /\ lastPro <= clock)
        BY <1>1 DEF Changes, AccountsInv, AccountsTypeOK, Times, ProInv
    <2>3. \A r \in Lookups : lookup[r] # None => lookup[r].since \in Nat
        BY DEF AccountsInv, AccountsTypeOK, Times
    <2>4. proCache # None => proCache.validUntil \in Nat
        BY DEF AccountsInv, AccountsTypeOK
    <2>5. ProInv'
        BY <1>1, <2>2, <2>3, <2>4, AccountsAssumption DEF Changes, identity, AccountsInv, ProInv
    <2> QED BY <2>1, <2>5 DEF AccountsInv
<1>2. CASE \E r \in Lookups : Lookup(r)
    <2>1. PICK r \in Lookups : Lookup(r) BY <1>2
    <2>2. AccountsTypeOK' /\ HeldInv' /\ AccessEnds'
        BY <2>1 DEF Lookup, AccountsInv, AccountsTypeOK, identity, Times, HeldInv, AccessEnds
    <2>3. /\ lookup'[r] = [active |-> pro, since |-> clock]
          /\ \A q \in Lookups \ {r} : lookup'[q] = lookup[q]
          /\ clock' = clock /\ pro' = pro /\ lastPro' = lastPro /\ proCache' = proCache
        BY <2>1 DEF Lookup, identity, AccountsInv, AccountsTypeOK
    <2>4. clock \in Nat /\ clock <= clock /\ clock # None
        BY AccountsAssumption DEF AccountsInv, AccountsTypeOK, Times
    <2>5. ProInv'
        BY <2>3, <2>4 DEF AccountsInv, ProInv
    <2> QED BY <2>2, <2>5 DEF AccountsInv
<1>3. CASE \E r \in Lookups : LookupFails(r)
    <2>1. PICK r \in Lookups : LookupFails(r) BY <1>3
    <2>2. AccountsTypeOK' /\ HeldInv' /\ AccessEnds'
        BY <2>1 DEF LookupFails, AccountsInv, AccountsTypeOK, identity, Times, HeldInv,
            AccessEnds
    <2>3. \A q \in Lookups : lookup'[q] = lookup[q] \/ lookup'[q] = None
        BY <2>1 DEF LookupFails, AccountsInv, AccountsTypeOK
    <2>4. ProInv'
        BY <2>1, <2>3 DEF LookupFails, identity, AccountsInv, ProInv
    <2> QED BY <2>2, <2>4 DEF AccountsInv
<1> QED BY <1>1, <1>2, <1>3, SubscriptionActivated, SubscriptionRemembered DEF Subscriptions

LEMMA ClockTicks ==
    ASSUME AccountsInv, Tick
    PROVE  AccountsInv'
<1>1. clock \in Nat /\ clock' = clock + 1 /\ clock' \in Times
    BY AccountsAssumption DEF Tick, AccountsInv, AccountsTypeOK, Times
<1>2. AccountsTypeOK'
    BY <1>1 DEF Tick, AccountsInv, AccountsTypeOK
<1>3. \A c \in Clubs :
          /\ lastHeld[c] # None => lastHeld[c] \in Nat /\ lastHeld[c] <= clock
          /\ lastHeld'[c] = IF c = account THEN clock + 1 ELSE lastHeld[c]
    BY DEF Tick, AccountsInv, AccountsTypeOK, Times, HeldInv
<1>4. account' # None => lastHeld'[account'] = clock'
    BY <1>1, <1>3 DEF Tick, AccountsInv, AccountsTypeOK
<1>5. \A c \in Clubs : lastHeld'[c] # None => lastHeld'[c] <= clock'
    BY <1>1, <1>3
<1>6. ASSUME NEW s \in sessions'
      PROVE  lastHeld'[s.club] # None /\ s.since <= lastHeld'[s.club]
    <2>1. /\ s.club \in Clubs /\ s.since \in Nat
          /\ lastHeld[s.club] # None /\ s.since <= lastHeld[s.club]
        BY DEF Tick, AccountsInv, AccountsTypeOK, Times, HeldInv
    <2> QED BY <1>1, <1>3, <2>1, AccountsAssumption
<1>7. HeldInv'
    BY <1>4, <1>5, <1>6 DEF HeldInv
<1>8. /\ lookup' = lookup /\ proCache' = proCache /\ pro' = pro
      /\ lastPro' = IF pro THEN clock + 1 ELSE lastPro
      /\ lastPro # None => lastPro \in Nat /\ lastPro <= clock
      /\ pro => lastPro = clock
    BY DEF Tick, AccountsInv, AccountsTypeOK, Times, ProInv
<1>9. \A r \in Lookups : lookup[r] # None => lookup[r].since \in Nat
    BY DEF AccountsInv, AccountsTypeOK, Times
<1>10. proCache # None => proCache.validUntil \in Nat
    BY DEF AccountsInv, AccountsTypeOK
<1>11. HttpTimeout \in Nat /\ ProTtl \in Nat /\ None \notin Nat
    BY AccountsAssumption
<1>12. ProInv'
    <2>1. pro' => lastPro' = clock'
        BY <1>1, <1>8
    <2>2. lastPro' # None => lastPro' <= clock'
        <3>1. CASE pro BY <1>1, <1>8, <3>1
        <3>2. CASE ~pro BY <1>1, <1>8, <3>2
        <3> QED BY <3>1, <3>2
    <2>3. ASSUME NEW r \in Lookups, lookup'[r] # None, lookup'[r].active
          PROVE  lastPro' # None /\ lookup'[r].since <= lastPro'
        BY <1>1, <1>8, <1>9, <1>11, <2>3 DEF AccountsInv, ProInv
    <2>4. ASSUME proCache' # None, proCache'.active
          PROVE  /\ lastPro' # None
                 /\ proCache'.validUntil <= lastPro' + HttpTimeout + ProTtl
        BY <1>1, <1>8, <1>10, <1>11, <2>4 DEF AccountsInv, ProInv
    <2> QED BY <2>1, <2>2, <2>3, <2>4 DEF ProInv
<1>13. AccessEnds'
    BY DEF Tick, AccessEnds
<1> QED BY <1>2, <1>7, <1>12, <1>13 DEF AccountsInv

LEMMA AccountsHold == AccountsSpec => []AccountsInv
<1>1. AccountsInit => AccountsInv BY AccountsBegin
<1>2. AccountsInv /\ [AccountsNext]_accountVars => AccountsInv'
    <2>1. CASE UNCHANGED accountVars
        BY <2>1 DEF accountVars, identity, subscription, AccountsInv, AccountsTypeOK, Times, HeldInv,
            ProInv, AccessEnds
    <2> QED BY <2>1, IdentityStep, SubscriptionStep, ClockTicks DEF AccountsNext
<1> QED BY <1>1, <1>2, PTL DEF AccountsSpec

\* A captain acts for a club at most as long after the account has left it
\* as an access token lives, however many clubs, sessions and look-ups there
\* are and however often a session is refreshed; and nobody passes as a
\* subscriber longer after the end of the subscription than a look-up takes
\* and is remembered (refresh, issueSession, canActivate).
THEOREM AccessIsLost == AccountsSpec => []AccessEnds
<1>1. AccountsInv => AccessEnds BY DEF AccountsInv
<1> QED BY <1>1, AccountsHold, PTL
===============================================================================
