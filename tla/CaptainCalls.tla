------------------------------ MODULE CaptainCalls ------------------------------
(***************************************************************************)
(* What a captain asks the players of one match and what they answer       *)
(* (apps/tabt-rest/src/captain/availability and convocation): the poll of  *)
(* who is available, and the convocation of the line-up's starters, which  *)
(* the captain may send again.                                             *)
(*                                                                         *)
(* Requests run beside each other.  Each reads first and writes later by   *)
(* one statement or one nested write, which is atomic; a player answers    *)
(* with a token that names the poll or the convocation, but no sending.    *)
(***************************************************************************)
EXTENDS Naturals, FiniteSets, TLC, Common

CONSTANTS
    Requests,   \* requests served at once
    Players,
    Statuses,   \* answers other than "pending"
    Notes,
    MaxSends,   \* bound: sendings of the convocation
    MaxDecisions \* bound: answers to the poll and overrides

ASSUME StatusesAssumption == "pending" \notin Statuses
ASSUME BoundsAssumption == MaxSends \in Nat /\ MaxDecisions \in Nat

VARIABLES
    lineup,     \* the starters saved, and how often they were
    call,       \* Convocation: its sending, link and replies; or None
    poll,       \* AvailabilityPoll: the players' opinions; or None
    request,    \* of each request, what it does, or None
    told,       \* of each player, the last sending a notification told of
    invited,    \* the players a notification told of the poll
    sends,      \* sendings so far
    decisions,  \* answers to the poll and overrides so far
    ended,      \* history: those that were stored, and their players
    lost,       \* history: players whom a notification has not reached
    overlapped, \* history: have two sendings overlapped?
    crossed     \* history: replies checked before the sending that is stored

calls   == <<lineup, call, told, sends, lost, overlapped, crossed>>
polls   == <<poll, invited, decisions, ended>>
vars    == <<calls, polls, request>>

Sendings  == 0 .. MaxSends
Decisions == 0 .. MaxDecisions
Status    == Statuses \cup {"pending"}
Reply     == [status : Status, of : Sendings, link : BOOLEAN]
Opinion   == [status : Status, note : Notes \cup {None}, source : {"player", "captain"},
              decision : Decisions]

SendRequest  == [op : {"send"}, at : {"read", "upsert", "notify"}, starters : SUBSET Players,
                 saved : Nat, exists : BOOLEAN, sending : Sendings]
ReplyRequest == [op : {"respond", "respondPublic"}, at : {"check", "write"}, player : Players,
                 status : Statuses, seen : Sendings]
PollRequest  == [op : {"create", "remind"}, at : {"create", "notify"},
                 players : SUBSET Players]
OpinionRequest == [op : {"submit", "override"}, at : {"write"}, player : Players,
                   status : Statuses, note : Notes \cup {None}, number : Decisions,
                   after : SUBSET Decisions]

Request == SendRequest \cup ReplyRequest \cup PollRequest \cup OpinionRequest
CallRow == [sending : Sendings, link : BOOLEAN, saved : Nat,
            replies : UNION {[S -> Reply] : S \in SUBSET Players}]
PollRow == UNION {[S -> Opinion] : S \in SUBSET Players}

ASSUME NoneAssumption == None \notin Notes \cup Request \cup CallRow \cup PollRow

TypeOK ==
    /\ lineup \in [starters : SUBSET Players, saved : Nat]
    /\ call \in CallRow \cup {None}
    /\ poll \in PollRow \cup {None}
    /\ request \in [Requests -> Request \cup {None}]
    /\ told \in [Players -> Sendings]
    /\ invited \in SUBSET Players
    /\ sends \in Sendings /\ decisions \in Decisions
    /\ ended \in SUBSET [player : Players, number : Decisions, after : SUBSET Decisions]
    /\ lost \in SUBSET Players /\ overlapped \in BOOLEAN
    /\ crossed \in SUBSET Requests

Init ==
    /\ lineup \in [starters : SUBSET Players \ {{}}, saved : {0}]
    /\ call = None /\ poll = None
    /\ request = [r \in Requests |-> None]
    /\ told = [p \in Players |-> 0] /\ invited = {}
    /\ sends = 0 /\ decisions = 0 /\ ended = {}
    /\ lost = {} /\ overlapped = FALSE /\ crossed = {}

Free(r)   == request[r] = None
Doing(r, ops, at) == ~Free(r) /\ request[r].op \in ops /\ request[r].at = at
Begin(r, q) == request' = [request EXCEPT ![r] = q]
End(r)      == Begin(r, None)

Replying == {"respond", "respondPublic"}
Deciding == {"submit", "override"}
Sending == {r \in Requests : ~Free(r) /\ request[r].op = "send"}

-------------------------------------------------------------------------------
(* The convocation.                                                        *)

(* The line-up is saved again (module CaptainLineup): its slots change. *)
SaveLineup(S) ==
    /\ S # lineup.starters /\ lineup.saved < MaxSends
    /\ lineup' = [starters |-> S, saved |-> lineup.saved + 1]
    /\ UNCHANGED <<call, told, sends, lost, overlapped, crossed, polls, request>>

(* sendConvocation *)
Send(r) ==
    /\ Free(r) /\ sends < MaxSends
    /\ sends' = sends + 1
    /\ Begin(r, [op |-> "send", at |-> "read", starters |-> {}, saved |-> 0,
                 exists |-> FALSE, sending |-> sends + 1])
    /\ overlapped' = (overlapped \/ Sending # {})
    /\ UNCHANGED <<lineup, call, told, lost, crossed, polls>>

(* The line-up is read, and the upsert reads whether there is a row. *)
ReadLineup(r) ==
    /\ Doing(r, {"send"}, "read")
    /\ Begin(r, [request[r] EXCEPT !.at = "upsert", !.starters = lineup.starters,
                                   !.saved = lineup.saved, !.exists = call # None])
    /\ UNCHANGED <<calls, polls>>

(* responses: deleteMany and create. *)
Pending(S) == [p \in S |-> [status |-> "pending", of |-> 0, link |-> FALSE]]
Replies(S) == Pending(S)

(* The nested write.  A second row for the line-up violates its key. *)
Upsert(r) ==
    LET q == request[r]
    IN  /\ Doing(r, {"send"}, "upsert")
        /\ IF ~q.exists /\ call # None
           THEN End(r) /\ UNCHANGED <<call, crossed>>
           ELSE /\ call' = [sending |-> q.sending, link |-> TRUE, saved |-> q.saved,
                            replies |-> Replies(q.starters)]
                /\ Begin(r, [q EXCEPT !.at = "notify"])
                /\ crossed' = {s \in Requests : Doing(s, Replying, "write")}
        /\ UNCHANGED <<lineup, told, sends, lost, overlapped, polls>>

(* sendMany: whom app-notifications accepts it for is told.  Mutant: who   *)
(* was told of an earlier sending is not told again.                       *)
RecipientsNew(q) == {p \in q.starters : told[p] = 0}
Recipients(q)    == q.starters

NotifyCall(r, S) ==
    LET q == request[r]
    IN  /\ Doing(r, {"send"}, "notify") /\ S \subseteq Recipients(q)
        /\ told' = [p \in Players |-> IF p \in S THEN q.sending ELSE told[p]]
        /\ lost' = (lost \ S) \cup (Recipients(q) \ S)
        /\ End(r)
        /\ UNCHANGED <<lineup, call, sends, overlapped, crossed, polls>>

(* The public link is valid for fourteen days. *)
LinkExpires ==
    /\ call # None /\ call.link
    /\ call' = [call EXCEPT !.link = FALSE]
    /\ UNCHANGED <<lineup, told, sends, lost, overlapped, crossed, polls, request>>

(* respond, respondPublic: a player answers what a notification told, with *)
(* its token; the public form needs the link of that sending as well.      *)
Respond(r, p, op, s) ==
    /\ Free(r) /\ told[p] # 0
    /\ Begin(r, [op |-> op, at |-> "check", player |-> p, status |-> s, seen |-> told[p]])
    /\ UNCHANGED <<calls, polls>>

LinkIsOf(q) == call.sending = q.seen

CheckReply(r) ==
    LET q == request[r]
    IN  /\ Doing(r, Replying, "check")
        /\ IF /\ q.op = "respondPublic" => call.link /\ LinkIsOf(q)
              /\ q.player \in DOMAIN call.replies
           THEN Begin(r, [q EXCEPT !.at = "write"])
           ELSE End(r)
        /\ crossed' = crossed \ {r}
        /\ UNCHANGED <<lineup, call, told, sends, lost, overlapped, polls>>

(* The row is found by the convocation and the player, or update throws.   *)
(* A reply by link that met a sending it was not checked for is marked.    *)
WriteReply(r) ==
    LET q == request[r]
    IN  /\ Doing(r, Replying, "write")
        /\ call' = IF q.player \notin DOMAIN call.replies THEN call
                   ELSE [call EXCEPT !.replies[q.player] =
                            [status |-> q.status, of |-> q.seen,
                             link |-> q.op = "respondPublic" /\ r \notin crossed]]
        /\ End(r)
        /\ UNCHANGED <<lineup, told, sends, lost, overlapped, crossed, polls>>

-------------------------------------------------------------------------------
(* The poll.                                                               *)

(* createPoll: the poll is looked for, created and told to the players; a  *)
(* second row for the match and the club violates its key.                 *)
Create(r, S) ==
    /\ Free(r) /\ S # {}
    /\ poll = None
    /\ Begin(r, [op |-> "create", at |-> "create", players |-> S])
    /\ UNCHANGED <<calls, polls>>

(* Mutant: an upsert, as for the convocation. *)
KeyIsNever == TRUE
KeyIsFree  == poll = None

InsertPoll(r) ==
    LET q == request[r]
    IN  /\ Doing(r, {"create"}, "create")
        /\ IF KeyIsFree
           THEN /\ poll' = [p \in q.players |-> [status |-> "pending", note |-> None,
                                                 source |-> "player", decision |-> 0]]
                /\ Begin(r, [q EXCEPT !.at = "notify"])
           ELSE End(r) /\ UNCHANGED poll
        /\ UNCHANGED <<calls, invited, decisions, ended>>

(* remind: the players who have not answered are told again. *)
Remind(r) ==
    /\ Free(r) /\ poll # None
    /\ Begin(r, [op |-> "remind", at |-> "notify",
                 players |-> {p \in DOMAIN poll : poll[p].status = "pending"}])
    /\ UNCHANGED <<calls, polls>>

NotifyPoll(r, S) ==
    /\ Doing(r, {"create", "remind"}, "notify") /\ S \subseteq request[r].players
    /\ invited' = invited \cup S
    /\ End(r)
    /\ UNCHANGED <<calls, poll, decisions, ended>>

(* submitResponse by a player who was told; override by the captain. *)
Decide(r, p, op, s, note) ==
    /\ Free(r) /\ poll # None /\ decisions < MaxDecisions
    /\ op = "submit" => p \in invited
    /\ decisions' = decisions + 1
    /\ IF p \in DOMAIN poll
       THEN Begin(r, [op |-> op, at |-> "write", player |-> p, status |-> s, note |-> note,
                      number |-> decisions + 1, after |-> {e.number : e \in ended}])
       ELSE UNCHANGED request
    /\ UNCHANGED <<calls, poll, invited, ended>>

(* Mutant: a player does not overwrite what the captain wrote. *)
MayWriteOwn(q) == q.op = "submit" => poll[q.player].source = "player"
MayWrite(q)    == q.player \in DOMAIN poll

(* update: a note that is not given stays what it was. *)
WriteDecision(r) ==
    LET q == request[r]
    IN  /\ Doing(r, Deciding, "write")
        /\ poll' = IF ~MayWrite(q) THEN poll
                   ELSE [poll EXCEPT ![q.player] =
                           [status |-> q.status,
                            note   |-> IF q.note = None THEN @.note ELSE q.note,
                            source |-> IF q.op = "submit" THEN "player" ELSE "captain",
                            decision |-> q.number]]
        /\ ended' = ended \cup {[player |-> q.player, number |-> q.number, after |-> q.after]}
        /\ End(r)
        /\ UNCHANGED <<calls, invited, decisions>>

-------------------------------------------------------------------------------
(* The process dies: what it has written stays, nobody else is told. *)
Crash ==
    /\ \E r \in Requests : ~Free(r)
    /\ request' = [r \in Requests |-> None]
    /\ lost' = lost \cup UNION {request[r].starters : r \in {s \in Sending : request[s].at = "notify"}}
    /\ crossed' = {}
    /\ UNCHANGED <<lineup, call, told, sends, overlapped, polls>>

Convocation ==
    \/ \E S \in SUBSET Players \ {{}} : SaveLineup(S)
    \/ LinkExpires
    \/ \E r \in Requests :
        \/ Send(r) \/ ReadLineup(r) \/ Upsert(r)
        \/ \E S \in SUBSET Players : NotifyCall(r, S)
        \/ \E p \in Players, op \in Replying, s \in Statuses : Respond(r, p, op, s)
        \/ CheckReply(r) \/ WriteReply(r)

Availability ==
    \E r \in Requests :
        \/ \E S \in SUBSET Players : Create(r, S) \/ NotifyPoll(r, S)
        \/ InsertPoll(r) \/ Remind(r) \/ WriteDecision(r)
        \/ \E p \in Players, op \in Deciding, s \in Statuses, n \in Notes \cup {None} :
            Decide(r, p, op, s, n)

Next == Convocation \/ Availability \/ Crash

Spec == Init /\ [][Next]_vars

-------------------------------------------------------------------------------
(* Properties.                                                             *)

(* When no sending runs, the convocation asks the starters of the line-up, *)
(* unless it was saved again since the sending that is stored read it; and *)
(* every player it asks was told last of that sending, unless it was lost  *)
(* on the way, or two captains sent at once: then the players may hold the *)
(* message of the one and the convocation that of the other.               *)
Asked ==
    call # None /\ Sending = {} =>
        /\ call.saved = lineup.saved => DOMAIN call.replies = lineup.starters
        /\ \A p \in DOMAIN call.replies :
            told[p] = call.sending \/ p \in lost \/ overlapped

(* A reply given through the public link answers the sending it was given  *)
(* for, unless that sending was replaced between its check and its write.  *)
LinkAnswersItsSending ==
    call # None =>
        \A p \in DOMAIN call.replies :
            call.replies[p].link => call.replies[p].of = call.sending

(* Whoever decides last, decides: what is stored of a player is never a    *)
(* decision that had ended before another one on that player began.        *)
LastDecisionStands ==
    poll # None =>
        \A e \in ended : poll[e.player].decision \notin e.after

(* A poll is created once: whatever captains create beside each other, its *)
(* players stay and their opinions are never taken back.                   *)
PollStands ==
    [][poll # None => /\ poll' # None /\ DOMAIN poll' = DOMAIN poll
                      /\ \A p \in DOMAIN poll : poll[p].decision # 0 =>
                            poll'[p].decision # 0]_poll
===============================================================================
