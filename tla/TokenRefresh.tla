---------------------------- MODULE TokenRefresh ----------------------------
(***************************************************************************)
(* The refresh of rotating OAuth tokens: getAccessToken with its mutex per *)
(* connection, staleness check, rotation map and compare-and-swap          *)
(* (open-sse/services/tokenRefresh.ts, tokenRefresh/rotationMap.ts,        *)
(* tokenRefresh/casGuard.ts), the lane of a rotation group                 *)
(* (refreshSerializer.ts), and the callers that store the result.          *)
(*                                                                         *)
(* The connections are the accounts of one rotation group.  A refresh      *)
(* token is the number of its rotation; the provider accepts the latest    *)
(* one once, and revokes the family when it sees an earlier one.           *)
(*                                                                         *)
(* Code between two waits for the network, a timer or the lane is one      *)
(* step; the database answers at once, but a read or a write may fail.     *)
(* Expiry of a row's access token and of a rotation map's entry may come   *)
(* at any time.  What the callers do with a refused token (deactivation)   *)
(* is not modelled.                                                        *)
(***************************************************************************)
EXTENDS Integers

CONSTANTS
    Connections,    \* accounts of the group
    Tasks,          \* callers
    Of,             \* the connection of each task
    Kind,           \* and what it is, see below
    NoTicket,
    MaxToken        \* bound: the last token of each connection

(***************************************************************************)
(*  "chat"    chatCore after a 401 or 403: stores the result in the mutex  *)
(*            behind the compare-and-swap, and afterwards if that did not  *)
(*            happen                                                       *)
(*  "check"   checkAndRefreshToken: stores it in the mutex only            *)
(*  "sweep"   the health check, the refresh route, the Codex export, an    *)
(*            executor ahead of expiry: stores it in the mutex, and        *)
(*            afterwards if it did not                                     *)
(*  "export"  the Claude export: stores it afterwards only                 *)
(*  "usage"   refreshAndUpdateCredentials on demand: asks for the refresh  *)
(*            from within the lane and stores the result afterwards        *)
(***************************************************************************)
Kinds == {"chat", "check", "sweep", "export", "usage"}

Tickets == Connections \cup Tasks
(* What the constants are.                                                 *)
TokenConstants ==
    /\ Connections \cap Tasks = {} /\ NoTicket \notin Tickets
    /\ Of \in [Tasks -> Connections] /\ Kind \in [Tasks -> Kinds]
    /\ MaxToken \in [Connections -> Nat \ {0}]

VARIABLES
    row,        \* the refresh token in each connection's row
    job,        \* connectionRefreshMutex: the refresh under way
    rotated,    \* tokenRotationMap: what each token was rotated to, or 0
    ahead,      \* the tickets each ticket of the lane waits for
    tail,       \* groupTail
    task,       \* where each task is, the token it has, the one it first read,
                \* and whether it has stored a result in the mutex
    latest, revoked,        \* the provider: latest token, family revoked
    lost,       \* history: a token that was issued did not arrive
    spoiled     \* history: a token was kept out of the row, or the row set
                \* back or not readable

lane == <<ahead, tail>>
provider == <<latest, revoked, lost>>
vars == <<row, job, rotated, lane, task, provider, spoiled>>

Idle == [stage |-> "idle", held |-> 0, first |-> 0, ran |-> FALSE]

(* What the leading caller has a refresh do with the result: store it      *)
(* inside the mutex, if the row still has the token guard or guard is 0.   *)
Orders(t) ==
    [by |-> t, stores |-> Kind[t] \in {"chat", "check", "sweep"},
     guard |-> IF Kind[t] = "chat" THEN task[t].first ELSE 0]

NoOrders == [by |-> NoTicket, stores |-> FALSE, guard |-> 0]
NoJob == [stage |-> "none", token |-> 0, result |-> 0, orders |-> NoOrders]

Init ==
    /\ row = [c \in Connections |-> 1]
    /\ job = [c \in Connections |-> NoJob]
    /\ rotated = [c \in Connections |-> [v \in 1..MaxToken[c] |-> 0]]
    /\ ahead = [x \in Tickets |-> {}]
    /\ tail = NoTicket
    /\ task = [t \in Tasks |-> Idle]
    /\ latest = [c \in Connections |-> 1]
    /\ revoked = [c \in Connections |-> FALSE]
    /\ lost = [c \in Connections |-> FALSE]
    /\ spoiled = [c \in Connections |-> FALSE]

-----------------------------------------------------------------------------
(* The lane: serializeRefresh                                              *)

(* x takes its place behind the tail and whatever the tail waits for.      *)
LinedUp(x) ==
    /\ ahead' = [ahead EXCEPT ![x] = IF tail = NoTicket THEN {} ELSE ahead[tail] \cup {tail}]
    /\ tail' = x

(* Mutant: the lane is dropped although somebody waits in it.              *)
ReleasedDropping(x) ==
    /\ ahead' = [y \in Tickets |-> ahead[y] \ {x}]
    /\ tail' = NoTicket

(* x has had its turn; the last of the line drops the lane.                *)
Released(x) ==
    /\ ahead' = [y \in Tickets |-> ahead[y] \ {x}]
    /\ tail' = IF tail = x THEN NoTicket ELSE tail

HasSuccessor(x) == tail # x

-----------------------------------------------------------------------------
(* Storing a result                                                        *)

(* casGuardShouldSkipPersist.                                              *)
Skips(c, o) == o.guard # 0 /\ row[c] # o.guard

(* The token r for the tasks W, after a refresh with the orders o.  Who    *)
(* stored it inside the mutex has it in memory too; who is to store it and *)
(* never did does so when it gets the result.                              *)
Inside(c, r, o) == r # 0 /\ o.stores /\ ~Skips(c, o)

After(c, r, o, W) ==
    {t \in W : \/ Kind[t] = "export"
               \/ /\ Kind[t] \in {"chat", "sweep"} /\ ~task[t].ran
                  /\ ~(Inside(c, r, o) /\ t = o.by)}

Written(c, r, o, W) == Inside(c, r, o) \/ (r # 0 /\ After(c, r, o, W) # {})

(* The writes fail: every one of the callers catches the error or ends,    *)
(* and whoever gets the token has it all the same.                         *)
WritesFail(c, r, o, W) ==
    /\ Written(c, r, o, W)
    /\ row' = row
    /\ spoiled' = [spoiled EXCEPT ![c] = @ \/ row[c] < r]

Stored(c, r, o, W) ==
    \/ /\ row' = [row EXCEPT ![c] = IF Written(c, r, o, W) THEN r ELSE @]
       /\ spoiled' = [spoiled EXCEPT ![c] =
                        \/ @ \/ row'[c] < row[c]
                        \/ r # 0 /\ Skips(c, o) /\ row'[c] # r]
    \/ WritesFail(c, r, o, W)

(* Task t has the token r without a refresh.                               *)
Given(t, r) ==
    /\ IF Kind[t] # "usage"
       THEN /\ Stored(Of[t], r, Orders(t), {t})
            /\ task' = [task EXCEPT ![t] = Idle]
       ELSE /\ task' = [task EXCEPT ![t].held = r, ![t].stage = "leaving"]
            /\ UNCHANGED <<row, spoiled>>
    /\ UNCHANGED <<job, rotated, lane, provider>>

-----------------------------------------------------------------------------
(* The callers                                                             *)

(* The credentials are read when the caller starts its work.               *)
Load(t) ==
    /\ task[t].stage = "idle"
    /\ task' = [task EXCEPT ![t] =
                  [stage |-> "loaded", held |-> row[Of[t]], first |-> row[Of[t]], ran |-> FALSE]]
    /\ UNCHANGED <<row, job, rotated, lane, provider, spoiled>>

(* The caller ends without a refresh, or gives up after a failed one.      *)
Drop(t) ==
    /\ task[t].stage = "loaded"
    /\ task' = [task EXCEPT ![t] = Idle]
    /\ job' = [c \in Connections |->
                 IF job[c].orders.by = t THEN [job[c] EXCEPT !.orders.by = NoTicket]
                 ELSE job[c]]
    /\ UNCHANGED <<row, rotated, lane, provider, spoiled>>

(* The outer serializeRefresh of refreshAndUpdateCredentials.              *)
AskForLane(t) ==
    /\ task[t].stage = "loaded" /\ Kind[t] = "usage"
    /\ task' = [task EXCEPT ![t].stage = "lane"]
    /\ LinedUp(t)
    /\ UNCHANGED <<row, job, rotated, provider, spoiled>>

(* getAccessToken is called now.                                           *)
Calls(t) ==
    \/ task[t].stage = "loaded" /\ Kind[t] # "usage"
    \/ task[t].stage = "lane" /\ ahead[t] = {}

(* Somebody refreshes the connection: the promise is shared.               *)
Join(t) ==
    /\ Calls(t) /\ job[Of[t]] # NoJob
    /\ task' = [task EXCEPT ![t].stage = "waiting"]
    /\ UNCHANGED <<row, job, rotated, lane, provider, spoiled>>

Mapped(t) == rotated[Of[t]][task[t].held] # 0

(* lookupRotation.                                                         *)
UseMap(t) ==
    /\ Calls(t) /\ job[Of[t]] = NoJob
    /\ Mapped(t)
    /\ Given(t, rotated[Of[t]][task[t].held])

(* The row has another token and its access token is still good.           *)
UseRow(t) ==
    /\ Calls(t) /\ job[Of[t]] = NoJob
    /\ ~Mapped(t) /\ row[Of[t]] # task[t].held
    /\ Given(t, row[Of[t]])

(* Mutant: the token in memory is presented although the row has another.  *)
PresentedHeld(t) == task[t].held

(* The staleness check: the row's token, if it is another one.             *)
Presented(t) == row[Of[t]]

(* A refresh that will present the token p lines up.                       *)
Starts(t, p) ==
    /\ Calls(t) /\ job[Of[t]] = NoJob
    /\ ~Mapped(t)
    /\ job' = [job EXCEPT ![Of[t]] =
                 [stage |-> "lane", token |-> p, result |-> 0, orders |-> Orders(t)]]
    /\ LinedUp(Of[t])
    /\ task' = [task EXCEPT ![t].stage = "waiting", ![t].held = p]
    /\ UNCHANGED <<row, rotated, provider>>

Refresh(t) == Starts(t, Presented(t)) /\ UNCHANGED spoiled

(* The read of the staleness check fails: the token in memory is used.     *)
RefreshBlind(t) ==
    /\ row[Of[t]] # task[t].held
    /\ Starts(t, task[t].held)
    /\ spoiled' = [spoiled EXCEPT ![Of[t]] = TRUE]

(* REFRESH_TIMEOUT_MS of refreshWithRetry; the refresh itself goes on.     *)
TimeOut(t) ==
    /\ task[t].stage = "waiting" /\ Kind[t] = "chat"
    /\ task' = [task EXCEPT ![t].stage = "loaded"]
    /\ UNCHANGED <<row, job, rotated, lane, provider, spoiled>>

(* The end of the outer serializeRefresh, and updateProviderConnection,    *)
(* which may fail.                                                         *)
Leave(t) ==
    /\ task[t].stage = "leaving"
    /\ task' = [task EXCEPT ![t] = Idle]
    /\ row' \in {row, [row EXCEPT ![Of[t]] = task[t].held]}
    /\ spoiled' = [spoiled EXCEPT ![Of[t]] = @ \/ row'[Of[t]] < row[Of[t]]]
    /\ Released(t)
    /\ UNCHANGED <<job, rotated, provider>>

-----------------------------------------------------------------------------
(* The refresh of a connection                                             *)

(* The request to the provider leaves.                                     *)
Call(c) ==
    /\ job[c].stage = "lane" /\ ahead[c] = {}
    /\ job' = [job EXCEPT ![c].stage = "calling"]
    /\ UNCHANGED <<row, rotated, lane, task, provider, spoiled>>

(* The tasks that share the refresh of c have the result r.  A request     *)
(* that got none tries again, and one that gave up waiting finds the token *)
(* in its memory.                                                          *)
Answered(c, r, W) ==
    [t \in Tasks |->
       IF t \in W
       THEN IF r = 0 /\ Kind[t] = "chat" THEN [task[t] EXCEPT !.stage = "loaded"] ELSE Idle
       ELSE IF t = job[c].orders.by /\ Kind[t] = "chat" /\ Inside(c, r, job[c].orders)
            THEN [task[t] EXCEPT !.held = r, !.ran = TRUE]
            ELSE task[t]]

Shared(c) == {t \in Tasks : task[t].stage = "waiting" /\ Of[t] = c}

(* Mutant: a failed call does not release the lane.                        *)
SettledIfGood(c, r) ==
    /\ Stored(c, r, job[c].orders, Shared(c))
    /\ task' = Answered(c, r, Shared(c))
    /\ rotated' = IF r = 0 THEN rotated ELSE [rotated EXCEPT ![c][job[c].token] = r]
    /\ job' = [job EXCEPT ![c] = NoJob]
    /\ IF r = 0 THEN UNCHANGED lane ELSE Released(c)

(* Mutant: the rotation is recorded from the new token to the old.         *)
SettledSwapped(c, r) ==
    /\ Stored(c, r, job[c].orders, Shared(c))
    /\ task' = Answered(c, r, Shared(c))
    /\ rotated' = IF r = 0 THEN rotated ELSE [rotated EXCEPT ![c][r] = job[c].token]
    /\ job' = [job EXCEPT ![c] = NoJob]
    /\ Released(c)

(* The lane is released, the rotation recorded, the result stored, and     *)
(* everybody who shares the promise has it.  Nobody inside the lane does.  *)
Settled(c, r) ==
    /\ Stored(c, r, job[c].orders, Shared(c))
    /\ task' = Answered(c, r, Shared(c))
    /\ rotated' = IF r = 0 THEN rotated ELSE [rotated EXCEPT ![c][job[c].token] = r]
    /\ job' = [job EXCEPT ![c] = NoJob]
    /\ Released(c)

(* The call has returned the token r, or none: the lane is kept for        *)
(* CODEX_REFRESH_SPACING_MS if somebody waits in it.                       *)
Returned(c, r) ==
    IF HasSuccessor(c)
    THEN /\ job' = [job EXCEPT ![c].stage = "settling", ![c].result = r]
         /\ UNCHANGED <<row, rotated, lane, task, spoiled>>
    ELSE Settled(c, r)

(* The provider takes the token of c.                                      *)
Accepts(c) ==
    /\ job[c].stage = "calling"
    /\ ~revoked[c] /\ job[c].token = latest[c] /\ latest[c] < MaxToken[c]

(* It issues the next one.                                                 *)
Rotate(c) ==
    /\ Accepts(c)
    /\ latest' = [latest EXCEPT ![c] = @ + 1]
    /\ UNCHANGED <<revoked, lost>>
    /\ Returned(c, latest[c] + 1)

(* The connection drops, the fetch times out, or the answer is a 5xx or    *)
(* has no readable body, after the provider has issued the next token.     *)
Lose(c) ==
    /\ Accepts(c)
    /\ latest' = [latest EXCEPT ![c] = @ + 1]
    /\ lost' = [lost EXCEPT ![c] = TRUE]
    /\ revoked' = revoked
    /\ Returned(c, 0)

(* It has issued a later one already, or has revoked the family.           *)
Refuse(c) ==
    /\ job[c].stage = "calling"
    /\ revoked[c] \/ job[c].token # latest[c]
    /\ revoked' = [revoked EXCEPT ![c] = TRUE]
    /\ UNCHANGED <<latest, lost>>
    /\ Returned(c, 0)

(* The call fails without the provider taking the token.                   *)
Fail(c) ==
    /\ job[c].stage = "calling"
    /\ Returned(c, 0)
    /\ UNCHANGED provider

Settle(c) ==
    /\ job[c].stage = "settling"
    /\ Settled(c, job[c].result)
    /\ UNCHANGED provider

(* ROTATION_MAP_TTL_MS.                                                    *)
Forget(c, v) ==
    /\ rotated[c][v] # 0
    /\ rotated' = [rotated EXCEPT ![c][v] = 0]
    /\ UNCHANGED <<row, job, lane, task, provider, spoiled>>

(* The process dies; answers that were out or not yet stored are lost.     *)
Restart ==
    \E L \in SUBSET {c \in Connections : Accepts(c)} :
        /\ latest' = [c \in Connections |-> IF c \in L THEN latest[c] + 1 ELSE latest[c]]
        /\ lost' = [c \in Connections |->
                      \/ lost[c] \/ c \in L
                      \/ job[c].stage = "settling" /\ job[c].result # 0]
        /\ job' = [c \in Connections |-> NoJob]
        /\ rotated' = [c \in Connections |-> [v \in 1..MaxToken[c] |-> 0]]
        /\ ahead' = [x \in Tickets |-> {}] /\ tail' = NoTicket
        /\ task' = [t \in Tasks |-> Idle]
        /\ UNCHANGED <<row, revoked, spoiled>>

-----------------------------------------------------------------------------
Next ==
    \/ \E t \in Tasks :
          \/ Load(t) \/ Drop(t) \/ AskForLane(t) \/ Join(t) \/ UseMap(t) \/ UseRow(t)
          \/ Refresh(t) \/ RefreshBlind(t) \/ TimeOut(t) \/ Leave(t)
    \/ \E c \in Connections :
          \/ Call(c) \/ Rotate(c) \/ Lose(c) \/ Refuse(c) \/ Fail(c) \/ Settle(c)
          \/ \E v \in 1..MaxToken[c] : Forget(c, v)
    \/ Restart

Spec == Init /\ [][Next]_vars

(* A refresh that has the lane calls; the call ends, with a token or none, *)
(* and so does the settle gap; who has asked for the lane goes on when its *)
(* turn has come, and leaves.  Written out where the action is large: each *)
(* ends the state that enables it.                                         *)
Fairness ==
    /\ \A c \in Connections :
          WF_vars(Call(c)) /\ []<>(job[c].stage \notin {"calling", "settling"})
    /\ \A t \in {u \in Tasks : Kind[u] = "usage"} :
          []<>~(task[t].stage = "lane" /\ ahead[t] = {}) /\ WF_vars(Leave(t))

FairSpec == Spec /\ Fairness

-----------------------------------------------------------------------------
(* Properties                                                              *)

(* The tickets in the lane.                                                *)
Line ==
    {c \in Connections : job[c] # NoJob} \cup
    {t \in Tasks : task[t].stage \in {"lane", "leaving"}
                      \/ (Kind[t] = "usage" /\ task[t].stage = "waiting")}

(* The types; the tail and the tickets somebody waits for are in the lane, *)
(* and tokens are rotated to later ones.                                   *)
TypeOK ==
    /\ \A c \in Connections : row[c] \in 1..MaxToken[c] /\ latest[c] \in 1..MaxToken[c]
    /\ job \in [Connections ->
                  [stage : {"none", "lane", "calling", "settling"}, token : Nat, result : Nat,
                   orders : [by : Tasks \cup {NoTicket}, stores : BOOLEAN, guard : Nat]]]
    /\ \A c \in Connections : \A v \in 1..MaxToken[c] :
          rotated[c][v] = 0 \/ rotated[c][v] \in (v + 1)..MaxToken[c]
    /\ ahead \in [Tickets -> SUBSET Line] /\ tail \in Line \cup {NoTicket}
    /\ task \in [Tasks ->
                   [stage : {"idle", "loaded", "lane", "waiting", "leaving"},
                    held : Nat, first : Nat, ran : BOOLEAN]]
    /\ revoked \in [Connections -> BOOLEAN] /\ lost \in [Connections -> BOOLEAN]
    /\ spoiled \in [Connections -> BOOLEAN]

(***************************************************************************)
(* Accounts of one group never present their tokens at the same time, and  *)
(* the next waits until the last has settled (serializeRefresh), whatever  *)
(* calls fail and whoever comes while the lane is being dropped.           *)
(***************************************************************************)
OneCall ==
    \A c, d \in Connections :
        /\ job[c].stage \in {"calling", "settling"}
        /\ job[d].stage \in {"calling", "settling"}
        => c = d

(***************************************************************************)
(* A token that was rotated is not presented again, so the provider does   *)
(* not revoke the family, however old the credentials of a caller are      *)
(* (getAccessToken, lookupRotation, the staleness check); unless a token   *)
(* that was issued did not arrive, for then row and map still have the old *)
(* one, and refreshWithRetry presents it again (codex.ts:110-112), or the  *)
(* process died with it; or a token did not get into the row because the   *)
(* compare-and-swap or a failed write kept it out, or the row was set back *)
(* to a used token or could not be read.                                   *)
(***************************************************************************)
NoReuse == \A c \in Connections : revoked[c] => lost[c] \/ spoiled[c]

(* A refresh asked for from within the lane waits for the lane.            *)
Nested == \E t \in Tasks : Kind[t] = "usage" /\ task[t].stage = "waiting"

(***************************************************************************)
(* A refresh that waits for the lane gets it, whatever happens to those    *)
(* before it (serializeRefresh releases in its finally); only a refresh    *)
(* asked for from within the lane can keep it.                             *)
(***************************************************************************)
LaneMoves ==
    \A c \in Connections : (job[c].stage = "lane") ~> (job[c].stage # "lane" \/ Nested)

(***************************************************************************)
(* What serializeRefresh says of itself, "the queue keeps flowing": a      *)
(* refresh that waits for the lane gets it.                                *)
(***************************************************************************)
QueueFlows ==
    \A c \in Connections : (job[c].stage = "lane") ~> (job[c].stage # "lane")
=============================================================================
