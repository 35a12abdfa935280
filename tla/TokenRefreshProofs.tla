------------------------- MODULE TokenRefreshProofs -------------------------
(***************************************************************************)
(* Proofs about TokenRefresh for any number of accounts, callers and       *)
(* tokens: one refresh of the group at a time, and no token presented      *)
(* twice.                                                                  *)
(***************************************************************************)
EXTENDS TokenRefresh, TLAPS

-----------------------------------------------------------------------------
(* The invariant                                                           *)

JobType ==
    [stage : {"none", "lane", "calling", "settling"}, token : Nat, result : Nat,
     orders : [by : Tasks \cup {NoTicket}, stores : BOOLEAN, guard : Nat]]

TaskType ==
    [stage : {"idle", "loaded", "lane", "waiting", "leaving"},
     held : Nat, first : Nat, ran : BOOLEAN]

Types ==
    /\ job \in [Connections -> JobType] /\ task \in [Tasks -> TaskType]
    /\ \A c \in Connections :
          /\ job[c].stage = "none" => job[c] = NoJob
          /\ job[c].orders.by \in Tasks => Of[job[c].orders.by] = c
    /\ \A t \in Tasks : task[t].stage \in {"lane", "leaving"} => Kind[t] = "usage"
    /\ row \in [Connections -> Nat] /\ latest \in [Connections -> Nat]
    /\ DOMAIN rotated = Connections
    /\ \A c \in Connections : rotated[c] \in [1..MaxToken[c] -> Nat]
    /\ revoked \in [Connections -> BOOLEAN] /\ lost \in [Connections -> BOOLEAN]
    /\ spoiled \in [Connections -> BOOLEAN]

(* The lane is a line: of two tickets in it one waits for the other, and   *)
(* everybody is before the tail.                                           *)
LaneOrder ==
    /\ ahead \in [Tickets -> SUBSET Line]
    /\ tail \in Line \cup {NoTicket}
    /\ Line # {} => tail \in Line /\ Line \subseteq ahead[tail] \cup {tail}
    /\ \A x, y \in Line : x # y => x \in ahead[y] \/ y \in ahead[x]
    /\ \A x \in Line : x \notin ahead[x]

(* Whoever has the lane waits for nobody.                                  *)
Heads ==
    /\ \A c \in Connections : job[c].stage \in {"calling", "settling"} => ahead[c] = {}
    /\ \A t \in Tasks :
          Kind[t] = "usage" /\ task[t].stage \in {"leaving", "waiting"} => ahead[t] = {}

(* No token is later than the latest, and rotations lead to later ones.    *)
Bounded ==
    /\ \A c \in Connections :
          /\ row[c] \in 1..latest[c] /\ latest[c] \in 1..MaxToken[c]
          /\ \A v \in 1..MaxToken[c] : rotated[c][v] # 0 => rotated[c][v] \in (v + 1)..latest[c]
          /\ job[c] # NoJob => job[c].token \in 1..latest[c]
          /\ job[c].stage = "settling" /\ job[c].result # 0 =>
                job[c].result \in (job[c].token + 1)..latest[c]
    /\ \A t \in Tasks : task[t].stage # "idle" => task[t].held \in 1..latest[Of[t]]

(* No token was lost, kept out of the row or replaced in it by a used one. *)
Sound(c) == ~lost[c] /\ ~spoiled[c]

(* Then the row and the token presented are the latest; and the answer, if *)
(* there is one.                                                           *)
Current ==
    \A c \in Connections : Sound(c) =>
        /\ ~revoked[c]
        /\ job[c].stage # "settling" \/ job[c].result = 0 => row[c] = latest[c]
        /\ job[c].stage \in {"lane", "calling"} => job[c].token = latest[c]
        /\ job[c].stage = "settling" /\ job[c].result # 0 => job[c].result = latest[c]

(* A refresh that stores nothing inside the mutex has a caller who waits   *)
(* for it to the end, and will.                                            *)
Leaders ==
    \A c \in Connections : job[c] # NoJob /\ ~job[c].orders.stores =>
        /\ job[c].orders.by \in Tasks
        /\ Of[job[c].orders.by] = c
        /\ Kind[job[c].orders.by] \in {"export", "usage"}
        /\ task[job[c].orders.by].stage = "waiting"

IInv == Types /\ LaneOrder /\ Heads /\ Bounded /\ Current /\ Leaders

-----------------------------------------------------------------------------
(* The lane                                                                *)

(* A new ticket at the end of the lane.                                    *)
LEMMA LineUp ==
    ASSUME TokenConstants, LaneOrder, NEW x \in Tickets, x \notin Line,
           LinedUp(x), Line' = Line \cup {x}
    PROVE  LaneOrder' /\ \A y \in Line : ahead'[y] = ahead[y]
<1>1. x # NoTicket /\ NoTicket \notin Line
  BY DEF TokenConstants, Tickets, Line
<1>2. /\ ahead'[x] = Line /\ tail' = x
      /\ \A y \in Tickets : y # x => ahead'[y] = ahead[y]
      /\ ahead' \in [Tickets -> SUBSET Line']
  <2>1. (IF tail = NoTicket THEN {} ELSE ahead[tail] \cup {tail}) = Line
    BY <1>1 DEF LaneOrder, Tickets, Line
  <2> QED
    BY <2>1 DEF LinedUp, LaneOrder
<1> QED
  BY <1>1, <1>2 DEF LaneOrder, Tickets, Line

(* The first ticket leaves.                                                *)
LEMMA Release ==
    ASSUME TokenConstants, LaneOrder, NEW x \in Line, ahead[x] = {},
           Released(x), Line' = Line \ {x}
    PROVE  LaneOrder' /\ \A y \in Tickets : ahead[y] = {} => ahead'[y] = {}
<1>1. /\ tail' = (IF tail = x THEN NoTicket ELSE tail)
      /\ \A y \in Tickets : ahead'[y] = ahead[y] \ {x}
      /\ ahead' \in [Tickets -> SUBSET Line']
  BY DEF Released, LaneOrder
<1>2. Line \subseteq Tickets /\ NoTicket \notin Line
  BY DEF Line, Tickets, TokenConstants
<1>3. CASE tail = x
  BY <1>1, <1>2, <1>3 DEF LaneOrder
<1>4. CASE tail # x
  BY <1>1, <1>2, <1>4 DEF LaneOrder
<1> QED
  BY <1>3, <1>4

(* Two tickets in the lane do not both wait for nobody.                    *)
LEMMA OneHead ==
    ASSUME LaneOrder, NEW x \in Line, NEW y \in Line, ahead[x] = {}, ahead[y] = {}
    PROVE  x = y
  BY DEF LaneOrder

-----------------------------------------------------------------------------
(* Storing and answering                                                   *)

(* What storing the token r does to the row and its history.               *)
LEMMA StoredFacts ==
    ASSUME TokenConstants, Types, NEW c \in Connections, NEW r \in Nat, NEW o,
           NEW W \in SUBSET Tasks, Stored(c, r, o, W)
    PROVE  /\ row' \in [Connections -> Nat] /\ spoiled' \in [Connections -> BOOLEAN]
           /\ \A d \in Connections : d # c => row'[d] = row[d] /\ spoiled'[d] = spoiled[d]
           /\ row'[c] \in {row[c], r} /\ (r = 0 => row'[c] = row[c])
           /\ ~spoiled'[c] => ~spoiled[c] /\ row'[c] >= row[c]
           /\ ~spoiled'[c] /\ r # 0 /\ Skips(c, o) => row'[c] >= r
           /\ ~spoiled'[c] /\ Inside(c, r, o) => row'[c] >= r
           /\ ~spoiled'[c] /\ r # 0 /\ (\E t \in W : Kind[t] = "export") => row'[c] >= r
<1> DEFINE spoils == row'[c] < row[c] \/ (r # 0 /\ Skips(c, o) /\ row'[c] # r)
           written == Written(c, r, o, W)
<1>0. row[c] \in Nat /\ row \in [Connections -> Nat] /\ spoiled \in [Connections -> BOOLEAN]
  BY DEF Types
<1>1. /\ Inside(c, r, o) => written
      /\ r # 0 /\ (\E t \in W : Kind[t] = "export") => written
      /\ r = 0 => ~written
  <2>1. (\E t \in W : Kind[t] = "export") => After(c, r, o, W) # {}
    BY DEF After
  <2> QED
    BY <2>1 DEF Written, Inside
<1>2. CASE WritesFail(c, r, o, W)
  <2>1. /\ row' = row /\ written
        /\ spoiled' = [spoiled EXCEPT ![c] = @ \/ row[c] < r]
    BY <1>2 DEF WritesFail
  <2>2. /\ spoiled' \in [Connections -> BOOLEAN]
        /\ \A d \in Connections : d # c => spoiled'[d] = spoiled[d]
        /\ spoiled'[c] <=> (spoiled[c] \/ row[c] < r)
    BY <1>0, <2>1
  <2> HIDE DEF written
  <2> QED
    BY <1>0, <1>1, <2>1, <2>2
<1>3. CASE /\ row' = [row EXCEPT ![c] = IF written THEN r ELSE @]
           /\ spoiled' = [spoiled EXCEPT ![c] = @ \/ spoils]
  <2>1. /\ row' \in [Connections -> Nat]
        /\ \A d \in Connections : d # c => row'[d] = row[d]
        /\ row'[c] = IF written THEN r ELSE row[c]
    <3> HIDE DEF written
    <3> QED
      BY <1>0, <1>3
  <2>2. /\ spoiled' \in [Connections -> BOOLEAN]
        /\ \A d \in Connections : d # c => spoiled'[d] = spoiled[d]
        /\ spoiled'[c] <=> (spoiled[c] \/ spoils)
    <3> HIDE DEF spoils
    <3>1. spoils \in BOOLEAN
      BY DEF spoils
    <3> QED
      BY <1>0, <1>3, <3>1, Zenon
  <2> HIDE DEF written
  <2> QED
    BY <1>0, <1>1, <2>1, <2>2
<1> QED
  BY <1>2, <1>3, Zenon DEF Stored

(* What becomes of a task when the refresh of c has the result r.          *)
LEMMA AnsweredFacts ==
    ASSUME TokenConstants, Types, NEW c \in Connections, NEW r \in Nat,
           NEW t \in Tasks, task' = Answered(c, r, Shared(c))
    PROVE  /\ task'[t] \in TaskType
           /\ t \in Shared(c) =>
                \/ task'[t].stage = "idle"
                \/ Kind[t] = "chat" /\ task'[t].stage = "loaded" /\ task'[t].held = task[t].held
           /\ t \notin Shared(c) =>
                /\ task'[t].stage = task[t].stage
                /\ \/ task'[t].held = task[t].held
                   \/ Of[t] = c /\ r # 0 /\ task'[t].held = r
<1>1. task[t] \in TaskType /\ (t = job[c].orders.by => Of[t] = c)
  BY DEF Types
<1>2. task'[t] = IF t \in Shared(c)
       THEN IF r = 0 /\ Kind[t] = "chat" THEN [task[t] EXCEPT !.stage = "loaded"] ELSE Idle
       ELSE IF t = job[c].orders.by /\ Kind[t] = "chat" /\ Inside(c, r, job[c].orders)
            THEN [task[t] EXCEPT !.held = r, !.ran = TRUE]
            ELSE task[t]
  BY Zenon DEF Answered
<1>3. Idle \in TaskType
  BY DEF Idle, TaskType
<1>4. [task[t] EXCEPT !.stage = "loaded"] \in TaskType
  BY <1>1 DEF TaskType
<1>5. [task[t] EXCEPT !.held = r, !.ran = TRUE] \in TaskType
  BY <1>1 DEF TaskType
<1>6. Inside(c, r, job[c].orders) => r # 0
  BY DEF Inside
<1>7. /\ Idle.stage = "idle"
      /\ [task[t] EXCEPT !.stage = "loaded"].stage = "loaded"
      /\ [task[t] EXCEPT !.stage = "loaded"].held = task[t].held
      /\ [task[t] EXCEPT !.held = r, !.ran = TRUE].stage = task[t].stage
      /\ [task[t] EXCEPT !.held = r, !.ran = TRUE].held = r
  BY <1>1 DEF TaskType, Idle
<1>8. CASE t \in Shared(c)
  BY <1>2, <1>3, <1>4, <1>7, <1>8, Zenon
<1>9. CASE t \notin Shared(c)
  BY <1>1, <1>2, <1>5, <1>6, <1>7, <1>9, Zenon
<1> QED
  BY <1>8, <1>9

-----------------------------------------------------------------------------
(* Types                                                                   *)

(* Who is in the lane, told from the stages.                               *)
LEMMA LineStages ==
    ASSUME TokenConstants, Types
    PROVE  Line = {c \in Connections : job[c].stage # "none"} \cup
                  {t \in Tasks : Kind[t] = "usage" /\ task[t].stage \in {"lane", "leaving", "waiting"}}
<1>1. \A c \in Connections : job[c] # NoJob <=> job[c].stage # "none"
  <2>1. NoJob.stage = "none"
    BY DEF NoJob
  <2>2. \A c \in Connections : job[c].stage = "none" => job[c] = NoJob
    BY Zenon DEF Types
  <2> QED
    BY <2>1, <2>2, Zenon
<1>2. \A t \in Tasks : task[t].stage \in {"lane", "leaving"} => Kind[t] = "usage"
  BY DEF Types
<1> QED
  BY <1>1, <1>2 DEF Line

(* A refresh that settles keeps the types.                                 *)
LEMMA SettledTypes ==
    ASSUME TokenConstants, Types, NEW c \in Connections, NEW r \in Nat, Settled(c, r),
           latest' \in [Connections -> Nat], revoked' \in [Connections -> BOOLEAN],
           lost' \in [Connections -> BOOLEAN]
    PROVE  Types'
<1>1. row' \in [Connections -> Nat] /\ spoiled' \in [Connections -> BOOLEAN]
  <2>1. Stored(c, r, job[c].orders, Shared(c)) /\ Shared(c) \in SUBSET Tasks
    BY DEF Settled, Shared
  <2> QED
    BY <2>1, StoredFacts
<1>2. task' = Answered(c, r, Shared(c))
  BY DEF Settled
<1>3. task' \in [Tasks -> TaskType]
  <2>1. task' = [t \in Tasks |-> task'[t]]
    BY <1>2, Zenon DEF Answered
  <2>2. \A t \in Tasks : task'[t] \in TaskType
    BY <1>2, AnsweredFacts
  <2> QED
    BY <2>1, <2>2, Zenon
<1>4. NoJob \in JobType
  <2>1. NoOrders \in [by : Tasks \cup {NoTicket}, stores : BOOLEAN, guard : Nat]
    BY DEF NoOrders
  <2> QED
    BY <2>1 DEF NoJob, JobType
<1>5. job' = [job EXCEPT ![c] = NoJob]
  BY DEF Settled
<1>6. job' \in [Connections -> JobType]
  BY <1>4, <1>5 DEF Types
<1>7. \A d \in Connections :
         /\ job'[d].stage = "none" => job'[d] = NoJob
         /\ job'[d].orders.by \in Tasks => Of[job'[d].orders.by] = d
  <2>1. NoJob.orders.by \notin Tasks
    BY DEF NoJob, NoOrders, TokenConstants, Tickets
  <2> QED
    BY <1>5, <2>1 DEF Types
<1>8. \A t \in Tasks : task'[t].stage \in {"lane", "leaving"} => Kind[t] = "usage"
  <2> TAKE t \in Tasks
  <2>1. task[t] \in TaskType /\ (task[t].stage \in {"lane", "leaving"} => Kind[t] = "usage")
    BY DEF Types
  <2>2. task'[t].stage \in {"idle", "loaded"} \/ task'[t].stage = task[t].stage
    BY <1>2, AnsweredFacts
  <2> QED
    BY <2>1, <2>2
<1>9. DOMAIN rotated' = Connections /\ \A d \in Connections : rotated'[d] \in [1..MaxToken[d] -> Nat]
  <2>1. rotated' = rotated \/ rotated' = [rotated EXCEPT ![c][job[c].token] = r]
    BY DEF Settled
  <2>2. [rotated[c] EXCEPT ![job[c].token] = r] \in [1..MaxToken[c] -> Nat]
    BY DEF Types
  <2> QED
    BY <2>1, <2>2 DEF Types
<1> QED
  BY <1>1, <1>3, <1>6, <1>7, <1>8, <1>9 DEF Types

(* A task that has a token without a refresh keeps the types.              *)
LEMMA GivenTypes ==
    ASSUME TokenConstants, Types, NEW t \in Tasks, NEW r \in Nat, Given(t, r)
    PROVE  Types'
<1>1. Of[t] \in Connections /\ {t} \in SUBSET Tasks
  BY DEF TokenConstants
<1>2. row' \in [Connections -> Nat] /\ spoiled' \in [Connections -> BOOLEAN]
  <2>1. CASE Kind[t] # "usage"
    <3>1. Stored(Of[t], r, Orders(t), {t})
      BY <2>1 DEF Given
    <3> QED
      BY <1>1, <3>1, StoredFacts
  <2>2. CASE Kind[t] = "usage"
    BY <2>2 DEF Given, Types
  <2> QED
    BY <2>1, <2>2
<1>3. /\ task' \in [Tasks -> TaskType]
      /\ \A u \in Tasks : task'[u].stage \in {"lane", "leaving"} => Kind[u] = "usage"
  <2>1. CASE Kind[t] # "usage"
    <3>1. task' = [task EXCEPT ![t] = Idle]
      BY <2>1 DEF Given
    <3>2. Idle \in TaskType /\ Idle.stage = "idle"
      BY DEF Idle, TaskType
    <3> QED
      BY <3>1, <3>2 DEF Types
  <2>2. CASE Kind[t] = "usage"
    <3>1. task' = [task EXCEPT ![t].held = r, ![t].stage = "leaving"]
      BY <2>2 DEF Given
    <3>2. [task[t] EXCEPT !.held = r, !.stage = "leaving"] \in TaskType
      <4>1. task[t] \in TaskType
        BY DEF Types
      <4> QED
        BY <4>1 DEF TaskType
    <3> QED
      BY <2>2, <3>1, <3>2 DEF Types
  <2> QED
    BY <2>1, <2>2
<1> QED
  BY <1>2, <1>3 DEF Given, provider, lane, Types

(* A change of one task, and of nothing else the types speak of.           *)
LEMMA TaskTypes ==
    ASSUME Types, NEW t \in Tasks, NEW v \in TaskType, task' = [task EXCEPT ![t] = v],
           v.stage \in {"lane", "leaving"} => Kind[t] = "usage",
           job' = job, rotated' = rotated, row' \in [Connections -> Nat],
           spoiled' \in [Connections -> BOOLEAN], UNCHANGED provider
    PROVE  Types'
  BY DEF Types, provider

(* A change of one job, and of nothing else the types speak of.            *)
LEMMA JobTypes ==
    ASSUME Types, NEW c \in Connections, NEW v \in JobType, job' = [job EXCEPT ![c] = v],
           v.stage # "none", v.orders.by \in Tasks => Of[v.orders.by] = c,
           task' \in [Tasks -> TaskType],
           \A t \in Tasks : task'[t].stage \in {"lane", "leaving"} =>
               Kind[t] = "usage",
           rotated' = rotated, row' = row, spoiled' \in [Connections -> BOOLEAN],
           latest' \in [Connections -> Nat], revoked' \in [Connections -> BOOLEAN],
           lost' \in [Connections -> BOOLEAN]
    PROVE  Types'
  BY DEF Types

(* The orders of a task have their type.                                   *)
LEMMA OrdersType ==
    ASSUME Types, NEW t \in Tasks
    PROVE  Orders(t) \in [by : Tasks \cup {NoTicket}, stores : BOOLEAN, guard : Nat]
<1>1. (IF Kind[t] = "chat" THEN task[t].first ELSE 0) \in Nat
  BY DEF Types, TaskType
<1> QED
  BY <1>1 DEF Orders

(* The answer of the provider keeps the types.                             *)
LEMMA ReturnedTypes ==
    ASSUME TokenConstants, Types, NEW c \in Connections, NEW r \in Nat, Returned(c, r),
           job[c].stage = "calling",
           latest' \in [Connections -> Nat], revoked' \in [Connections -> BOOLEAN],
           lost' \in [Connections -> BOOLEAN]
    PROVE  Types'
<1>1. CASE HasSuccessor(c)
  <2>1. /\ job' = [job EXCEPT ![c].stage = "settling", ![c].result = r]
        /\ row' = row /\ rotated' = rotated /\ task' = task /\ spoiled' = spoiled
    BY <1>1 DEF Returned
  <2> DEFINE v == [job[c] EXCEPT !.stage = "settling", !.result = r]
  <2>2. v \in JobType /\ v.stage = "settling" /\ v.orders = job[c].orders
    <3>1. job[c] \in JobType
      BY DEF Types
    <3> QED
      BY <3>1 DEF JobType
  <2>3. job' = [job EXCEPT ![c] = v]
    BY <2>1 DEF Types
  <2>4. /\ v.orders.by \in Tasks => Of[v.orders.by] = c
        /\ task' \in [Tasks -> TaskType] /\ spoiled' \in [Connections -> BOOLEAN]
        /\ \A t \in Tasks : task'[t].stage \in {"lane", "leaving"} => Kind[t] = "usage"
    BY <2>1, <2>2 DEF Types
  <2> HIDE DEF v
  <2> QED
    BY <2>1, <2>2, <2>3, <2>4, JobTypes
<1>2. CASE ~HasSuccessor(c)
  BY <1>2, SettledTypes DEF Returned
<1> QED
  BY <1>1, <1>2

(* Every step keeps the types.                                             *)
LEMMA TypesStep ==
    ASSUME TokenConstants, Types, Bounded, Next
    PROVE  Types'
<1>1. ASSUME NEW t \in Tasks PROVE Load(t) => Types'
  <2> DEFINE v == [stage |-> "loaded", held |-> row[Of[t]], first |-> row[Of[t]], ran |-> FALSE]
  <2>1. v \in TaskType /\ v.stage = "loaded"
    <3>1. row[Of[t]] \in Nat
      BY DEF Types, TokenConstants
    <3> QED
      BY <3>1 DEF TaskType
  <2> HIDE DEF v
  <2>2. HAVE Load(t)
  <2>3. task' = [task EXCEPT ![t] = v]
    BY <2>2, Zenon DEF Load, v
  <2> QED
    BY <2>1, <2>2, <2>3, TaskTypes DEF Load, provider, Types
<1>2. ASSUME NEW t \in Tasks PROVE Drop(t) => Types'
  <2>1. HAVE Drop(t)
  <2>2. Idle \in TaskType /\ Idle.stage = "idle"
    BY DEF Idle, TaskType
  <2>3. task' = [task EXCEPT ![t] = Idle]
    BY <2>1, Zenon DEF Drop
  <2>4. /\ task' \in [Tasks -> TaskType]
        /\ \A u \in Tasks : task'[u].stage \in {"lane", "leaving"} => Kind[u] = "usage"
    BY <2>2, <2>3 DEF Types
  <2>5. job' = [c \in Connections |->
                  IF job[c].orders.by = t THEN [job[c] EXCEPT !.orders.by = NoTicket] ELSE job[c]]
    BY <2>1, Zenon DEF Drop
  <2>6. \A c \in Connections :
           /\ job'[c] \in JobType
           /\ job'[c].stage = "none" => job'[c] = NoJob
           /\ job'[c].orders.by \in Tasks => Of[job'[c].orders.by] = c
    <3> TAKE c \in Connections
    <3>1. job[c] \in JobType /\ (job[c].stage = "none" => job[c] = NoJob)
          /\ (job[c].orders.by \in Tasks => Of[job[c].orders.by] = c)
      BY DEF Types
    <3>2. NoJob.orders.by = NoTicket /\ NoTicket # t /\ NoTicket \notin Tasks
      BY DEF NoJob, NoOrders, TokenConstants, Tickets
    <3>3. CASE job[c].orders.by = t
      <4>1. job'[c] = [job[c] EXCEPT !.orders.by = NoTicket]
        BY <2>5, <3>3
      <4>2. [job[c] EXCEPT !.orders.by = NoTicket] \in JobType
        BY <3>1 DEF JobType
      <4>3. /\ [job[c] EXCEPT !.orders.by = NoTicket].stage = job[c].stage
            /\ [job[c] EXCEPT !.orders.by = NoTicket].orders.by = NoTicket
        BY <3>1 DEF JobType
      <4> QED
        BY <3>1, <3>2, <3>3, <4>1, <4>2, <4>3, Zenon
    <3>4. CASE job[c].orders.by # t
      BY <2>5, <3>1, <3>4
    <3> QED
      BY <3>3, <3>4
  <2>7. job' \in [Connections -> JobType]
    BY <2>5, <2>6, Zenon
  <2> QED
    BY <2>1, <2>4, <2>6, <2>7 DEF Drop, provider, Types
<1>3. ASSUME NEW t \in Tasks, NEW w \in {"lane", "waiting", "loaded"},
             task' = [task EXCEPT ![t].stage = w], w = "lane" => Kind[t] = "usage",
             UNCHANGED <<row, job, rotated, provider, spoiled>>
      PROVE  Types'
  <2> DEFINE v == [task[t] EXCEPT !.stage = w]
  <2>1. v \in TaskType /\ v.stage = w
    <3>1. task[t] \in TaskType
      BY DEF Types
    <3> QED
      BY <3>1 DEF TaskType
  <2>2. task' = [task EXCEPT ![t] = v]
    BY <1>3 DEF Types
  <2> HIDE DEF v
  <2> QED
    BY <1>3, <2>1, <2>2, TaskTypes DEF provider, Types
<1>4. ASSUME NEW t \in Tasks PROVE AskForLane(t) \/ Join(t) \/ TimeOut(t) => Types'
  BY <1>3 DEF AskForLane, Join, TimeOut
<1>5. ASSUME NEW t \in Tasks PROVE UseMap(t) => Types'
  <2>1. HAVE UseMap(t)
  <2>2. Of[t] \in Connections /\ task[t].stage # "idle"
    BY <2>1 DEF UseMap, Calls, TokenConstants
  <2>3. task[t].held \in 1..MaxToken[Of[t]]
    BY <2>2 DEF Bounded, TokenConstants
  <2>4. rotated[Of[t]][task[t].held] \in Nat
    BY <2>2, <2>3 DEF Types
  <2> QED
    BY <2>1, <2>4, GivenTypes DEF UseMap
<1>6. ASSUME NEW t \in Tasks PROVE UseRow(t) => Types'
  <2>1. row[Of[t]] \in Nat
    BY DEF Types, TokenConstants
  <2> QED
    BY <2>1, GivenTypes DEF UseRow
<1>7. ASSUME NEW t \in Tasks PROVE Refresh(t) \/ RefreshBlind(t) => Types'
  <2>1. HAVE Refresh(t) \/ RefreshBlind(t)
  <2> DEFINE c == Of[t]
  <2>0. PICK p \in Nat : /\ Starts(t, p)
                         /\ spoiled' = spoiled \/ spoiled' = [spoiled EXCEPT ![c] = TRUE]
    <3>1. row[Of[t]] \in Nat /\ task[t].held \in Nat
      BY DEF Types, TaskType, TokenConstants
    <3> QED
      BY <2>1, <3>1 DEF Refresh, RefreshBlind, Presented
  <2> DEFINE v == [stage |-> "lane", token |-> p, result |-> 0, orders |-> Orders(t)]
             w == [task[t] EXCEPT !.stage = "waiting", !.held = p]
  <2>2. c \in Connections /\ spoiled' \in [Connections -> BOOLEAN]
    BY <2>0 DEF Types, TokenConstants
  <2>3. v \in JobType /\ v.stage = "lane" /\ v.orders = Orders(t)
    BY <2>2, OrdersType DEF JobType
  <2>4. v.orders.by \in Tasks => Of[v.orders.by] = c
    BY <2>3 DEF Orders
  <2>5. w \in TaskType /\ w.stage = "waiting"
    <3>1. task[t] \in TaskType
      BY DEF Types
    <3> QED
      BY <2>2, <3>1 DEF TaskType
  <2>6. job' = [job EXCEPT ![c] = v]
    BY <2>0 DEF Starts
  <2>7. task' = [task EXCEPT ![t] = w]
    BY <2>0 DEF Starts, Types
  <2> HIDE DEF v, w
  <2>8. /\ task' \in [Tasks -> TaskType]
        /\ \A u \in Tasks : task'[u].stage \in {"lane", "leaving"} => Kind[u] = "usage"
    BY <2>5, <2>7 DEF Types
  <2> QED
    BY <2>0, <2>2, <2>3, <2>4, <2>6, <2>8, JobTypes DEF Starts, provider, Types
<1>8. ASSUME NEW t \in Tasks PROVE Leave(t) => Types'
  <2>1. HAVE Leave(t)
  <2>2. Idle \in TaskType /\ Idle.stage = "idle"
    BY DEF Idle, TaskType
  <2>3. task' = [task EXCEPT ![t] = Idle]
    BY <2>1, Zenon DEF Leave
  <2>4. row' \in [Connections -> Nat] /\ spoiled' \in [Connections -> BOOLEAN]
    <3>1. task[t].held \in Nat
      BY DEF Types, TaskType
    <3>2. row' \in {row, [row EXCEPT ![Of[t]] = task[t].held]}
          /\ spoiled' = [spoiled EXCEPT ![Of[t]] = @ \/ row'[Of[t]] < row[Of[t]]]
      BY <2>1, Zenon DEF Leave
    <3> QED
      BY <3>1, <3>2 DEF Types
  <2> QED
    BY <2>1, <2>2, <2>3, <2>4, TaskTypes DEF Leave, provider, Types
<1>9. ASSUME NEW c \in Connections PROVE Call(c) => Types'
  <2>1. HAVE Call(c)
  <2> DEFINE v == [job[c] EXCEPT !.stage = "calling"]
  <2>2. v \in JobType /\ v.stage = "calling" /\ v.orders = job[c].orders
    <3>1. job[c] \in JobType
      BY DEF Types
    <3> QED
      BY <3>1 DEF JobType
  <2>3. job' = [job EXCEPT ![c] = v]
    BY <2>1 DEF Call, Types
  <2>4. v.orders.by \in Tasks => Of[v.orders.by] = c
    BY <2>2 DEF Types
  <2> HIDE DEF v
  <2> QED
    BY <2>1, <2>2, <2>3, <2>4, JobTypes DEF Call, provider, Types
<1>10. ASSUME NEW c \in Connections
       PROVE  Rotate(c) \/ Lose(c) \/ Refuse(c) \/ Fail(c) => Types'
  <2>1. HAVE Rotate(c) \/ Lose(c) \/ Refuse(c) \/ Fail(c)
  <2>2. latest[c] + 1 \in Nat
    BY DEF Types
  <2>3. /\ latest' \in [Connections -> Nat] /\ revoked' \in [Connections -> BOOLEAN]
        /\ lost' \in [Connections -> BOOLEAN]
    <3>1. /\ latest' \in {latest, [latest EXCEPT ![c] = @ + 1]}
          /\ revoked' \in {revoked, [revoked EXCEPT ![c] = TRUE]}
          /\ lost' \in {lost, [lost EXCEPT ![c] = TRUE]}
      BY <2>1 DEF Rotate, Lose, Refuse, Fail, provider
    <3>2. /\ latest \in [Connections -> Nat] /\ revoked \in [Connections -> BOOLEAN]
          /\ lost \in [Connections -> BOOLEAN]
      BY DEF Types
    <3>3. latest' \in [Connections -> Nat]
      BY <2>2, <3>1, <3>2
    <3>4. revoked' \in [Connections -> BOOLEAN] /\ lost' \in [Connections -> BOOLEAN]
      BY <3>1, <3>2
    <3> QED
      BY <3>3, <3>4
  <2>4. job[c].stage = "calling" /\ (Returned(c, 0) \/ Returned(c, latest[c] + 1))
    BY <2>1 DEF Rotate, Lose, Refuse, Fail, Accepts
  <2> QED
    BY <2>2, <2>3, <2>4, ReturnedTypes
<1>11. ASSUME NEW c \in Connections PROVE Settle(c) => Types'
  <2>1. job[c].result \in Nat
    BY DEF Types, JobType
  <2> QED
    BY <2>1, SettledTypes DEF Settle, provider, Types
<1>12. ASSUME NEW c \in Connections, NEW v \in 1..MaxToken[c] PROVE Forget(c, v) => Types'
  <2>1. HAVE Forget(c, v)
  <2>2. [rotated[c] EXCEPT ![v] = 0] \in [1..MaxToken[c] -> Nat]
    BY DEF Types
  <2>3. /\ DOMAIN rotated' = Connections
        /\ \A d \in Connections : rotated'[d] \in [1..MaxToken[d] -> Nat]
    BY <2>1, <2>2 DEF Forget, Types
  <2> QED
    BY <2>1, <2>3 DEF Forget, provider, Types
<1>13. Restart => Types'
  <2>1. HAVE Restart
  <2>2. NoJob \in JobType /\ NoJob.orders.by = NoTicket
    <3>1. NoOrders \in [by : Tasks \cup {NoTicket}, stores : BOOLEAN, guard : Nat]
      BY DEF NoOrders
    <3> QED
      BY <3>1 DEF NoJob, JobType, NoOrders
  <2>3. Idle \in TaskType /\ Idle.stage = "idle"
    BY DEF Idle, TaskType
  <2>4. /\ job' = [c \in Connections |-> NoJob]
        /\ rotated' = [c \in Connections |-> [v \in 1..MaxToken[c] |-> 0]]
        /\ task' = [t \in Tasks |-> Idle]
        /\ row' = row /\ revoked' = revoked /\ spoiled' = spoiled
    BY <2>1 DEF Restart
  <2>5. latest' \in [Connections -> Nat] /\ lost' \in [Connections -> BOOLEAN]
    <3>1. PICK L \in SUBSET Connections :
            /\ latest' = [c \in Connections |-> IF c \in L THEN latest[c] + 1 ELSE latest[c]]
            /\ lost' = [c \in Connections |->
                          \/ lost[c] \/ c \in L
                          \/ job[c].stage = "settling" /\ job[c].result # 0]
      BY <2>1 DEF Restart
    <3>2. \A c \in Connections : (IF c \in L THEN latest[c] + 1 ELSE latest[c]) \in Nat
      <4> TAKE c \in Connections
      <4>1. latest \in [Connections -> Nat]
        BY Zenon DEF Types
      <4>2. latest[c] \in Nat
        BY <4>1
      <4> QED
        BY <4>2
    <3>3. latest' \in [Connections -> Nat]
      BY <3>1, <3>2
    <3>4. lost' \in [Connections -> BOOLEAN]
      BY <3>1, Zenon
    <3> QED
      BY <3>3, <3>4
  <2>6. NoTicket \notin Tasks
    BY DEF TokenConstants, Tickets
  <2> QED
    BY <2>2, <2>3, <2>4, <2>5, <2>6 DEF Types
<1> QED
  BY <1>1, <1>2, <1>4, <1>5, <1>6, <1>7, <1>8, <1>9, <1>10, <1>11, <1>12, <1>13 DEF Next
-----------------------------------------------------------------------------
(* The order of the lane                                                   *)

(* Who is in the lane in terms of the stages, as LineStages says.          *)
InLine(x) ==
    \/ x \in Connections /\ job[x].stage # "none"
    \/ x \in Tasks /\ Kind[x] = "usage" /\ task[x].stage \in {"lane", "leaving", "waiting"}

(* Line is that, before a step and after it.                               *)
LEMMA LineNow ==
    ASSUME TokenConstants, Types
    PROVE  \A x : x \in Line <=> InLine(x)
  BY LineStages DEF InLine

(* After a step: the same of the next state.                               *)
LEMMA LineThen ==
    ASSUME TokenConstants, Types'
    PROVE  \A x : x \in Line' <=> InLine(x)'
<1>1. \A c \in Connections : job'[c] # NoJob <=> job'[c].stage # "none"
  <2>1. NoJob.stage = "none"
    BY DEF NoJob
  <2>2. \A c \in Connections : job'[c].stage = "none" => job'[c] = NoJob
    BY Zenon DEF Types
  <2> QED
    BY <2>1, <2>2, Zenon
<1>2. \A t \in Tasks : task'[t].stage \in {"lane", "leaving"} => Kind[t] = "usage"
  BY DEF Types
<1> QED
  BY <1>1, <1>2 DEF Line, InLine

(* While a refresh has the lane nobody inside the lane waits for one.      *)
LEMMA NobodyNested ==
    ASSUME TokenConstants, Types, LaneOrder, Heads, NEW c \in Connections,
           job[c].stage \in {"calling", "settling"}
    PROVE  \A t \in Tasks : Kind[t] = "usage" => task[t].stage \notin {"leaving", "waiting"}
<1> SUFFICES ASSUME NEW t \in Tasks, Kind[t] = "usage", task[t].stage \in {"leaving", "waiting"}
             PROVE  FALSE
  OBVIOUS
<1>1. c \in Line /\ t \in Line
  BY LineNow DEF InLine
<1>2. ahead[c] = {} /\ ahead[t] = {}
  BY DEF Heads
<1>3. c # t
  BY DEF TokenConstants
<1> QED
  BY <1>1, <1>2, <1>3, OneHead

(* A refresh that settles leaves the lane, and nobody else does.           *)
LEMMA SettledLane ==
    ASSUME TokenConstants, Types, LaneOrder, Heads, Types', NEW c \in Connections, NEW r \in Nat,
           job[c].stage \in {"calling", "settling"}, Settled(c, r)
    PROVE  LaneOrder' /\ Heads'
<1>1. \A t \in Tasks : Kind[t] = "usage" => task'[t].stage = task[t].stage
  <2> SUFFICES ASSUME NEW t \in Tasks, Kind[t] = "usage" PROVE task'[t].stage = task[t].stage
    OBVIOUS
  <2>1. t \notin Shared(c)
    BY NobodyNested DEF Shared
  <2>2. task' = Answered(c, r, Shared(c))
    BY DEF Settled
  <2> QED
    BY <2>1, <2>2, AnsweredFacts
<1>2. /\ job'[c].stage = "none"
      /\ \A d \in Connections : d # c => job'[d] = job[d]
  <2>1. job' = [job EXCEPT ![c] = NoJob] /\ NoJob.stage = "none"
    BY DEF Settled, NoJob
  <2> QED
    BY <2>1 DEF Types
<1>3. c \in Line /\ c \in Tickets /\ c \notin Tasks
  BY LineNow DEF InLine, Tickets, TokenConstants
<1>4. Line' = Line \ {c}
  <2>1. \A x : InLine(x)' <=> InLine(x) /\ x # c
    BY <1>1, <1>2, <1>3 DEF InLine
  <2> QED
    BY <2>1, LineNow, LineThen
<1>5. ahead[c] = {} /\ Released(c)
  BY DEF Heads, Settled
<1>6. LaneOrder' /\ \A y \in Tickets : ahead[y] = {} => ahead'[y] = {}
  BY <1>3, <1>4, <1>5, Release
<1>7. Heads'
  <2>1. \A d \in Connections : job'[d].stage \in {"calling", "settling"} => ahead'[d] = {}
    BY <1>2, <1>6 DEF Heads, Tickets
  <2>2. \A t \in Tasks : Kind[t] = "usage" /\ task'[t].stage \in {"leaving", "waiting"} =>
           ahead'[t] = {}
    BY <1>1, <1>6 DEF Heads, Tickets
  <2> QED
    BY <2>1, <2>2 DEF Heads
<1> QED
  BY <1>6, <1>7

(* A step that leaves the lane alone and takes nobody in or out; who has   *)
(* it afterwards waited for nobody.                                        *)
LEMMA LaneKept ==
    ASSUME TokenConstants, Types, LaneOrder, Heads, Types', UNCHANGED lane,
           \A c \in Connections :
               /\ job'[c].stage = "none" <=> job[c].stage = "none"
               /\ job'[c].stage \in {"calling", "settling"} =>
                     job[c].stage \in {"calling", "settling"} \/ ahead[c] = {},
           \A t \in Tasks : Kind[t] = "usage" =>
               /\ task'[t].stage \in {"lane", "leaving", "waiting"}
                     <=> task[t].stage \in {"lane", "leaving", "waiting"}
               /\ task'[t].stage \in {"leaving", "waiting"} =>
                     task[t].stage \in {"leaving", "waiting"} \/ ahead[t] = {}
    PROVE  LaneOrder' /\ Heads'
<1>1. Line' = Line
  <2>1. \A x : InLine(x)' <=> InLine(x)
    BY DEF InLine
  <2> QED
    BY <2>1, LineNow, LineThen
<1>2. ahead' = ahead /\ tail' = tail
  BY DEF lane
<1>3. LaneOrder'
  BY <1>1, <1>2 DEF LaneOrder
<1>4. Heads'
  BY <1>2 DEF Heads
<1> QED
  BY <1>3, <1>4

(* Every step keeps the order of the lane.                                 *)
LEMMA LaneStep ==
    ASSUME TokenConstants, Types, LaneOrder, Heads, Types', Next
    PROVE  LaneOrder' /\ Heads'
<1>1. ASSUME NEW t \in Tasks, Load(t) PROVE LaneOrder' /\ Heads'
  <2>1. \A u \in Tasks : u # t => task'[u] = task[u]
    BY <1>1 DEF Load, Types
  <2>2. task[t].stage = "idle" /\ task'[t].stage = "loaded"
    BY <1>1 DEF Load, Types
  <2>3. job' = job /\ UNCHANGED lane
    BY <1>1 DEF Load
  <2> QED
    BY <2>1, <2>2, <2>3, LaneKept
<1>2. ASSUME NEW t \in Tasks, Drop(t) PROVE LaneOrder' /\ Heads'
  <2>1. \A u \in Tasks : u # t => task'[u] = task[u]
    BY <1>2 DEF Drop, Types
  <2>2. task[t].stage = "loaded" /\ task'[t].stage = "idle"
    BY <1>2 DEF Drop, Types, Idle
  <2>3. \A c \in Connections : job'[c].stage = job[c].stage
    <3> TAKE c \in Connections
    <3>1. job'[c] = IF job[c].orders.by = t THEN [job[c] EXCEPT !.orders.by = NoTicket] ELSE job[c]
      BY <1>2 DEF Drop
    <3>2. job[c] \in JobType
      BY DEF Types
    <3>3. [job[c] EXCEPT !.orders.by = NoTicket].stage = job[c].stage
      BY <3>2 DEF JobType
    <3> QED
      BY <3>1, <3>3
  <2>4. UNCHANGED lane
    BY <1>2 DEF Drop
  <2> QED
    BY <2>1, <2>2, <2>3, <2>4, LaneKept
<1>3. ASSUME NEW t \in Tasks, AskForLane(t) PROVE LaneOrder' /\ Heads'
  <2>1. \A u \in Tasks : u # t => task'[u] = task[u]
    BY <1>3 DEF AskForLane, Types
  <2>2. task[t].stage = "loaded" /\ task'[t].stage = "lane" /\ Kind[t] = "usage"
    BY <1>3 DEF AskForLane, Types, TaskType
  <2>3. job' = job /\ LinedUp(t)
    BY <1>3 DEF AskForLane
  <2>4. t \in Tickets /\ t \notin Connections
    BY DEF Tickets, TokenConstants
  <2>5. t \notin Line
    BY <2>2, <2>4, LineNow DEF InLine
  <2>6. Line' = Line \cup {t}
    <3>1. \A x : InLine(x)' <=> InLine(x) \/ x = t
      BY <2>1, <2>2, <2>3 DEF InLine
    <3> QED
      BY <3>1, LineNow, LineThen
  <2>7. LaneOrder' /\ \A y \in Line : ahead'[y] = ahead[y]
    BY <2>3, <2>4, <2>5, <2>6, LineUp
  <2>8. \A c \in Connections : job[c].stage \in {"calling", "settling"} => c \in Line
    BY LineNow DEF InLine
  <2>9. \A u \in Tasks : Kind[u] = "usage" /\ task[u].stage \in {"leaving", "waiting"} => u \in Line
    BY LineNow DEF InLine
  <2> QED
    BY <2>1, <2>2, <2>3, <2>7, <2>8, <2>9 DEF Heads
<1>4. ASSUME NEW t \in Tasks, Join(t) PROVE LaneOrder' /\ Heads'
  <2>1. \A u \in Tasks : u # t => task'[u] = task[u]
    BY <1>4 DEF Join, Types
  <2>2. task'[t].stage = "waiting" /\ Calls(t)
    BY <1>4 DEF Join, Types, TaskType
  <2>3. Kind[t] = "usage" => task[t].stage = "lane" /\ ahead[t] = {}
    BY <2>2 DEF Calls
  <2>4. job' = job /\ UNCHANGED lane
    BY <1>4 DEF Join
  <2> QED
    BY <2>1, <2>2, <2>3, <2>4, LaneKept
<1>5. ASSUME NEW t \in Tasks, UseMap(t) \/ UseRow(t) PROVE LaneOrder' /\ Heads'
  <2>1. PICK r : Given(t, r) /\ Calls(t)
    BY <1>5 DEF UseMap, UseRow
  <2>2. Kind[t] = "usage" => /\ task[t].stage = "lane" /\ ahead[t] = {}
                             /\ task'[t].stage = "leaving"
    BY <2>1 DEF Calls, Given, Types, TaskType
  <2>3. \A u \in Tasks : u # t => task'[u] = task[u]
    BY <2>1 DEF Given, Types
  <2>4. job' = job /\ UNCHANGED lane
    BY <2>1 DEF Given
  <2> QED
    BY <2>2, <2>3, <2>4, LaneKept
<1>6. ASSUME NEW t \in Tasks, Refresh(t) \/ RefreshBlind(t) PROVE LaneOrder' /\ Heads'
  <2>0. PICK p : Starts(t, p)
    BY <1>6 DEF Refresh, RefreshBlind
  <2>1. Of[t] \in Connections /\ Of[t] \in Tickets /\ Of[t] \notin Tasks
    BY DEF Tickets, TokenConstants
  <2>2. \A u \in Tasks : u # t => task'[u] = task[u]
    BY <2>0 DEF Starts, Types
  <2>3. task'[t].stage = "waiting" /\ Calls(t)
    BY <2>0 DEF Starts, Types, TaskType
  <2>4. Kind[t] = "usage" => task[t].stage = "lane" /\ ahead[t] = {}
    BY <2>3 DEF Calls
  <2>5. /\ job[Of[t]].stage = "none" /\ job'[Of[t]].stage = "lane"
        /\ \A d \in Connections : d # Of[t] => job'[d] = job[d]
    BY <2>0, <2>1 DEF Starts, Types, NoJob
  <2>6. Of[t] \notin Line
    BY <2>1, <2>5, LineNow DEF InLine
  <2>7. Line' = Line \cup {Of[t]}
    <3>1. \A x : InLine(x)' <=> InLine(x) \/ x = Of[t]
      BY <2>1, <2>2, <2>3, <2>4, <2>5 DEF InLine
    <3> QED
      BY <3>1, LineNow, LineThen
  <2>8. LaneOrder' /\ \A y \in Line : ahead'[y] = ahead[y]
    <3>1. LinedUp(Of[t])
      BY <2>0 DEF Starts
    <3> QED
      BY <2>1, <2>6, <2>7, <3>1, LineUp
  <2>9. /\ \A c \in Connections : job[c].stage \in {"calling", "settling"} => c \in Line
        /\ \A u \in Tasks : Kind[u] = "usage" /\ task[u].stage \in {"lane", "leaving", "waiting"} =>
              u \in Line
    BY LineNow DEF InLine
  <2> QED
    BY <2>2, <2>3, <2>4, <2>5, <2>8, <2>9 DEF Heads
<1>7. ASSUME NEW t \in Tasks, TimeOut(t) PROVE LaneOrder' /\ Heads'
  <2>1. \A u \in Tasks : u # t => task'[u] = task[u]
    BY <1>7 DEF TimeOut, Types
  <2>2. Kind[t] # "usage"
    BY <1>7 DEF TimeOut
  <2>3. job' = job /\ UNCHANGED lane
    BY <1>7 DEF TimeOut
  <2> QED
    BY <2>1, <2>2, <2>3, LaneKept
<1>8. ASSUME NEW t \in Tasks, Leave(t) PROVE LaneOrder' /\ Heads'
  <2>1. \A u \in Tasks : u # t => task'[u] = task[u]
    BY <1>8 DEF Leave, Types
  <2>2. task[t].stage = "leaving" /\ task'[t].stage = "idle" /\ Kind[t] = "usage"
    BY <1>8 DEF Leave, Types, Idle
  <2>3. job' = job /\ Released(t)
    BY <1>8 DEF Leave
  <2>4. t \in Line /\ t \notin Connections
    BY <2>2, LineNow DEF InLine, TokenConstants
  <2>5. Line' = Line \ {t}
    <3>1. \A x : InLine(x)' <=> InLine(x) /\ x # t
      BY <2>1, <2>2, <2>3, <2>4 DEF InLine
    <3> QED
      BY <3>1, LineNow, LineThen
  <2>6. ahead[t] = {}
    BY <2>2 DEF Heads
  <2>7. LaneOrder' /\ \A y \in Tickets : ahead[y] = {} => ahead'[y] = {}
    BY <2>3, <2>4, <2>5, <2>6, Release
  <2> QED
    BY <2>1, <2>2, <2>3, <2>7 DEF Heads, Tickets
<1>9. ASSUME NEW c \in Connections, Call(c) PROVE LaneOrder' /\ Heads'
  <2>1. \A d \in Connections : d # c => job'[d] = job[d]
    BY <1>9 DEF Call, Types
  <2>2. job[c].stage = "lane" /\ job'[c].stage = "calling" /\ ahead[c] = {}
    BY <1>9 DEF Call, Types, JobType
  <2>3. task' = task /\ UNCHANGED lane
    BY <1>9 DEF Call
  <2> QED
    BY <2>1, <2>2, <2>3, LaneKept
<1>10. ASSUME NEW c \in Connections, NEW r \in Nat, Returned(c, r), job[c].stage = "calling"
       PROVE  LaneOrder' /\ Heads'
  <2>1. CASE HasSuccessor(c)
    <3>1. \A d \in Connections : d # c => job'[d] = job[d]
      BY <1>10, <2>1 DEF Returned, Types
    <3>2. job'[c].stage = "settling"
      BY <1>10, <2>1 DEF Returned, Types, JobType
    <3>3. task' = task /\ UNCHANGED lane
      BY <1>10, <2>1 DEF Returned
    <3> QED
      BY <1>10, <3>1, <3>2, <3>3, LaneKept
  <2>2. CASE ~HasSuccessor(c)
    BY <1>10, <2>2, SettledLane DEF Returned
  <2> QED
    BY <2>1, <2>2
<1>11. ASSUME NEW c \in Connections, Rotate(c) \/ Lose(c) \/ Refuse(c) \/ Fail(c)
       PROVE  LaneOrder' /\ Heads'
  <2>1. latest[c] + 1 \in Nat
    BY DEF Types
  <2> QED
    BY <1>10, <1>11, <2>1 DEF Rotate, Lose, Refuse, Fail, Accepts
<1>12. ASSUME NEW c \in Connections, Settle(c) PROVE LaneOrder' /\ Heads'
  <2>1. job[c].result \in Nat
    BY DEF Types, JobType
  <2> QED
    BY <1>12, <2>1, SettledLane DEF Settle
<1>13. ASSUME NEW c \in Connections, NEW v \in 1..MaxToken[c], Forget(c, v)
       PROVE  LaneOrder' /\ Heads'
  BY <1>13, LaneKept DEF Forget
<1>14. ASSUME Restart PROVE LaneOrder' /\ Heads'
  <2>1. /\ \A c \in Connections : job'[c].stage = "none"
        /\ \A t \in Tasks : task'[t].stage = "idle"
        /\ ahead' = [x \in Tickets |-> {}] /\ tail' = NoTicket
    BY <1>14 DEF Restart, NoJob, Idle
  <2>2. Line' = {}
    BY <2>1, LineThen DEF InLine
  <2> QED
    BY <2>1, <2>2 DEF LaneOrder, Heads
<1> QED
  BY <1>1, <1>2, <1>3, <1>4, <1>5, <1>6, <1>7, <1>8, <1>9, <1>11, <1>12, <1>13, <1>14 DEF Next
-----------------------------------------------------------------------------
(* The tokens                                                              *)

Data == Bounded /\ Current /\ Leaders

(* A refresh that settles: the result is the latest token, or there is     *)
(* none and the row has it; whoever is to store a result does.             *)
LEMMA SettledData ==
    ASSUME TokenConstants, IInv, NEW c \in Connections, NEW r \in Nat,
           job[c].stage \in {"calling", "settling"}, Settled(c, r),
           latest' \in [Connections -> Nat],
           \A d \in Connections : d # c =>
               latest'[d] = latest[d] /\ revoked'[d] = revoked[d] /\ lost'[d] = lost[d],
           latest[c] <= latest'[c], latest'[c] \in 1..MaxToken[c],
           r = 0 \/ r \in (job[c].token + 1)..latest'[c],
           ~lost'[c] /\ ~spoiled[c] => /\ ~revoked'[c]
                                       /\ r = 0 => row[c] = latest'[c]
                                       /\ r # 0 => r = latest'[c]
    PROVE  Data'
<1> DEFINE o == job[c].orders
<1> USE DEF IInv
<1>1. Stored(c, r, o, Shared(c)) /\ Shared(c) \in SUBSET Tasks
  BY DEF Settled, Shared
<1>2. /\ \A d \in Connections : d # c => row'[d] = row[d] /\ spoiled'[d] = spoiled[d]
      /\ row'[c] \in {row[c], r} /\ (r = 0 => row'[c] = row[c])
      /\ ~spoiled'[c] => ~spoiled[c] /\ row'[c] >= row[c]
      /\ ~spoiled'[c] /\ r # 0 /\ Skips(c, o) => row'[c] >= r
      /\ ~spoiled'[c] /\ Inside(c, r, o) => row'[c] >= r
      /\ ~spoiled'[c] /\ r # 0 /\ (\E t \in Shared(c) : Kind[t] = "export") => row'[c] >= r
  BY <1>1, StoredFacts
<1>3. /\ job'[c] = NoJob /\ job'[c].stage = "none"
      /\ \A d \in Connections : d # c => job'[d] = job[d]
  <2>1. job' = [job EXCEPT ![c] = NoJob] /\ NoJob.stage = "none"
    BY DEF Settled, NoJob
  <2> QED
    BY <2>1 DEF Types
<1>4. /\ row[c] \in 1..latest[c] /\ latest[c] \in 1..MaxToken[c] /\ latest[c] \in Nat
      /\ latest'[c] \in Nat /\ job[c].token \in 1..latest[c] /\ MaxToken[c] \in Nat
      /\ \A v \in 1..MaxToken[c] : rotated[c][v] # 0 => rotated[c][v] \in (v + 1)..latest[c]
      /\ \A v \in 1..MaxToken[c] : rotated[c][v] \in Nat
  <2>1. job[c] # NoJob
    BY DEF NoJob
  <2>2. MaxToken[c] \in Nat
    BY DEF TokenConstants
  <2> QED
    BY <2>1, <2>2 DEF Bounded, Types
<1>5. row'[c] \in 1..latest'[c]
  <2>1. row[c] \in 1..latest'[c]
    BY <1>4
  <2>2. r = 0 \/ r \in 1..latest'[c]
    BY <1>4
  <2> QED
    BY <1>2, <2>1, <2>2
<1>6. \A v \in 1..MaxToken[c] : rotated'[c][v] # 0 => rotated'[c][v] \in (v + 1)..latest'[c]
  <2>1. rotated' = IF r = 0 THEN rotated ELSE [rotated EXCEPT ![c][job[c].token] = r]
    BY DEF Settled
  <2> SUFFICES ASSUME NEW v \in 1..MaxToken[c], rotated'[c][v] # 0
               PROVE  rotated'[c][v] \in (v + 1)..latest'[c]
    OBVIOUS
  <2>2. rotated'[c][v] = IF r # 0 /\ v = job[c].token THEN r ELSE rotated[c][v]
    BY <2>1 DEF Types
  <2>3. CASE r # 0 /\ v = job[c].token
    BY <2>2, <2>3
  <2>4. CASE ~(r # 0 /\ v = job[c].token)
    <3>1. rotated[c][v] \in (v + 1)..latest[c]
      BY <1>4, <2>2, <2>4
    <3> QED
      BY <1>4, <2>2, <2>4, <3>1
  <2> QED
    BY <2>3, <2>4
<1>7. \A d \in Connections : d # c => rotated'[d] = rotated[d]
  BY DEF Settled, Types
<1>8. \A t \in Tasks : task'[t].stage # "idle" => task'[t].held \in 1..latest'[Of[t]]
  <2> SUFFICES ASSUME NEW t \in Tasks, task'[t].stage # "idle"
               PROVE  task'[t].held \in 1..latest'[Of[t]]
    OBVIOUS
  <2>1. Of[t] \in Connections
    BY DEF TokenConstants
  <2>2. task' = Answered(c, r, Shared(c))
    BY DEF Settled
  <2>3. task[t].stage # "idle"
    BY <2>2, AnsweredFacts DEF Shared
  <2>4. task[t].held \in 1..latest[Of[t]]
    BY <2>3 DEF Bounded
  <2>5. latest[Of[t]] \in Nat /\ latest'[Of[t]] \in Nat /\ latest[Of[t]] <= latest'[Of[t]]
    <3>1. CASE Of[t] = c
      BY <1>4, <3>1
    <3>2. CASE Of[t] # c
      <4>1. latest[Of[t]] \in Nat
        BY <2>1, Zenon DEF Types
      <4> QED
        BY <2>1, <3>2, <4>1
    <3> QED
      BY <3>1, <3>2
  <2>6. task'[t].held = task[t].held \/ (Of[t] = c /\ r # 0 /\ task'[t].held = r)
    BY <2>2, AnsweredFacts
  <2> QED
    BY <1>4, <2>4, <2>5, <2>6
<1>9. Bounded'
  <2> SUFFICES ASSUME NEW d \in Connections
               PROVE
          /\ row'[d] \in 1..latest'[d] /\ latest'[d] \in 1..MaxToken[d]
          /\ \A v \in 1..MaxToken[d] :
                rotated'[d][v] # 0 => rotated'[d][v] \in (v + 1)..latest'[d]
          /\ job'[d] # NoJob => job'[d].token \in 1..latest'[d]
          /\ job'[d].stage = "settling" /\ job'[d].result # 0 =>
                job'[d].result \in (job'[d].token + 1)..latest'[d]
    BY <1>8 DEF Bounded
  <2>1. CASE d = c
    BY <1>3, <1>5, <1>6, <2>1
  <2>2. CASE d # c
    BY <1>2, <1>3, <1>7, <2>2 DEF Bounded
  <2> QED
    BY <2>1, <2>2
<1>10. Sound(c)' => row'[c] = latest'[c]
  <2> SUFFICES ASSUME ~lost'[c], ~spoiled'[c], r # 0 PROVE row'[c] >= r
    BY <1>2, <1>4, <1>5 DEF Sound
  <2>1. CASE Inside(c, r, o)
    BY <1>2, <2>1
  <2>2. CASE Skips(c, o)
    BY <1>2, <2>2
  <2>3. CASE ~o.stores
    <3>1. job[c] # NoJob
      BY DEF NoJob
    <3>2. /\ o.by \in Tasks /\ Of[o.by] = c /\ Kind[o.by] \in {"export", "usage"}
          /\ task[o.by].stage = "waiting"
      BY <2>3, <3>1 DEF Leaders
    <3>3. Kind[o.by] # "usage"
      BY <3>2, NobodyNested
    <3> QED
      BY <1>2, <3>2, <3>3 DEF Shared
  <2> QED
    BY <2>1, <2>2, <2>3 DEF Inside
<1>11. Current'
  <2> SUFFICES ASSUME NEW d \in Connections, Sound(d)'
               PROVE
        /\ ~revoked'[d]
        /\ job'[d].stage # "settling" \/ job'[d].result = 0 => row'[d] = latest'[d]
        /\ job'[d].stage \in {"lane", "calling"} => job'[d].token = latest'[d]
        /\ job'[d].stage = "settling" /\ job'[d].result # 0 => job'[d].result = latest'[d]
    BY DEF Current
  <2>1. CASE d = c
    BY <1>2, <1>3, <1>10, <2>1 DEF Sound
  <2>2. CASE d # c
    BY <1>2, <1>3, <2>2 DEF Current, Sound
  <2> QED
    BY <2>1, <2>2
<1>12. Leaders'
  <2> SUFFICES ASSUME NEW d \in Connections, job'[d] # NoJob, ~job'[d].orders.stores
               PROVE
        /\ job'[d].orders.by \in Tasks
        /\ Of[job'[d].orders.by] = d
        /\ Kind[job'[d].orders.by] \in {"export", "usage"}
        /\ task'[job'[d].orders.by].stage = "waiting"
    BY DEF Leaders
  <2>1. d # c /\ job'[d] = job[d]
    BY <1>3
  <2> DEFINE t == job[d].orders.by
  <2>2. /\ t \in Tasks /\ Of[t] = d /\ Kind[t] \in {"export", "usage"}
        /\ task[t].stage = "waiting"
    BY <2>1 DEF Leaders
  <2>3. t \notin Shared(c)
    BY <2>1, <2>2 DEF Shared
  <2>4. task' = Answered(c, r, Shared(c))
    BY DEF Settled
  <2> HIDE DEF t
  <2>5. task'[t].stage = "waiting"
    BY <2>2, <2>3, <2>4, AnsweredFacts
  <2> QED
    BY <2>1, <2>2, <2>5 DEF t
<1> QED
  BY <1>9, <1>11, <1>12 DEF Data

(* A task that stores the token r, which is no later than the latest, or   *)
(* keeps it to store it when it leaves, while nobody refreshes.            *)
LEMMA GivenData ==
    ASSUME TokenConstants, IInv, NEW t \in Tasks, NEW r \in 1..latest[Of[t]],
           task[t].stage # "waiting", job[Of[t]] = NoJob, Given(t, r)
    PROVE  Data'
<1> USE DEF IInv
<1> DEFINE c == Of[t]
<1>1. c \in Connections /\ {t} \in SUBSET Tasks /\ r \in Nat
  BY DEF TokenConstants
<1>2. /\ job' = job /\ rotated' = rotated /\ latest' = latest /\ revoked' = revoked
      /\ lost' = lost /\ job[c].stage = "none"
  BY DEF Given, provider, NoJob
<1>3. /\ \A d \in Connections : d # c => row'[d] = row[d] /\ spoiled'[d] = spoiled[d]
      /\ row'[c] \in {row[c], r}
      /\ ~spoiled'[c] => ~spoiled[c] /\ row'[c] >= row[c]
  <2>1. CASE Kind[t] # "usage"
    <3>1. Stored(c, r, Orders(t), {t})
      BY <2>1 DEF Given
    <3> QED
      BY <1>1, <3>1, StoredFacts
  <2>2. CASE Kind[t] = "usage"
    <3>1. row' = row /\ spoiled' = spoiled
      BY <2>2 DEF Given
    <3>2. row[c] \in Nat
      BY <1>1 DEF Types
    <3> QED
      BY <3>1, <3>2
  <2> QED
    BY <2>1, <2>2
<1>4. /\ \A u \in Tasks : u # t => task'[u] = task[u]
      /\ task'[t].stage # "idle" => task'[t].held = r
  <2>1. CASE Kind[t] # "usage"
    BY <2>1 DEF Given, Types, Idle
  <2>2. CASE Kind[t] = "usage"
    BY <2>2 DEF Given, Types, TaskType
  <2> QED
    BY <2>1, <2>2
<1>5. /\ row[c] \in 1..latest[c] /\ latest[c] \in Nat /\ row'[c] \in 1..latest[c]
      /\ Sound(c) => row[c] = latest[c]
  <2>1. row[c] \in 1..latest[c] /\ latest[c] \in Nat
    BY <1>1 DEF Bounded, Types
  <2>2. Sound(c) => row[c] = latest[c]
    BY <1>1, <1>2 DEF Current
  <2> QED
    BY <1>3, <2>1, <2>2
<1>6. Bounded'
  BY <1>1, <1>2, <1>3, <1>4, <1>5 DEF Bounded
<1>7. Current'
  BY <1>1, <1>2, <1>3, <1>5 DEF Current, Sound
<1>8. Leaders'
  BY <1>2, <1>4 DEF Leaders
<1> QED
  BY <1>6, <1>7, <1>8 DEF Data

(* A step of one task that does not wait, with no later token, and nothing *)
(* else.                                                                   *)
LEMMA TaskData ==
    ASSUME TokenConstants, IInv, NEW t \in Tasks,
           \A u \in Tasks : u # t => task'[u] = task[u],
           task'[t].stage # "idle" => task'[t].held \in 1..latest[Of[t]],
           task[t].stage # "waiting" \/ Kind[t] \notin {"export", "usage"},
           UNCHANGED <<row, job, rotated, provider, spoiled>>
    PROVE  Data'
<1>1. Bounded'
  BY DEF Bounded, IInv, provider
<1>2. Current'
  BY DEF Current, Sound, IInv, provider
<1>3. Leaders'
  BY DEF Leaders, IInv
<1> QED
  BY <1>1, <1>2, <1>3 DEF Data

(* The answer of the provider: the refresh settles, or keeps the lane.     *)
LEMMA ReturnedData ==
    ASSUME TokenConstants, IInv, NEW c \in Connections, NEW r \in Nat,
           job[c].stage = "calling", Returned(c, r),
           latest' \in [Connections -> Nat],
           \A d \in Connections : d # c =>
               latest'[d] = latest[d] /\ revoked'[d] = revoked[d] /\ lost'[d] = lost[d],
           latest[c] <= latest'[c], latest'[c] \in 1..MaxToken[c],
           r = 0 \/ r \in (job[c].token + 1)..latest'[c],
           ~lost'[c] /\ ~spoiled[c] => /\ ~revoked'[c]
                                       /\ r = 0 => row[c] = latest'[c]
                                       /\ r # 0 => r = latest'[c]
    PROVE  Data'
<1> USE DEF IInv
<1>1. CASE ~HasSuccessor(c)
  <2>1. Settled(c, r)
    BY <1>1 DEF Returned
  <2> QED
    BY <2>1, SettledData
<1>2. CASE HasSuccessor(c)
  <2>1. /\ job' = [job EXCEPT ![c].stage = "settling", ![c].result = r]
        /\ row' = row /\ rotated' = rotated /\ task' = task /\ spoiled' = spoiled
    BY <1>2 DEF Returned
  <2>2. /\ \A d \in Connections : d # c => job'[d] = job[d]
        /\ job'[c].stage = "settling" /\ job'[c].result = r
        /\ job'[c].token = job[c].token /\ job'[c].orders = job[c].orders
    BY <2>1 DEF Types, JobType
  <2>3. job[c] # NoJob
    BY DEF NoJob
  <2>4. \A d \in Connections :
           latest[d] \in Nat /\ latest'[d] \in Nat /\ latest[d] <= latest'[d]
    <3> TAKE d \in Connections
    <3>1. latest[d] \in Nat /\ latest'[d] \in Nat
      BY Zenon DEF Types
    <3> QED
      BY <3>1
  <2>5. Bounded'
    <3>1. \A t \in Tasks : task'[t].stage # "idle" => task'[t].held \in 1..latest'[Of[t]]
      <4> TAKE t \in Tasks
      <4>1. Of[t] \in Connections
        BY DEF TokenConstants
      <4> QED
        BY <2>1, <2>4, <4>1 DEF Bounded
    <3>2. ASSUME NEW d \in Connections
          PROVE  /\ row'[d] \in 1..latest'[d] /\ latest'[d] \in 1..MaxToken[d]
                 /\ \A v \in 1..MaxToken[d] :
                       rotated'[d][v] # 0 => rotated'[d][v] \in (v + 1)..latest'[d]
                 /\ job'[d] # NoJob => job'[d].token \in 1..latest'[d]
                 /\ job'[d].stage = "settling" /\ job'[d].result # 0 =>
                       job'[d].result \in (job'[d].token + 1)..latest'[d]
      <4>1. CASE d # c
        BY <2>1, <2>2, <4>1 DEF Bounded
      <4>2. CASE d = c
        <5>1. row[c] \in 1..latest[c] /\ job[c].token \in 1..latest[c]
              /\ \A v \in 1..MaxToken[c] : rotated[c][v] # 0 => rotated[c][v] \in (v + 1)..latest[c]
          BY <2>3 DEF Bounded
        <5>2. row'[c] \in 1..latest'[c] /\ job'[c].token \in 1..latest'[c]
          BY <2>1, <2>2, <2>4, <5>1
        <5>3. \A v \in 1..MaxToken[c] :
                 rotated'[c][v] # 0 => rotated'[c][v] \in (v + 1)..latest'[c]
          BY <2>1, <2>4, <5>1 DEF TokenConstants
        <5> QED
          BY <2>2, <4>2, <5>2, <5>3
      <4> QED
        BY <4>1, <4>2
    <3> QED
      BY <3>1, <3>2 DEF Bounded
  <2>6. Current'
    <3> SUFFICES ASSUME NEW d \in Connections, Sound(d)'
                 PROVE
          /\ ~revoked'[d]
          /\ job'[d].stage # "settling" \/ job'[d].result = 0 => row'[d] = latest'[d]
          /\ job'[d].stage \in {"lane", "calling"} => job'[d].token = latest'[d]
          /\ job'[d].stage = "settling" /\ job'[d].result # 0 => job'[d].result = latest'[d]
      BY DEF Current
    <3>1. CASE d = c
      BY <2>1, <2>2, <3>1 DEF Sound
    <3>2. CASE d # c
      BY <2>1, <2>2, <3>2 DEF Current, Sound
    <3> QED
      BY <3>1, <3>2
  <2>7. Leaders'
    <3> SUFFICES ASSUME NEW d \in Connections, job'[d] # NoJob, ~job'[d].orders.stores
                 PROVE
          /\ job'[d].orders.by \in Tasks
          /\ Of[job'[d].orders.by] = d
          /\ Kind[job'[d].orders.by] \in {"export", "usage"}
          /\ task'[job'[d].orders.by].stage = "waiting"
      BY DEF Leaders
    <3>1. job'[d].orders = job[d].orders /\ job[d] # NoJob
      BY <2>2, <2>3
    <3> QED
      BY <2>1, <3>1 DEF Leaders
  <2> QED
    BY <2>5, <2>6, <2>7 DEF Data
<1> QED
  BY <1>1, <1>2

(* Every step keeps the tokens in order.                                   *)
LEMMA DataStep ==
    ASSUME TokenConstants, IInv, Next
    PROVE  Data'
<1> USE DEF IInv
<1>0. /\ \A c \in Connections :
            /\ row[c] \in 1..latest[c] /\ latest[c] \in 1..MaxToken[c] /\ latest[c] \in Nat
            /\ MaxToken[c] \in Nat
      /\ \A t \in Tasks : Of[t] \in Connections /\ task[t] \in TaskType
      /\ \A c \in Connections : job[c] \in JobType
  BY DEF Bounded, Types, TokenConstants
<1>1. ASSUME NEW t \in Tasks, Load(t) PROVE Data'
  <2>1. \A u \in Tasks : u # t => task'[u] = task[u]
    BY <1>1 DEF Load, Types
  <2>2. task[t].stage = "idle" /\ task'[t].held = row[Of[t]]
    BY <1>1 DEF Load, Types
  <2>3. UNCHANGED <<row, job, rotated, provider, spoiled>>
    BY <1>1 DEF Load
  <2> QED
    BY <1>0, <2>1, <2>2, <2>3, TaskData
<1>2. ASSUME NEW t \in Tasks, Drop(t) PROVE Data'
  <2>1. task[t].stage = "loaded" /\ \A u \in Tasks : u # t => task'[u] = task[u]
    BY <1>2 DEF Drop, Types
  <2>2. task'[t].stage = "idle"
    BY <1>2 DEF Drop, Types, Idle
  <2>3. ASSUME NEW c \in Connections
        PROVE  /\ job'[c].stage = job[c].stage /\ job'[c].token = job[c].token
               /\ job'[c].result = job[c].result
               /\ job'[c].orders.stores = job[c].orders.stores
               /\ job[c].orders.by # t => job'[c] = job[c]
    <3>1. job'[c] = IF job[c].orders.by = t THEN [job[c] EXCEPT !.orders.by = NoTicket] ELSE job[c]
      BY <1>2 DEF Drop
    <3>2. job[c] \in JobType
      BY <1>0
    <3>3. /\ [job[c] EXCEPT !.orders.by = NoTicket].stage = job[c].stage
          /\ [job[c] EXCEPT !.orders.by = NoTicket].token = job[c].token
          /\ [job[c] EXCEPT !.orders.by = NoTicket].result = job[c].result
          /\ [job[c] EXCEPT !.orders.by = NoTicket].orders.stores = job[c].orders.stores
      BY <3>2 DEF JobType
    <3> QED
      BY <3>1, <3>3
  <2>4. \A c \in Connections : job[c].orders.by = t => job[c] # NoJob
    BY DEF NoJob, NoOrders, TokenConstants, Tickets
  <2>5. /\ row' = row /\ rotated' = rotated /\ latest' = latest /\ revoked' = revoked
        /\ spoiled' = spoiled /\ lost' = lost
    BY <1>2 DEF Drop, provider
  <2>6. Bounded'
    BY <2>1, <2>2, <2>3, <2>4, <2>5 DEF Bounded
  <2>7. Current'
    BY <2>3, <2>5 DEF Current, Sound
  <2>8. Leaders'
    <3> SUFFICES ASSUME NEW c \in Connections, job'[c] # NoJob, ~job'[c].orders.stores
                 PROVE
          /\ job'[c].orders.by \in Tasks
          /\ Of[job'[c].orders.by] = c
          /\ Kind[job'[c].orders.by] \in {"export", "usage"}
          /\ task'[job'[c].orders.by].stage = "waiting"
      BY DEF Leaders
    <3>1. ~job[c].orders.stores
      BY <2>3
    <3>2. job[c] # NoJob
      BY <2>3, <2>4
    <3>3. job[c].orders.by # t
      BY <2>1, <3>1, <3>2 DEF Leaders
    <3> QED
      BY <2>1, <2>3, <3>1, <3>2, <3>3 DEF Leaders
  <2> QED
    BY <2>6, <2>7, <2>8 DEF Data
<1>3. ASSUME NEW t \in Tasks, AskForLane(t) \/ Join(t) \/ TimeOut(t) PROVE Data'
  <2>1. \A u \in Tasks : u # t => task'[u] = task[u]
    BY <1>3 DEF AskForLane, Join, TimeOut, Types
  <2>2. task[t].stage # "idle" /\ task'[t].held = task[t].held
    BY <1>3 DEF AskForLane, Join, TimeOut, Calls, Types, TaskType
  <2>3. task[t].stage # "waiting" \/ Kind[t] \notin {"export", "usage"}
    BY <1>3 DEF AskForLane, Join, TimeOut, Calls
  <2>4. UNCHANGED <<row, job, rotated, provider, spoiled>>
    BY <1>3 DEF AskForLane, Join, TimeOut
  <2>5. task'[t].held \in 1..latest[Of[t]]
    BY <2>2 DEF Bounded
  <2> QED
    BY <2>1, <2>3, <2>4, <2>5, TaskData
<1>4. ASSUME NEW t \in Tasks, UseMap(t) PROVE Data'
  <2> DEFINE r == rotated[Of[t]][task[t].held]
  <2>1. task[t].stage \in {"loaded", "lane"} /\ job[Of[t]] = NoJob /\ r # 0 /\ Given(t, r)
    BY <1>4 DEF UseMap, Calls, Mapped
  <2>2. task[t].held \in 1..latest[Of[t]]
    BY <2>1 DEF Bounded
  <2>3. task[t].held \in 1..MaxToken[Of[t]]
    BY <1>0, <2>2
  <2>4. r \in (task[t].held + 1)..latest[Of[t]]
    BY <1>0, <2>1, <2>3 DEF Bounded
  <2>5. r \in 1..latest[Of[t]]
    BY <1>0, <2>3, <2>4
  <2> HIDE DEF r
  <2> QED
    BY <2>1, <2>5, GivenData
<1>5. ASSUME NEW t \in Tasks, UseRow(t) PROVE Data'
  <2>1. task[t].stage \in {"loaded", "lane"} /\ job[Of[t]] = NoJob /\ Given(t, row[Of[t]])
    BY <1>5 DEF UseRow, Calls
  <2> QED
    BY <1>0, <2>1, GivenData
<1>6. ASSUME NEW t \in Tasks, Refresh(t) \/ RefreshBlind(t) PROVE Data'
  <2> DEFINE c == Of[t]
  <2>0. PICK p \in {row[c], task[t].held} :
          /\ Starts(t, p)
          /\ (spoiled' = spoiled /\ p = row[c]) \/ spoiled' = [spoiled EXCEPT ![c] = TRUE]
    BY <1>6 DEF Refresh, RefreshBlind, Presented
  <2>1. /\ c \in Connections /\ job[c] = NoJob /\ job[c].stage = "none"
        /\ task[t].stage \in {"loaded", "lane"}
    BY <1>0, <2>0 DEF Starts, Calls, NoJob
  <2>2. /\ \A u \in Tasks : u # t => task'[u] = task[u]
        /\ task'[t].stage = "waiting" /\ task'[t].held = p
    BY <1>0, <2>0 DEF Starts, Types, TaskType
  <2>3. /\ \A d \in Connections : d # c => job'[d] = job[d]
        /\ job'[c].stage = "lane" /\ job'[c].token = p /\ job'[c].orders = Orders(t)
    BY <2>0, <2>1 DEF Starts, Types
  <2>4. /\ row' = row /\ rotated' = rotated /\ latest' = latest /\ revoked' = revoked
        /\ lost' = lost /\ \A d \in Connections : d # c => spoiled'[d] = spoiled[d]
        /\ ~spoiled'[c] => ~spoiled[c] /\ p = row[c]
    BY <2>0, <2>1 DEF Starts, provider, Types
  <2>5. p \in 1..latest[c]
    BY <1>0, <2>1 DEF Bounded
  <2>6. Bounded' /\ Current'
    <3>1. Bounded'
      BY <1>0, <2>1, <2>2, <2>3, <2>4, <2>5 DEF Bounded
    <3>2. Current'
      BY <2>1, <2>3, <2>4 DEF Current, Sound
    <3> QED
      BY <3>1, <3>2
  <2>7. Leaders'
    <3> SUFFICES ASSUME NEW d \in Connections, job'[d] # NoJob, ~job'[d].orders.stores
                 PROVE
          /\ job'[d].orders.by \in Tasks
          /\ Of[job'[d].orders.by] = d
          /\ Kind[job'[d].orders.by] \in {"export", "usage"}
          /\ task'[job'[d].orders.by].stage = "waiting"
      BY DEF Leaders
    <3>1. CASE d = c
      <4>1. job'[d].orders.by = t /\ Kind[t] \notin {"chat", "check", "sweep"}
        <5>1. Orders(t).by = t /\ Orders(t).stores = (Kind[t] \in {"chat", "check", "sweep"})
          BY DEF Orders
        <5>2. job'[d].orders = Orders(t)
          BY <2>3, <3>1
        <5> QED
          BY <5>1, <5>2, Zenon
      <4>2. Kind[t] \in Kinds
        BY DEF TokenConstants
      <4> QED
        BY <2>2, <3>1, <4>1, <4>2 DEF Kinds
    <3>2. CASE d # c
      <4>1. job'[d] = job[d]
        BY <2>3, <3>2
      <4> QED
        BY <2>1, <2>2, <4>1 DEF Leaders
    <3> QED
      BY <3>1, <3>2
  <2> QED
    BY <2>6, <2>7 DEF Data
<1>7. ASSUME NEW t \in Tasks, Leave(t) PROVE Data'
  <2> DEFINE c == Of[t]
  <2>1. task[t].stage = "leaving" /\ Kind[t] = "usage" /\ c \in Connections
    BY <1>0, <1>7 DEF Leave, Types
  <2>2. task[t].held \in 1..latest[c]
    BY <2>1 DEF Bounded
  <2>3. /\ \A u \in Tasks : u # t => task'[u] = task[u]
        /\ task'[t].stage = "idle"
    BY <1>7 DEF Leave, Types, Idle
  <2>4. /\ job' = job /\ rotated' = rotated /\ latest' = latest /\ revoked' = revoked
        /\ \A d \in Connections : d # c => row'[d] = row[d] /\ spoiled'[d] = spoiled[d]
        /\ row'[c] \in {row[c], task[t].held} /\ lost' = lost
    BY <1>7, <2>1 DEF Leave, provider, Types
  <2>5. ~spoiled'[c] => ~spoiled[c] /\ row'[c] >= row[c]
    <3>1. spoiled'[c] <=> (spoiled[c] \/ row'[c] < row[c])
      BY <1>7, <2>1 DEF Leave, Types
    <3> QED
      BY <1>0, <2>1, <2>2, <2>4, <3>1
  <2>6. job[c].stage \notin {"calling", "settling"}
    BY <2>1, NobodyNested
  <2>7. Sound(c)' => row'[c] = latest[c]
    <3>1. Sound(c) => row[c] = latest[c]
      BY <2>1, <2>6 DEF Current
    <3> QED
      BY <1>0, <2>1, <2>2, <2>4, <2>5, <3>1 DEF Sound
  <2>8. Bounded'
    BY <1>0, <2>1, <2>2, <2>3, <2>4 DEF Bounded
  <2>9. Current'
    BY <2>4, <2>5, <2>6, <2>7 DEF Current, Sound
  <2>10. Leaders'
    BY <2>1, <2>3, <2>4 DEF Leaders
  <2> QED
    BY <2>8, <2>9, <2>10 DEF Data
<1>8. ASSUME NEW c \in Connections, Call(c) PROVE Data'
  <2>1. /\ \A d \in Connections : d # c => job'[d] = job[d]
        /\ job[c].stage = "lane" /\ job'[c].stage = "calling"
        /\ job'[c].token = job[c].token /\ job'[c].orders = job[c].orders
    BY <1>0, <1>8 DEF Call, Types, JobType
  <2>2. job[c] # NoJob
    BY <2>1 DEF NoJob
  <2>3. /\ row' = row /\ rotated' = rotated /\ latest' = latest /\ revoked' = revoked
        /\ lost' = lost /\ spoiled' = spoiled /\ task' = task
    BY <1>8 DEF Call, provider
  <2>4. Bounded'
    BY <2>1, <2>2, <2>3 DEF Bounded
  <2>5. Current'
    BY <2>1, <2>3 DEF Current, Sound
  <2>6. Leaders'
    BY <2>1, <2>2, <2>3 DEF Leaders
  <2> QED
    BY <2>4, <2>5, <2>6 DEF Data
<1>9. ASSUME NEW c \in Connections, Rotate(c) \/ Lose(c) PROVE Data'
  <2>1. Accepts(c) /\ latest' = [latest EXCEPT ![c] = @ + 1] /\ revoked' = revoked
    BY <1>9 DEF Rotate, Lose
  <2>2. /\ job[c].stage = "calling" /\ ~revoked[c] /\ job[c].token = latest[c]
        /\ latest[c] < MaxToken[c]
    BY <2>1 DEF Accepts
  <2>3. latest[c] + 1 \in Nat
    BY <1>0
  <2>4. /\ latest' \in [Connections -> Nat] /\ latest'[c] = latest[c] + 1
        /\ \A d \in Connections : d # c => latest'[d] = latest[d]
    BY <2>1, <2>3 DEF Types
  <2>5. /\ latest[c] <= latest'[c] /\ latest'[c] \in 1..MaxToken[c]
        /\ latest[c] + 1 \in (job[c].token + 1)..latest'[c]
        /\ latest[c] + 1 # 0
    BY <1>0, <2>2, <2>4
  <2>6. CASE Rotate(c)
    <3>1. lost' = lost /\ Returned(c, latest[c] + 1)
      BY <2>6 DEF Rotate
    <3> QED
      BY <2>1, <2>2, <2>3, <2>4, <2>5, <3>1, ReturnedData
  <2>7. CASE Lose(c)
    <3>1. /\ lost'[c] /\ \A d \in Connections : d # c => lost'[d] = lost[d]
          /\ Returned(c, 0)
      BY <2>7 DEF Lose, Types
    <3> QED
      BY <2>1, <2>2, <2>4, <2>5, <3>1, ReturnedData
  <2> QED
    BY <1>9, <2>6, <2>7
<1>10. ASSUME NEW c \in Connections, Refuse(c) \/ Fail(c) PROVE Data'
  <2>1. job[c].stage = "calling" /\ Returned(c, 0) /\ latest' = latest /\ lost' = lost
    BY <1>10 DEF Refuse, Fail, provider
  <2>2. \A d \in Connections : d # c => revoked'[d] = revoked[d]
    BY <1>10 DEF Refuse, Fail, provider, Types
  <2>3. Sound(c) => ~revoked[c] /\ row[c] = latest[c] /\ job[c].token = latest[c]
    BY <2>1 DEF Current
  <2>4. Sound(c) => ~revoked'[c]
    BY <1>10, <2>3 DEF Refuse, Fail, provider
  <2>5. latest' \in [Connections -> Nat]
    BY <2>1 DEF Types
  <2> QED
    BY <1>0, <2>1, <2>2, <2>3, <2>4, <2>5, ReturnedData DEF Sound
<1>11. ASSUME NEW c \in Connections, Settle(c) PROVE Data'
  <2>1. /\ job[c].stage = "settling" /\ Settled(c, job[c].result)
        /\ latest' = latest /\ revoked' = revoked /\ lost' = lost
    BY <1>11 DEF Settle, provider
  <2>2. job[c].result \in Nat
    BY <1>0 DEF JobType
  <2>3. job[c].result = 0 \/ job[c].result \in (job[c].token + 1)..latest[c]
    BY <2>1 DEF Bounded
  <2>4. Sound(c) => /\ ~revoked[c]
                    /\ job[c].result = 0 => row[c] = latest[c]
                    /\ job[c].result # 0 => job[c].result = latest[c]
    BY <2>1 DEF Current
  <2>5. latest' \in [Connections -> Nat]
    BY <2>1 DEF Types
  <2> QED
    BY <1>0, <2>1, <2>2, <2>3, <2>4, <2>5, SettledData DEF Sound
<1>12. ASSUME NEW c \in Connections, NEW v \in 1..MaxToken[c], Forget(c, v) PROVE Data'
  <2>1. /\ row' = row /\ job' = job /\ latest' = latest /\ revoked' = revoked
        /\ lost' = lost /\ spoiled' = spoiled /\ task' = task
    BY <1>12 DEF Forget, provider
  <2>2. \A d \in Connections : \A w \in 1..MaxToken[d] :
           rotated'[d][w] # 0 => rotated'[d][w] = rotated[d][w]
    BY <1>12 DEF Forget, Types
  <2>3. Bounded'
    BY <2>1, <2>2 DEF Bounded
  <2>4. Current' /\ Leaders'
    BY <2>1 DEF Current, Sound, Leaders
  <2> QED
    BY <2>3, <2>4 DEF Data
<1>13. ASSUME Restart PROVE Data'
  <2>1. PICK L \in SUBSET {c \in Connections : Accepts(c)} :
          /\ latest' = [c \in Connections |-> IF c \in L THEN latest[c] + 1 ELSE latest[c]]
          /\ lost' = [c \in Connections |->
                        \/ lost[c] \/ c \in L
                        \/ job[c].stage = "settling" /\ job[c].result # 0]
    BY <1>13, Zenon DEF Restart
  <2>2. /\ row' = row /\ revoked' = revoked /\ spoiled' = spoiled
        /\ \A c \in Connections : job'[c] = NoJob
        /\ \A c \in Connections : \A v \in 1..MaxToken[c] : rotated'[c][v] = 0
        /\ \A t \in Tasks : task'[t].stage = "idle"
    BY <1>13 DEF Restart, Idle
  <2>3. NoJob.stage = "none"
    BY DEF NoJob
  <2>4. ASSUME NEW c \in Connections
        PROVE  /\ row'[c] \in 1..latest'[c] /\ latest'[c] \in 1..MaxToken[c]
               /\ Sound(c)' => ~revoked'[c] /\ row'[c] = latest'[c]
    <3>1. CASE c \in L
      <4>1. latest'[c] = latest[c] + 1 /\ lost'[c] /\ latest[c] < MaxToken[c]
        BY <2>1, <3>1 DEF Accepts
      <4> QED
        BY <1>0, <2>2, <4>1 DEF Sound
    <3>2. CASE c \notin L
      <4>1. latest'[c] = latest[c]
        BY <2>1, <3>2
      <4>2. ~lost'[c] => ~lost[c] /\ (job[c].stage # "settling" \/ job[c].result = 0)
        BY <2>1, Zenon
      <4> QED
        BY <1>0, <2>2, <4>1, <4>2 DEF Current, Sound
    <3> QED
      BY <3>1, <3>2
  <2> QED
    BY <2>2, <2>3, <2>4 DEF Data, Bounded, Current, Leaders
<1> QED
  BY <1>1, <1>2, <1>3, <1>4, <1>5, <1>6, <1>7, <1>8, <1>9, <1>10, <1>11, <1>12, <1>13 DEF Next
-----------------------------------------------------------------------------
(* The theorems                                                            *)

(* The first state.                                                        *)
LEMMA InitHolds ==
    ASSUME TokenConstants, Init
    PROVE  IInv
<1>1. /\ NoJob \in JobType /\ NoJob.orders.by = NoTicket /\ NoJob.stage = "none"
      /\ Idle \in TaskType /\ Idle.stage = "idle"
  <2>1. NoOrders \in [by : Tasks \cup {NoTicket}, stores : BOOLEAN, guard : Nat]
    BY DEF NoOrders
  <2> QED
    BY <2>1 DEF NoJob, JobType, NoOrders, Idle, TaskType
<1>2. NoTicket \notin Tasks
  BY DEF TokenConstants, Tickets
<1>3. Types
  BY <1>1, <1>2 DEF Init, Types
<1>4. Line = {}
  BY <1>1, <1>3, LineNow DEF Init, InLine
<1>5. LaneOrder
  BY <1>4 DEF Init, LaneOrder
<1>6. \A c \in Connections : MaxToken[c] \in Nat /\ MaxToken[c] >= 1
  BY DEF TokenConstants
<1>7. Heads /\ Bounded /\ Current /\ Leaders
  BY <1>1, <1>6 DEF Init, Heads, Bounded, Current, Leaders
<1> QED
  BY <1>3, <1>5, <1>7 DEF IInv

(* The invariant holds throughout.                                         *)
THEOREM Invariance ==
    ASSUME TokenConstants
    PROVE  Spec => []IInv
<1>1. Init => IInv
  BY InitHolds
<1>2. IInv /\ [Next]_vars => IInv'
  <2> SUFFICES ASSUME IInv, [Next]_vars PROVE IInv'
    OBVIOUS
  <2>1. CASE Next
    <3>1. Types /\ LaneOrder /\ Heads /\ Bounded
      BY DEF IInv
    <3>2. Types'
      BY <2>1, <3>1, TypesStep
    <3>3. LaneOrder' /\ Heads'
      BY <2>1, <3>1, <3>2, LaneStep
    <3>4. Bounded' /\ Current' /\ Leaders'
      BY <2>1, DataStep DEF Data
    <3> QED
      BY <3>2, <3>3, <3>4 DEF IInv
  <2>2. CASE UNCHANGED vars
    BY <2>2 DEF vars, lane, provider, IInv, Types, LaneOrder, Line, Heads, Bounded, Current,
                Sound, Leaders
  <2> QED
    BY <2>1, <2>2
<1> QED
  BY <1>1, <1>2, PTL DEF Spec

(* Every variable of the mutex, the map, the lane and the provider keeps   *)
(* its type, and only those in the lane are waited for (serializeRefresh). *)
THEOREM TypeCorrect ==
    ASSUME TokenConstants
    PROVE  Spec => []TypeOK
<1>1. IInv => TypeOK
  <2> SUFFICES ASSUME IInv PROVE TypeOK
    OBVIOUS
  <2> USE DEF IInv
  <2>1. \A c \in Connections :
           /\ row[c] \in 1..MaxToken[c] /\ latest[c] \in 1..MaxToken[c]
           /\ \A v \in 1..MaxToken[c] :
                 rotated[c][v] = 0 \/ rotated[c][v] \in (v + 1)..MaxToken[c]
    <3> TAKE c \in Connections
    <3>1. /\ row[c] \in 1..latest[c] /\ latest[c] \in 1..MaxToken[c] /\ MaxToken[c] \in Nat
          /\ \A v \in 1..MaxToken[c] : rotated[c][v] # 0 => rotated[c][v] \in (v + 1)..latest[c]
      BY DEF Bounded, TokenConstants
    <3> QED
      BY <3>1
  <2>2. job \in [Connections -> JobType] /\ task \in [Tasks -> TaskType]
        /\ revoked \in [Connections -> BOOLEAN] /\ lost \in [Connections -> BOOLEAN]
        /\ spoiled \in [Connections -> BOOLEAN]
    BY DEF Types
  <2>3. ahead \in [Tickets -> SUBSET Line] /\ tail \in Line \cup {NoTicket}
    BY DEF LaneOrder
  <2> QED
    BY <2>1, <2>2, <2>3, Zenon DEF TypeOK, JobType, TaskType
<1>2. Spec => []IInv
  BY Invariance
<1> QED
  BY <1>1, <1>2, PTL

(* Of any number of accounts of a group, one presents its token at a time  *)
(* (serializeRefresh): the lane is a line, and who calls is its head.      *)
THEOREM OneAtATime ==
    ASSUME TokenConstants
    PROVE  Spec => []OneCall
<1>1. IInv => OneCall
  <2> SUFFICES ASSUME IInv, NEW c \in Connections, NEW d \in Connections,
                      job[c].stage \in {"calling", "settling"},
                      job[d].stage \in {"calling", "settling"}
               PROVE  c = d
    BY DEF OneCall
  <2> USE DEF IInv
  <2>1. c \in Line /\ d \in Line
    BY LineNow DEF InLine
  <2>2. ahead[c] = {} /\ ahead[d] = {}
    BY DEF Heads
  <2> QED
    BY <2>1, <2>2, OneHead
<1>2. Spec => []IInv
  BY Invariance
<1> QED
  BY <1>1, <1>2, PTL

(* However many callers, rotations, lost answers and restarts: the         *)
(* provider revokes a family only after a token it issued did not arrive   *)
(* or was kept out of the row, or the row was set back or not readable     *)
(* (getAccessToken).                                                       *)
THEOREM NeverReused ==
    ASSUME TokenConstants
    PROVE  Spec => []NoReuse
<1>1. IInv => NoReuse
  BY DEF IInv, Current, Sound, NoReuse
<1>2. Spec => []IInv
  BY Invariance
<1> QED
  BY <1>1, <1>2, PTL
=============================================================================
