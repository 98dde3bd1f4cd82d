------------------------------ MODULE SceneTabs ------------------------------
(***************************************************************************)
(* The scenes in the database, in their order (store/scenes.go), the       *)
(* handlers that change and list them (api/scenes.go), and the copy an     *)
(* open page holds of them (scenes.store.ts).  Each handler writes, then   *)
(* reads again what it answers; answers reach the page in any order; pages *)
(* open elsewhere write too.  One relay moves between the rooms: a scene   *)
(* aimed at its room asks for a confirmation before it is launched.        *)
(*                                                                         *)
(* A scene is [name, room, position]: names are ranked as the alphabet     *)
(* ranks them, room is its one target.  The version counts the changes of  *)
(* the database that a list of scenes would show.                          *)
(***************************************************************************)
EXTENDS Integers, SequencesExt

CONSTANTS
  Rooms,
  FirstRooms,   \* where the relay may be at first
  Specs,        \* the scenes a user may describe: [name, room]
  MaxRequests,  \* bound: requests under way at a time
  MaxEvents     \* bound: requests sent, requests lost, changes made elsewhere

\* Names are ranked; a page has something to describe.
ASSUME SceneTabsAssumption ==
  Specs # {} /\ Specs \subseteq [name : Int, room : Rooms] /\ FirstRooms \subseteq Rooms

VARIABLES
  table,      \* table scene: from the ids that exist to scenes
  lastId,     \* AUTOINCREMENT: ids are not used again
  relayRoom,  \* the room of the relay: COALESCE(room_override, room)
  version,
  list,       \* the page's copy: its scenes, each as it was answered
  seen,       \* history: the version the copy is known to show, 0 when unknown
  requests,   \* the page's requests under way
  events

tabs == <<table, lastId, relayRoom, version, list, seen, requests, events>>
database == <<table, lastId, relayRoom, version>>

Unranked == -1
Event == events < MaxEvents /\ events' = events + 1

(***************************************************************************)
(* The store.                                                              *)
(***************************************************************************)

\* ListScenes: ORDER BY position IS NULL, position, name COLLATE NOCASE, id.
Before(a, b) ==
  LET p == table[a].position  q == table[b].position IN
    \/ p # Unranked /\ (q = Unranked \/ p < q)
    \/ p = q /\ (table[a].name < table[b].name \/ (table[a].name = table[b].name /\ a < b))
Rank(id) == Cardinality({other \in DOMAIN table : Before(other, id)})
Listed == [n \in 1 .. Cardinality(DOMAIN table) |-> CHOOSE id \in DOMAIN table : Rank(id) = n - 1]

\* Describe: what the interface is told of a scene, touches_relays as of now.
View(id) == [id |-> id, name |-> table[id].name, room |-> table[id].room,
             touches |-> table[id].room = relayRoom]
Views == [i \in DOMAIN Listed |-> View(Listed[i])]

Positions == {table[s].position : s \in DOMAIN table}
NewPositionCounted == Cardinality(DOMAIN table)
NewPosition == IF Positions \ {Unranked} = {} THEN 0 ELSE 1 + CHOOSE p \in Positions : \A q \in Positions : q <= p

Row(spec, position) == [name |-> spec.name, room |-> spec.room, position |-> position]

\* One change of the database; a handler's write is one statement, or one transaction.
Written == version' = version + 1

CreateScene(spec) ==
  /\ Written
  /\ lastId' = lastId + 1
  /\ table' = [id \in DOMAIN table \cup {lastId + 1} |->
                 IF id = lastId + 1 THEN Row(spec, NewPosition) ELSE table[id]]
  /\ UNCHANGED relayRoom

UpdateSceneMoved(id, spec) ==
  /\ id \in DOMAIN table /\ Written
  /\ table' = [table EXCEPT ![id] = Row(spec, NewPosition)]
  /\ UNCHANGED <<lastId, relayRoom>>
UpdateScene(id, spec) ==
  /\ id \in DOMAIN table /\ Written
  /\ table' = [table EXCEPT ![id] = Row(spec, @.position)]
  /\ UNCHANGED <<lastId, relayRoom>>

DeleteScene(id) ==
  /\ id \in DOMAIN table /\ Written
  /\ table' = Restrict(table, DOMAIN table \ {id})
  /\ UNCHANGED <<lastId, relayRoom>>

\* SetSceneOrder, a transaction: all unranked, then the ids one by one.
PositionIn(ids, id) == IF Contains(ids, id) THEN SelectInSeq(ids, LAMBDA x : x = id) - 1 ELSE Unranked
SetSceneOrder(ids) ==
  /\ ToSet(ids) \subseteq DOMAIN table /\ Written
  /\ table' = [id \in DOMAIN table |-> [table[id] EXCEPT !.position = PositionIn(ids, id)]]
  /\ UNCHANGED <<lastId, relayRoom>>

\* changeRoom, or a source that gives another room.
MoveRelay(room) ==
  /\ room # relayRoom /\ Written
  /\ relayRoom' = room
  /\ UNCHANGED <<table, lastId>>

\* Another page, or the same scenes edited from a telephone: its order may leave out
\* scenes it has not seen, or be none.
Orders == SetToAllKPermutations(DOMAIN table)
OtherPages ==
  /\ Event /\ UNCHANGED <<list, seen, requests>>
  /\ \/ \E spec \in Specs : CreateScene(spec) \/ \E id \in DOMAIN table : UpdateScene(id, spec)
     \/ \E id \in DOMAIN table : DeleteScene(id)
     \/ \E room \in Rooms : MoveRelay(room)
     \/ \E ids \in Orders : SetSceneOrder(ids)

(***************************************************************************)
(* The page's requests.                                                    *)
(***************************************************************************)
Send(request) == Cardinality(requests) < MaxRequests /\ Event /\ requests' = requests \cup {request}
  /\ UNCHANGED <<database, list, seen>>

\* Of a request: wrote and at are the versions it wrote and read, views what it answers.
Request(op, id, spec, ids) ==
  [op |-> op, stage |-> "sent", id |-> id, spec |-> spec, ids |-> ids, wrote |-> 0, at |-> 0, views |-> <<>>]
NoSpec == CHOOSE spec \in Specs : TRUE

Reload == Request("load", 0, NoSpec, <<>>)
Creations == {Request("create", 0, spec, <<>>) : spec \in Specs}

Load == Send(Reload)
Create == \E request \in Creations : Send(request)
Update == \E i \in DOMAIN list, spec \in Specs : Send(Request("update", list[i].id, spec, <<>>))
Delete == \E i \in DOMAIN list : Send(Request("delete", list[i].id, NoSpec, <<>>))
Run == \E i \in DOMAIN list : Send(Request("run", list[i].id, NoSpec, <<>>))

\* The dialog of the order: the scenes it shows, moved or not, or none.  It keeps those
\* of its opening, which the page may have replaced when it sends them: that is a request
\* that was long under way.  A scene the page shows twice is sent twice.
SaveOrder ==
  \/ Send(Request("order", 0, NoSpec, <<>>))
  \/ \E p \in Bijection(DOMAIN list, DOMAIN list) :
       Send(Request("order", 0, NoSpec, [i \in DOMAIN list |-> list[p[i]].id]))

(***************************************************************************)
(* The handlers: a write, then two reads of what is answered, the scenes    *)
(* and the devices, in no transaction.                                     *)
(***************************************************************************)
Becomes(c, d) == requests' = (requests \ {c}) \cup {d}

ServeCreate(c) ==
  /\ c.op = "create" /\ c.stage = "sent" /\ CreateScene(c.spec)
  /\ Becomes(c, [c EXCEPT !.stage = "written", !.wrote = version', !.id = lastId'])
ServeUpdate(c) ==
  /\ c.op = "update" /\ c.stage = "sent" /\ UpdateScene(c.id, c.spec)
  /\ Becomes(c, [c EXCEPT !.stage = "written", !.wrote = version'])
ServeDelete(c) ==
  /\ c.op = "delete" /\ c.stage = "sent" /\ DeleteScene(c.id)
  /\ Becomes(c, [c EXCEPT !.stage = "answered", !.wrote = version', !.at = version'])
ServeOrder(c) ==
  /\ c.op = "order" /\ c.stage = "sent" /\ IsInjective(c.ids) /\ SetSceneOrder(c.ids)
  /\ Becomes(c, [c EXCEPT !.stage = "written"])

\* A scene that is gone, an id twice or unknown in an order: an error, nothing changes.
Refused(c) ==
  /\ c.stage = "sent"
  /\ \/ c.op \in {"update", "delete", "run"} /\ c.id \notin DOMAIN table
     \/ c.op = "order" /\ ~(IsInjective(c.ids) /\ ToSet(c.ids) \subseteq DOMAIN table)
  /\ requests' = requests \ {c} /\ UNCHANGED database

\* listScenes, for the list itself and after an order.
ReadList(c) ==
  /\ \/ c.op = "load" /\ c.stage = "sent"
     \/ c.op = "order" /\ c.stage = "written"
  /\ Becomes(c, [c EXCEPT !.stage = "read", !.at = version, !.views = Views])
  /\ UNCHANGED database

\* sceneView; the scene may be gone since it was written.
ReadView(c) ==
  /\ \/ c.op = "run" /\ c.stage = "sent"
     \/ c.op \in {"create", "update"} /\ c.stage = "written"
  /\ IF c.id \in DOMAIN table
     THEN Becomes(c, [c EXCEPT !.stage = "read", !.at = version, !.views = <<View(c.id)>>, !.spec = NoSpec])
     ELSE requests' = requests \ {c}
  /\ UNCHANGED database

\* Describe, with the devices read last.
Described(view) == [view EXCEPT !.touches = view.room = relayRoom]
DescribeAll(c) ==
  /\ c.stage = "read"
  /\ Becomes(c, [c EXCEPT !.stage = "answered", !.views = [i \in DOMAIN @ |-> Described(@[i])]])
  /\ UNCHANGED database

Handle == \E c \in requests :
  /\ \/ ServeCreate(c) \/ ServeUpdate(c) \/ ServeDelete(c) \/ ServeOrder(c)
     \/ Refused(c) \/ ReadList(c) \/ ReadView(c) \/ DescribeAll(c)
  /\ UNCHANGED <<list, seen, events>>

(***************************************************************************)
(* What the page makes of the answers.                                     *)
(***************************************************************************)
Replaced(view) == [i \in DOMAIN list |-> IF list[i].id = view.id THEN view ELSE list[i]]
Without(id) ==
  LET kept[n \in 0 .. Len(list)] ==
        IF n = 0 THEN <<>> ELSE IF list[n].id = id THEN kept[n - 1] ELSE Append(kept[n - 1], list[n])
  IN kept[Len(list)]

\* The copy still shows what the server has when the answer tells of the very next
\* change, and nothing changed between the write and the read.
NextSeen(c) == IF seen # 0 /\ c.wrote = c.at /\ c.at = seen + 1 THEN c.at ELSE 0

\* A list replaces the copy, whatever it already showed.
ListArrives(c) == c.op \in {"load", "order"} /\ list' = c.views /\ seen' = c.at
\* A new scene is put last; a scene recorded or launched takes its place again.
CreatedArrivesFirst(c) == c.op = "create" /\ list' = c.views \o list /\ seen' = NextSeen(c)
CreatedArrives(c) == c.op = "create" /\ list' = list \o c.views /\ seen' = NextSeen(c)
UpdatedArrives(c) == c.op = "update" /\ list' = Replaced(c.views[1]) /\ seen' = NextSeen(c)
LaunchedArrives(c) == c.op = "run" /\ list' = Replaced(c.views[1]) /\ seen' = IF c.at = seen THEN seen ELSE 0
DeletedArrives(c) == c.op = "delete" /\ list' = Without(c.id) /\ seen' = NextSeen(c)

AnswerArrives == \E c \in requests :
  /\ c.stage = "answered"
  /\ ListArrives(c) \/ CreatedArrives(c) \/ UpdatedArrives(c) \/ LaunchedArrives(c) \/ DeletedArrives(c)
  /\ requests' = requests \ {c}
  /\ UNCHANGED <<database, events>>

\* The request or its answer is lost: an error is shown, the copy stays as it is.
Fail == \E c \in requests :
  /\ Event
  /\ requests' = requests \ {c}
  /\ UNCHANGED <<database, list, seen>>

(***************************************************************************)
(* Specification.  At first a few scenes, in their order or by name, and a *)
(* page that has just loaded them.                                         *)
(***************************************************************************)
FirstScenes == <<[name |-> 3, room |-> CHOOSE r \in Rooms : TRUE], [name |-> 2, room |-> CHOOSE r \in Rooms : TRUE]>>
TabsInit ==
  /\ \E ranked \in BOOLEAN :
       table = [id \in {1, 2} |-> Row(FirstScenes[id], IF ranked THEN id - 1 ELSE Unranked)]
  /\ lastId = 2 /\ relayRoom \in FirstRooms /\ version = 1
  /\ list = Views /\ seen = 1 /\ requests = {} /\ events = 0

Page == Load \/ Create \/ Update \/ Delete \/ Run \/ SaveOrder
TabsNext == Page \/ Handle \/ AnswerArrives \/ Fail \/ OtherPages
TabsSpec == TabsInit /\ [][TabsNext]_tabs

(***************************************************************************)
(* Properties.                                                             *)
(***************************************************************************)

\* The scenes that have a position each have their own, so that creations, deletions and
\* orders, complete or partial, never leave the list to chance (store/scenes.go:109, 144).
PositionsAreDistinct ==
  \A a, b \in DOMAIN table : a # b /\ table[a].position = table[b].position => table[a].position = Unranked

\* A page that applied, in their order, the answers to its own changes since a list it
\* read, nobody having changed anything else, shows the server's scenes: what they are,
\* and whether they drive a relay, on which the confirmation depends (scenes.store.ts
\* save, remove, saveOrder, run).  In their order too, when every scene has a position.
KnownCopyIsTrue ==
  seen = version =>
    /\ ToSet(list) = ToSet(Views) /\ Len(list) = Len(Views)
    /\ Unranked \notin Positions => list = Views

\* Two scenes change places only when an order is saved, and as it says, or by a new name:
\* in particular an order refused for one of its ids leaves the others as they were.  A
\* new scene comes last, as long as every scene has a position (store/scenes.go:109).
Ordered ==
  \/ requests' = requests /\ \E ids \in Orders : SetSceneOrder(ids)
  \/ \E c \in requests \ requests' : c.op = "order" /\ SetSceneOrder(c.ids)
Kept(id) == id \in DOMAIN table /\ id \in DOMAIN table' /\ table'[id].name = table[id].name
New(id) == id \notin DOMAIN table /\ id \in DOMAIN table'
OrderIsKept ==
  [][/\ (\A a, b \in DOMAIN table : Kept(a) /\ Kept(b) => (Before(a, b) <=> Before(a, b)')) \/ Ordered
     /\ \A id \in DOMAIN table' : New(id) /\ Unranked \notin Positions => Last(Listed') = id]_tabs
=============================================================================
