----------------------------- MODULE GameWorld -----------------------------
(***************************************************************************)
(* The avatars of the players in the two Godot programs of Tasteless       *)
(* Shores, the game server (game/game/net/server2.gd) and a client that    *)
(* watches (client2.gd), and the buildings of a player, which the game     *)
(* server keeps in the avatar and the main server in the player's session  *)
(* (server/server/ts/player.go, manager.go, server.go).                    *)
(*                                                                         *)
(* An avatar is a child node with the name player_<id>.  queue_free only   *)
(* marks a node: it keeps its name, and is found by it, until the nodes    *)
(* marked are deleted at the end of the frame.  A child that is added      *)
(* under a name in use is renamed by Godot and can no more be found.       *)
(* _handleJoin of the game server waits for the signal idle_frame after it *)
(* has freed an old avatar; handlers of other messages run meanwhile.      *)
(* The main thread emits idle_frame after the handlers and deletions of    *)
(* the frame before, and runs handlers before and after it.                *)
(***************************************************************************)
EXTENDS Naturals, Sequences, FiniteSets, SequencesExt

CONSTANTS
  Players,
  Cap,        \* buildings that an avatar keeps, 20 in the code
  MaxJoins,   \* bound: joins and respawns
  MaxPlaced,  \* bound: buildings that are placed
  MaxMoves    \* bound: changes of the area within the shard

ASSUME WorldAssumption ==
  /\ Cap \in Nat /\ MaxJoins \in Nat /\ MaxPlaced \in Nat /\ MaxMoves \in Nat

VARIABLES
  inside,   \* the players of the shard, Server.players
  syncing,  \* the sessions that are about to send their buildings
  sess,     \* Player.buildings
  wire,     \* messages on the way to the game server and to the client
  back,     \* the Blds messages on the way to the main server
  nodes,    \* the children of each program, by their instance
  born,     \* how many children each program has added: the last instance
  waiting,  \* the joins of the game server that wait for idle_frame
  joins, placed, moves,
  raced,    \* history: avatars that a second message has met at a bad time
  adrift    \* history: why the buildings of a player may differ, see Reasons

mainVars  == <<inside, syncing, sess>>
countVars == <<joins, placed, moves>>
histVars  == <<raced, adrift>>
vars == <<mainVars, wire, back, nodes, born, waiting, countVars, histVars>>

Peers == {"server", "client"}
Buildings == 1..MaxPlaced

Message == [op : {"Join", "Leave"}, id : Players] \cup
           [op : {"Bld"}, id : Players, bld : Buildings]
\* "flight": they were sent to an avatar, or the player left, while others were on
\* their way.  "missed": one came to no avatar, or to one being freed.  "moved":
\* the player came to its new avatar without them.
Reasons == {"flight", "missed", "moved"}
Node == [id : Players, named : BOOLEAN, freed : BOOLEAN, blds : Seq(Buildings)]

TypeOK ==
  /\ inside \subseteq Players /\ syncing \subseteq inside
  /\ sess \in [Players -> Seq(Buildings)]
  /\ wire \in [Peers -> Seq(Message)]
  /\ back \in Seq([id : Players, blds : Seq(Buildings)])
  /\ born \in [Peers -> Nat] /\ nodes = [q \in Peers |-> nodes[q]]
  /\ \A q \in Peers : /\ nodes[q] \in [DOMAIN nodes[q] -> Node]
                      /\ DOMAIN nodes[q] \subseteq 1..born[q]
  /\ waiting \in Seq(Players)
  /\ joins \in 0..MaxJoins /\ placed \in 0..MaxPlaced /\ moves \in 0..MaxMoves
  /\ raced \subseteq Peers \X Players /\ adrift \subseteq Players \X Reasons
  \* Godot gives no name twice, an avatar keeps no more than its buildings
  /\ \A q \in Peers : \A i, j \in DOMAIN nodes[q] :
       /\ nodes[q][i].named /\ nodes[q][j].named /\ nodes[q][i].id = nodes[q][j].id
            => i = j
       /\ Len(nodes[q][i].blds) <= Cap

Init ==
  /\ inside = {} /\ syncing = {} /\ sess = [p \in Players |-> <<>>]
  /\ wire = [q \in Peers |-> <<>>] /\ back = <<>>
  /\ nodes = [q \in Peers |-> <<>>] /\ born = [q \in Peers |-> 0] /\ waiting = <<>>
  /\ joins = 0 /\ placed = 0 /\ moves = 0
  /\ raced = {} /\ adrift = {}

worldVars == <<back, nodes, born, waiting>>

-----------------------------------------------------------------------------
(* The main server *)

Join(p)  == [op |-> "Join", id |-> p]
Leave(p) == [op |-> "Leave", id |-> p]
Bld(p, b) == [op |-> "Bld", id |-> p, bld |-> b]

\* AddPlayer: the player leaves where it was and joins, seen by game server and
\* client alike
AddPlayer(p) ==
  LET msgs == IF p \in inside THEN <<Leave(p), Join(p)>> ELSE <<Join(p)>>
  IN /\ wire' = [q \in Peers |-> wire[q] \o msgs]
     /\ inside' = inside \cup {p}

\* ClientMessageJoin, at first or to respawn
PlayerJoins(p) ==
  /\ p \notin syncing /\ joins < MaxJoins
  /\ AddPlayer(p)
  /\ syncing' = syncing \cup {p}
  /\ joins' = joins + 1
  /\ UNCHANGED <<sess, placed, moves>> /\ UNCHANGED histVars /\ UNCHANGED worldVars

\* the buildings of p on their way to the game server and from it
Sent(p)     == {i \in DOMAIN wire["server"] :
                  wire["server"][i].op = "Bld" /\ wire["server"][i].id = p}
Answered(p) == {i \in DOMAIN back : back[i].id = p}

InFlight(p) == Sent(p) # {} \/ Answered(p) # {}

\* the loop over player.buildings that follows AddPlayer
SyncBuildings(p) ==
  /\ p \in syncing
  /\ wire' = [wire EXCEPT !["server"] =
                @ \o [i \in DOMAIN sess[p] |-> Bld(p, sess[p][i])]]
  /\ adrift' = IF InFlight(p) THEN adrift \cup {<<p, "flight">>} ELSE adrift
  /\ syncing' = syncing \ {p}
  /\ UNCHANGED <<inside, sess, raced>> /\ UNCHANGED countVars /\ UNCHANGED worldVars

\* ClientMessageBldPlace
Place(p) ==
  /\ p \in inside \ syncing /\ placed < MaxPlaced
  /\ placed' = placed + 1
  /\ wire' = [wire EXCEPT !["server"] = Append(@, Bld(p, placed'))]
  /\ UNCHANGED <<joins, moves>>
  /\ UNCHANGED mainVars /\ UNCHANGED histVars /\ UNCHANGED worldVars

\* ServerMessageChangeArea, when findServer gives the same shard: AddPlayer without
\* the buildings
ChangeArea(p) ==
  /\ p \in inside /\ moves < MaxMoves
  /\ AddPlayer(p)
  /\ moves' = moves + 1
  /\ adrift' = adrift \cup {<<p, "moved">>}
  /\ UNCHANGED <<syncing, sess, joins, placed, raced>> /\ UNCHANGED worldVars

\* RemovePlayer: the session and its buildings are gone
PlayerQuits(p) ==
  /\ p \in inside \ syncing
  /\ wire' = [q \in Peers |-> Append(wire[q], Leave(p))]
  /\ inside' = inside \ {p}
  /\ sess' = [sess EXCEPT ![p] = <<>>]
  /\ adrift' = IF InFlight(p) THEN adrift \cup {<<p, "flight">>} ELSE adrift
  /\ UNCHANGED <<syncing, raced>> /\ UNCHANGED countVars /\ UNCHANGED worldVars

\* ServerMessageBlds: what the game server has is what the session keeps
KeepBuildings ==
  /\ back # <<>>
  /\ LET m == Head(back)
     IN sess' = IF m.id \in inside THEN [sess EXCEPT ![m.id] = m.blds] ELSE sess
  /\ back' = Tail(back)
  /\ UNCHANGED <<inside, syncing, wire, nodes, born, waiting>>
  /\ UNCHANGED countVars /\ UNCHANGED histVars

-----------------------------------------------------------------------------
(* The nodes of a Godot program *)

Has(q, p) == \E i \in DOMAIN nodes[q] : nodes[q][i].id = p /\ nodes[q][i].named
Get(q, p) == CHOOSE i \in DOMAIN nodes[q] : nodes[q][i].id = p /\ nodes[q][i].named

QueueFree(children, i) == [children EXCEPT ![i].freed = TRUE]

\* add_child, for one player of ps after the other: a name that is in use is changed
Child(children, ps, k) ==
  [id |-> ps[k], freed |-> FALSE, blds |-> <<>>,
   named |-> /\ ~ \E i \in DOMAIN children : children[i].id = ps[k] /\ children[i].named
             /\ \A j \in 1..(k-1) : ps[j] # ps[k]]

AddChildren(q, children, ps) ==
  /\ nodes' = [nodes EXCEPT ![q] =
       [i \in DOMAIN children \cup (born[q]+1)..(born[q]+Len(ps)) |->
          IF i \in DOMAIN children THEN children[i] ELSE Child(children, ps, i - born[q])]]
  /\ born' = [born EXCEPT ![q] = @ + Len(ps)]

Handling(q, op) == wire[q] # <<>> /\ Head(wire[q]).op = op
Done(q) == wire' = [wire EXCEPT ![q] = Tail(@)]
handled == <<mainVars, countVars>>

Waits(q, p) == q = "server" /\ \E k \in DOMAIN waiting : waiting[k] = p

\* a message for an avatar whose join waits
Races(q, p) == raced' = IF Waits(q, p) THEN raced \cup {<<q, p>>} ELSE raced

\* Mutant: the new avatar is added at once, as in _join of the client.
JoinAtOnce ==
  /\ Handling("server", "Join")
  /\ LET p == Head(wire["server"]).id
     IN /\ AddChildren("server",
             IF Has("server", p) THEN QueueFree(nodes["server"], Get("server", p))
             ELSE nodes["server"], <<p>>)
        /\ Races("server", p)
  /\ Done("server")
  /\ UNCHANGED <<back, waiting, adrift>> /\ UNCHANGED handled

\* Mutant: a join is ignored when there is an avatar.
JoinIgnored ==
  /\ Handling("server", "Join")
  /\ LET p == Head(wire["server"]).id
     IN /\ IF Has("server", p) THEN UNCHANGED <<nodes, born>>
           ELSE AddChildren("server", nodes["server"], <<p>>)
        /\ Races("server", p)
  /\ Done("server")
  /\ UNCHANGED <<back, waiting, adrift>> /\ UNCHANGED handled

\* _handleJoin, up to its yield
HandleJoin ==
  /\ Handling("server", "Join")
  /\ LET p == Head(wire["server"]).id
     IN /\ IF Has("server", p)
           THEN /\ nodes' = [nodes EXCEPT !["server"] = QueueFree(@, Get("server", p))]
                /\ waiting' = Append(waiting, p)
                /\ UNCHANGED born
           ELSE /\ AddChildren("server", nodes["server"], <<p>>)
                /\ UNCHANGED waiting
        /\ Races("server", p)
  /\ Done("server")
  /\ UNCHANGED <<back, adrift>> /\ UNCHANGED handled

\* _join of the client: the old avatar still has the name of the new one
ClientJoin ==
  /\ Handling("client", "Join")
  /\ LET p == Head(wire["client"]).id
     IN /\ AddChildren("client",
             IF Has("client", p) THEN QueueFree(nodes["client"], Get("client", p))
             ELSE nodes["client"], <<p>>)
        /\ raced' = IF Has("client", p) THEN raced \cup {<<"client", p>>} ELSE raced
  /\ Done("client")
  /\ UNCHANGED <<back, waiting, adrift>> /\ UNCHANGED handled

\* _handleLeave, _leave
HandleLeave(q) ==
  /\ Handling(q, "Leave")
  /\ LET p == Head(wire[q]).id
     IN /\ nodes' = IF Has(q, p) THEN [nodes EXCEPT ![q] = QueueFree(@, Get(q, p))]
                    ELSE nodes
        /\ Races(q, p)
  /\ Done(q)
  /\ UNCHANGED <<back, born, waiting, adrift>> /\ UNCHANGED handled

\* Mutant: the building is kept, the answer left out.
HandleBldQuiet ==
  /\ Handling("server", "Bld")
  /\ LET p == Head(wire["server"]).id
         i == Get("server", p)
     IN IF ~Has("server", p)
        THEN adrift' = adrift \cup {<<p, "missed">>} /\ UNCHANGED nodes
        ELSE /\ nodes' = [nodes EXCEPT !["server"][i].blds =
                            Append(@, Head(wire["server"]).bld)]
             /\ adrift' = IF nodes["server"][i].freed
                           THEN adrift \cup {<<p, "missed">>} ELSE adrift
  /\ Done("server")
  /\ UNCHANGED <<back, born, waiting, raced>> /\ UNCHANGED handled

\* Mutant: player_buildings keeps every building.
HandleBldMore ==
  /\ Handling("server", "Bld")
  /\ LET p == Head(wire["server"]).id
         i == Get("server", p)
         new == Append(nodes["server"][i].blds, Head(wire["server"]).bld)
     IN IF ~Has("server", p)
        THEN adrift' = adrift \cup {<<p, "missed">>} /\ UNCHANGED <<nodes, back>>
        ELSE /\ nodes' = [nodes EXCEPT !["server"][i].blds = new]
             /\ back' = Append(back, [id |-> p, blds |-> new])
             /\ UNCHANGED adrift
  /\ Done("server")
  /\ UNCHANGED <<born, waiting, raced>> /\ UNCHANGED handled

\* _handleBld and player_buildings: also for an avatar that is being freed
HandleBld ==
  /\ Handling("server", "Bld")
  /\ LET p == Head(wire["server"]).id
         b == Head(wire["server"]).bld
         i == Get("server", p)
         old == nodes["server"][i].blds
         new == IF Len(old) < Cap THEN Append(old, b) ELSE old
     IN IF ~Has("server", p)
        THEN adrift' = adrift \cup {<<p, "missed">>} /\ UNCHANGED <<nodes, back>>
        ELSE /\ nodes' = [nodes EXCEPT !["server"][i].blds = new]
             /\ back' = Append(back, [id |-> p, blds |-> new])
             /\ adrift' = IF nodes["server"][i].freed
                           THEN adrift \cup {<<p, "missed">>} ELSE adrift
  /\ Done("server")
  /\ UNCHANGED <<born, waiting, raced>> /\ UNCHANGED handled

\* the end of a frame, or of a physics step: the nodes marked are deleted
Delete(q) ==
  /\ \E i \in DOMAIN nodes[q] : nodes[q][i].freed
  /\ nodes' = [nodes EXCEPT ![q] =
                 [i \in {j \in DOMAIN @ : ~@[j].freed} |-> @[i]]]
  /\ UNCHANGED <<wire, back, born, waiting>> /\ UNCHANGED handled /\ UNCHANGED histVars

\* Mutant: only a join that waits alone goes on.
IdleFrameOne ==
  /\ Len(waiting) = 1
  /\ \A i \in DOMAIN nodes["server"] : ~nodes["server"][i].freed
  /\ AddChildren("server", nodes["server"], waiting)
  /\ waiting' = <<>>
  /\ UNCHANGED <<wire, back>> /\ UNCHANGED handled /\ UNCHANGED histVars

\* the signal idle_frame: the joins that wait go on, in their order
IdleFrame ==
  /\ waiting # <<>>
  /\ \A i \in DOMAIN nodes["server"] : ~nodes["server"][i].freed
  /\ AddChildren("server", nodes["server"], waiting)
  /\ waiting' = <<>>
  /\ UNCHANGED <<wire, back>> /\ UNCHANGED handled /\ UNCHANGED histVars

MainStep(p) == \/ PlayerJoins(p) \/ SyncBuildings(p) \/ Place(p)
               \/ ChangeArea(p) \/ PlayerQuits(p)
Handler(q)  == \/ q = "server" /\ (HandleJoin \/ HandleBld)
               \/ q = "client" /\ ClientJoin
               \/ HandleLeave(q)

Next ==
  \/ \E p \in Players : MainStep(p)
  \/ KeepBuildings \/ IdleFrame
  \/ \E q \in Peers : Handler(q) \/ Delete(q)

Spec == Init /\ [][Next]_vars

\* the loops of the main threads go on, as do the handler of the shard and a
\* session that has begun to join
Fairness ==
  /\ WF_vars(IdleFrame) /\ WF_vars(KeepBuildings)
  /\ \A q \in Peers : WF_vars(Handler(q)) /\ WF_vars(Delete(q))
  /\ \A p \in Players : WF_vars(SyncBuildings(p))

FairSpec == Spec /\ Fairness

-----------------------------------------------------------------------------
(* Properties *)

\* everything sent has been handled and the frames have ended
Settled(q) == /\ wire[q] = <<>> /\ \A i \in DOMAIN nodes[q] : ~nodes[q][i].freed
              /\ q = "server" => waiting = <<>>

Avatars(q, p) == {i \in DOMAIN nodes[q] : nodes[q][i].id = p}

\* A player of the shard has one avatar, which its id finds, and one that has left
\* has none, in the game server unless a Join or Leave came while an earlier join
\* of the player waited, in the client unless a Join came while the old avatar
\* still had its name.
OneAvatar ==
  \A q \in Peers : \A p \in Players :
    Settled(q) /\ <<q, p>> \notin raced =>
      IF p \in inside THEN Cardinality(Avatars(q, p)) = 1 /\ Has(q, p)
      ELSE Avatars(q, p) = {}

\* A join is never lost, whatever it raced with: whoever is inside has an avatar,
\* if one that its id may not find.
JoinsKept ==
  \A q \in Peers : \A p \in inside : Settled(q) => Avatars(q, p) # {}

\* The session and the avatar have the same buildings when nothing is on its way,
\* unless a building met an avatar that was being freed or was not yet added, or
\* the player joined without its buildings or while some were on the way.
SameBuildings ==
  \A p \in inside :
    /\ \A r \in Reasons : <<p, r>> \notin adrift
    /\ Settled("server") /\ p \notin syncing /\ ~InFlight(p)
    /\ <<"server", p>> \notin raced
    => sess[p] = nodes["server"][Get("server", p)].blds

-----------------------------------------------------------------------------
(* The invariant behind OneAvatar, JoinsKept and SameBuildings,            *)
(* see GameWorldProofs                                                     *)

\* The Joins and Leaves of p that a program has still to handle; those that wait
\* besides.
Pending(q, p) == {i \in DOMAIN wire[q] : wire[q][i].id = p /\ wire[q][i].op # "Bld"}
Arrived(q, p) == Pending(q, p) = {} /\ ~Waits(q, p)

\* The last of them says whether p is on the shard.
LastIsTrue ==
  \A q \in Peers : \A p \in Players : \A i \in Pending(q, p) :
    (\A j \in Pending(q, p) : j <= i) => (wire[q][i].op = "Join" <=> p \in inside)

\* After the last of them p has an avatar that stays.
AvatarStays ==
  \A q \in Peers : \A p \in inside :
    Arrived(q, p) => \E i \in Avatars(q, p) : ~nodes[q][i].freed

\* A player that no message has met at a bad time has one avatar, which a join
\* that waits has freed, and a Leave as well.
AvatarIsNamed ==
  \A q \in Peers : \A p \in Players : <<q, p>> \notin raced =>
    /\ \A i \in Avatars(q, p) : nodes[q][i].named
    /\ Waits(q, p) => /\ \A i \in Avatars(q, p) : nodes[q][i].freed
                      /\ \A j, k \in DOMAIN waiting :
                           waiting[j] = p /\ waiting[k] = p => j = k
    /\ Pending(q, p) = {} /\ p \notin inside =>
         /\ ~Waits(q, p)
         /\ \A i \in Avatars(q, p) : nodes[q][i].freed

\* Nothing has happened to p that its buildings would not survive.
Steady(p) == <<"server", p>> \notin raced /\ \A r \in Reasons : <<p, r>> \notin adrift

\* A session that has not yet sent its buildings to the new avatar has only sent
\* some to the old one, and the new one has none.
NewIsEmpty(p) ==
  /\ \A i \in Sent(p) : \E j \in Pending("server", p) : i < j
  /\ Arrived("server", p) => \A k \in Avatars("server", p) : nodes["server"][k].blds = <<>>

\* When it has, they come after the Join; the last answer is what the avatar has, and
\* when there is none on the way the session has it as well.
AnswersFollow(p) ==
  /\ \A i \in Sent(p) : \A j \in Pending("server", p) : j < i
  /\ Answered(p) # {} => Arrived("server", p)
  /\ \A i \in Answered(p) : (\A j \in Answered(p) : j <= i) =>
       \A k \in Avatars("server", p) : nodes["server"][k].blds = back[i].blds
  /\ Sent(p) = {} /\ Answered(p) = {} =>
       /\ Arrived("server", p) =>
            \A k \in Avatars("server", p) : nodes["server"][k].blds = sess[p]
       /\ ~Arrived("server", p) => sess[p] = <<>>

BuildingsFollow ==
  \A p \in Players :
    /\ p \notin inside => sess[p] = <<>>
    /\ Steady(p) => /\ p \notin inside => Sent(p) = {} /\ Answered(p) = {}
                    /\ p \in syncing => NewIsEmpty(p)
                    /\ p \in inside \ syncing => AnswersFollow(p)

AvatarInv == LastIsTrue /\ AvatarStays /\ AvatarIsNamed /\ BuildingsFollow

-----------------------------------------------------------------------------
(* Liveness, and what the Readme says *)

\* Every join that waits comes to an avatar, every building that is sent is handled.
WorldSettles == <>[](\A q \in Peers : Settled(q) /\ back = <<>>)

\* Readme.md: when a player joins or respawns the main server syncs its buildings
\* from the session to the game server; here if none was on its way meanwhile.
RespawnSyncs ==
  \A p \in inside :
    /\ <<p, "flight">> \notin adrift /\ <<"server", p>> \notin raced
    /\ Settled("server") /\ back = <<>> /\ p \notin syncing /\ Has("server", p)
    => ToSet(sess[p]) \subseteq ToSet(nodes["server"][Get("server", p)].blds)
=============================================================================
