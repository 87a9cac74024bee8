----------------------------- MODULE WireLemmas -----------------------------
(***************************************************************************)
(* Lemmas about the messages of Wire: the tables of each pair of writer    *)
(* and reader agree, what the cells of a message are, and what a reader    *)
(* that has read some of them has got and has before it.                   *)
(***************************************************************************)
EXTENDS Wire, SequenceLemmas

(* What the fields of the tables are: a value, a list of values, or the buildings
   of a player. *)
FieldNames ==
  {"amount", "area", "bldid", "buildings", "char", "chest", "data", "distance", "flag",
   "from", "health", "id", "item", "mark", "marker", "msg", "name", "players", "pw",
   "rotation", "target", "team", "typ", "user", "weapon", "whisper", "x", "y", "z", Ignored}

Simple   == [k : {"u8", "u64", "f64", "empty", "str"}, f : FieldNames, of : {<<>>}]
Several  == [k : {"list"}, f : FieldNames, of : Seq(Simple)]
Holding  == [k : {"data"}, f : FieldNames, of : {Building}]
AnyField == Simple \cup Several \cup Holding
Flat     == Seq(Simple)
Layout   == Seq(AnyField)

(* A field as it is written, and the same field as it is read: of the same kind,
   into the same name or into none. *)
Agree(w, r) ==
  /\ r.f \in {w.f, Ignored}
  /\ r.k = w.k \/ (w.k = "empty" /\ r.k = "str")

AgreeFlat(ws, rs) ==
  /\ Len(ws) = Len(rs)
  /\ \A i \in 1..Len(ws) : Agree(ws[i], rs[i])

AgreeAll(ws, rs) ==
  /\ Len(ws) = Len(rs)
  /\ \A i \in 1..Len(ws) : Agree(ws[i], rs[i]) /\ AgreeFlat(ws[i].of, rs[i].of)

-----------------------------------------------------------------------------
(* The tables *)

LEMMA SimpleFields ==
  ASSUME NEW f \in FieldNames
  PROVE  /\ U8(f) \in Simple /\ U64(f) \in Simple /\ F64(f) \in Simple
         /\ Str(f) \in Simple /\ Empty(f) \in Simple
<1> HIDE DEF FieldNames
<1> QED BY DEF U8, U64, F64, Str, Empty, Field, Simple

LEMMA FlatOf0 == <<>> \in Flat
BY DEF Flat
LEMMA FlatOf1 == ASSUME NEW a \in Simple PROVE <<a>> \in Flat
BY DEF Flat
LEMMA FlatOf2 == ASSUME NEW a \in Simple, NEW b \in Simple PROVE <<a, b>> \in Flat
BY DEF Flat
LEMMA FlatOf3 ==
  ASSUME NEW a \in Simple, NEW b \in Simple, NEW c \in Simple PROVE <<a, b, c>> \in Flat
BY DEF Flat

LEMMA FlatConcat == ASSUME NEW a \in Flat, NEW b \in Flat PROVE a \o b \in Flat
BY DEF Flat

LEMMA FlatIsLayout == ASSUME NEW l \in Flat PROVE l \in Layout
BY DEF Flat, Layout, AnyField

LEMMA IdAt ==
  ASSUME NEW fs \in Flat
  PROVE  Id(fs) \in Flat /\ At(fs) \in Flat
<1>1. {"id", "x", "y", "z"} \subseteq FieldNames BY DEF FieldNames
<1>2. /\ U64("id") \in Simple /\ F64("x") \in Simple
      /\ F64("y") \in Simple /\ F64("z") \in Simple
  BY <1>1, SimpleFields
<1> QED BY <1>2 DEF Id, At, Flat

LEMMA IdAtLayout ==
  ASSUME NEW fs \in Layout
  PROVE  Id(fs) \in Layout /\ At(fs) \in Layout
<1>1. {"id", "x", "y", "z"} \subseteq FieldNames BY DEF FieldNames
<1>2. /\ U64("id") \in AnyField /\ F64("x") \in AnyField
      /\ F64("y") \in AnyField /\ F64("z") \in AnyField
  BY <1>1, SimpleFields DEF AnyField
<1> QED BY <1>2 DEF Id, At, Layout

LEMMA ListLayout ==
  ASSUME NEW f \in FieldNames, NEW fs \in Flat
  PROVE  <<List(f, fs)>> \in Layout
<1>1. List(f, fs) \in Several
  <2> HIDE DEF FieldNames
  <2> QED BY DEF List, Several, Flat
<1> QED BY <1>1 DEF Layout, AnyField

LEMMA DataLayout == <<Data("buildings", Building)>> \in Layout
<1>1. "buildings" \in FieldNames BY DEF FieldNames
<1>2. Data("buildings", Building) \in Holding
  <2> HIDE DEF FieldNames
  <2> QED BY <1>1 DEF Data, Holding
<1> QED BY <1>2 DEF Layout, AnyField

LEMMA LayoutConcat == ASSUME NEW a \in Layout, NEW b \in Layout PROVE a \o b \in Layout
BY DEF Layout

TypedTable(t) == \A cmd \in DOMAIN t : t[cmd] \in Layout

LEMMA WithTyped ==
  ASSUME NEW a, NEW b, TypedTable(a), TypedTable(b)
  PROVE  TypedTable(With(a, b))
BY DEF TypedTable, With

LEMMA BuildingFlat == Building \in Flat
<1>1. {"bldid", "rotation", "data"} \subseteq FieldNames BY DEF FieldNames
<1> QED BY <1>1, SimpleFields, FlatOf1, FlatOf2, IdAt, FlatConcat DEF Building

LEMMA JoinLayout ==
  Id(<<Str("name"), Str("team"), U8("char")>> \o At(<<List("marker", <<Str("marker")>>)>>))
    \in Layout
<1>1. {"name", "team", "char", "marker"} \subseteq FieldNames BY DEF FieldNames
<1>2. <<Str("name"), Str("team"), U8("char")>> \in Layout
  BY <1>1, SimpleFields, FlatOf3, FlatIsLayout
<1>3. <<List("marker", <<Str("marker")>>)>> \in Layout
  BY <1>1, SimpleFields, FlatOf1, ListLayout
<1> QED BY <1>2, <1>3, IdAtLayout, LayoutConcat

(* a layout of one or two values behind the number of a player *)
LEMMA IdLayouts ==
  ASSUME NEW a \in Simple, NEW b \in Simple
  PROVE  /\ Id(<<>>) \in Layout /\ Id(<<a>>) \in Layout /\ Id(<<a, b>>) \in Layout
         /\ Id(At(<<>>)) \in Layout /\ Id(At(<<a, b>>)) \in Layout
         /\ Id(<<a>> \o At(<<>>)) \in Layout
BY FlatOf0, FlatOf1, FlatOf2, IdAt, FlatConcat, FlatIsLayout

LEMMA Layouts ==
  /\ <<>> \in Layout /\ Id(<<>>) \in Layout
  /\ <<U8("char")>> \in Layout /\ <<U8("item")>> \in Layout
  /\ <<U64("target")>> \in Layout /\ <<Str("flag")>> \in Layout
  /\ <<U64("whisper"), Str("msg")>> \in Layout /\ <<Str("user"), Str("pw")>> \in Layout
  /\ At(<<F64("rotation")>>) \in Layout
  /\ <<U64("bldid")>> \o At(<<F64("rotation"), Empty("data")>>) \in Layout
  /\ Building \in Layout /\ Id(Building) \in Layout
  /\ Moved \in Layout /\ <<List("players", Moved)>> \in Layout
  /\ ServerMoved \in Layout /\ <<List("players", ServerMoved)>> \in Layout
  /\ Id(<<U64("target")>>) \in Layout /\ Id(<<U64("item")>>) \in Layout
  /\ Id(<<U8("item")>>) \in Layout /\ Id(<<U8("area")>>) \in Layout
  /\ Id(<<F64("amount"), U64("from")>>) \in Layout
  /\ Id(At(<<Str("name"), Str("team")>>)) \in Layout
  /\ Id(<<Str("flag")>>) \in Layout /\ Id(<<Str("mark")>>) \in Layout
  /\ Id(<<U64("whisper"), Str("msg")>>) \in Layout
  /\ Id(<<Data("buildings", Building)>>) \in Layout
  /\ Id(<<U64("typ")>> \o At(<<>>)) \in Layout /\ Id(At(<<>>)) \in Layout
  /\ Id(<<Str("chest")>> \o At(<<>>)) \in Layout
  /\ Id(<<F64("distance")>>) \in Layout
<1> HIDE DEF FieldNames
<1>0. {"amount", "area", "bldid", "char", "chest", "data", "distance", "flag", "from",
       "health", "id", "item", "mark", "msg", "name", "players", "pw", "rotation",
       "target", "team", "typ", "user", "weapon", "whisper", "x", "y", "z", Ignored}
        \subseteq FieldNames
  BY DEF FieldNames
<1> USE SimpleFields, FlatOf0, FlatOf1, FlatOf2, FlatOf3, IdAt, FlatConcat, FlatIsLayout, <1>0
<1>1. <<>> \in Layout /\ Id(<<>>) \in Layout OBVIOUS
<1>2. <<U8("char")>> \in Layout /\ <<U8("item")>> \in Layout OBVIOUS
<1>3. <<U64("target")>> \in Layout /\ <<Str("flag")>> \in Layout OBVIOUS
<1>4. <<U64("whisper"), Str("msg")>> \in Layout /\ <<Str("user"), Str("pw")>> \in Layout
  OBVIOUS
<1>5. At(<<F64("rotation")>>) \in Layout OBVIOUS
<1>6. <<U64("bldid")>> \o At(<<F64("rotation"), Empty("data")>>) \in Layout OBVIOUS
<1>7. Building \in Layout /\ Id(Building) \in Layout BY BuildingFlat
<1>8. Moved \in Flat BY DEF Moved
<1>9. Moved \in Layout /\ <<List("players", Moved)>> \in Layout BY <1>8, ListLayout
<1>10. ServerMoved \in Flat BY DEF ServerMoved
<1>11. ServerMoved \in Layout /\ <<List("players", ServerMoved)>> \in Layout
  BY <1>10, ListLayout
<1>12. Id(<<U64("target")>>) \in Layout /\ Id(<<U64("item")>>) \in Layout OBVIOUS
<1>13. Id(<<U8("item")>>) \in Layout /\ Id(<<U8("area")>>) \in Layout OBVIOUS
<1>14. Id(<<F64("amount"), U64("from")>>) \in Layout OBVIOUS
<1>15. Id(At(<<Str("name"), Str("team")>>)) \in Layout OBVIOUS
<1>16. Id(<<Str("flag")>>) \in Layout /\ Id(<<Str("mark")>>) \in Layout OBVIOUS
<1>17. Id(<<U64("whisper"), Str("msg")>>) \in Layout OBVIOUS
<1>18. Id(<<Data("buildings", Building)>>) \in Layout BY ONLY DataLayout, IdAtLayout
<1>19. Id(<<U64("typ")>> \o At(<<>>)) \in Layout /\ Id(At(<<>>)) \in Layout OBVIOUS
<1>20. Id(<<Str("chest")>> \o At(<<>>)) \in Layout OBVIOUS
<1>21. Id(<<F64("distance")>>) \in Layout OBVIOUS
<1> QED BY ONLY <1>1, <1>2, <1>3, <1>4, <1>5, <1>6, <1>7, <1>9, <1>11, <1>12, <1>13, <1>14,
                <1>15, <1>16, <1>17, <1>18, <1>19, <1>20, <1>21

LEMMA TablesTyped ==
  /\ TypedTable(GoWrites) /\ TypedTable(GoReads)
  /\ TypedTable(With(PlayerReads, PlayerReadsRest)) /\ TypedTable(ServerReads)
  /\ TypedTable(With(ServerWrites, ServerWritesQuests))
  /\ TypedTable(With(ClientReads, ClientReadsQuests))
  /\ TypedTable(With(ClientWritesLogin, ClientWrites))
<1>1. TypedTable(GoWritesAvatars) BY Layouts, JoinLayout DEF TypedTable, GoWritesAvatars
<1>2. TypedTable(GoWritesActs) BY Layouts DEF TypedTable, GoWritesActs
<1>3. TypedTable(GoWritesTalk) BY Layouts DEF TypedTable, GoWritesTalk
<1>4. TypedTable(GoWritesQuests) BY Layouts DEF TypedTable, GoWritesQuests
<1>5. TypedTable(GoWritesRest) BY Layouts DEF TypedTable, GoWritesRest
<1>6. TypedTable(GoReadsAvatars)
  BY Layouts, JoinLayout DEF TypedTable, GoReadsAvatars, Moved
<1>7. TypedTable(GoReadsActs) BY Layouts DEF TypedTable, GoReadsActs, GoReadsAvatars, Moved
<1>8. TypedTable(GoReadsQuests) BY Layouts DEF TypedTable, GoReadsQuests
<1>9. TypedTable(GoReadsRest) BY Layouts DEF TypedTable, GoReadsRest, Building
<1>10. TypedTable(PlayerReads) BY Layouts DEF TypedTable, PlayerReads
<1>11. TypedTable(PlayerReadsRest)
  <2> DEFINE B == <<U64("bldid")>> \o At(<<F64("rotation"), Str("data")>>)
  <2>1. B \in Layout BY Layouts DEF Building
  <2>2. <<>> \in Layout /\ <<Str("user"), Str("pw")>> \in Layout /\ <<U64("target")>> \in Layout
    BY Layouts
  <2>3. PlayerReadsRest = [BldPlace |-> B, Auth |-> <<Str("user"), Str("pw")>>,
                           Interact |-> <<U64("target")>>, TogglePVP |-> <<>>, Ping |-> <<>>]
    BY DEF PlayerReadsRest
  <2> HIDE DEF B
  <2> QED BY <2>1, <2>2, <2>3 DEF TypedTable
<1>12. TypedTable(ServerReads) BY Layouts, JoinLayout DEF TypedTable, ServerReads, Building
<1>13. TypedTable(ServerWrites) BY Layouts DEF TypedTable, ServerWrites
<1>14. TypedTable(ServerWritesQuests) BY Layouts DEF TypedTable, ServerWritesQuests, Building
<1>15. TypedTable(ClientReads) BY Layouts, JoinLayout DEF TypedTable, ClientReads, Moved
<1>16. TypedTable(ClientReadsQuests) BY Layouts DEF TypedTable, ClientReadsQuests, Building
<1>17. TypedTable(ClientWritesLogin) BY Layouts DEF TypedTable, ClientWritesLogin
<1>18. TypedTable(ClientWrites)
  <2> DEFINE B == <<U64("bldid")>> \o At(<<F64("rotation"), Empty("data")>>)
  <2>1. B \in Layout BY Layouts
  <2>2. /\ <<>> \in Layout /\ At(<<F64("rotation")>>) \in Layout /\ <<U8("item")>> \in Layout
        /\ <<U64("target")>> \in Layout /\ <<Str("flag")>> \in Layout
        /\ <<U64("whisper"), Str("msg")>> \in Layout
    BY Layouts
  <2>3. ClientWrites =
          [UpdatePlayer |-> At(<<F64("rotation")>>), Equip |-> <<U8("item")>>,
           Attack |-> <<U64("target")>>, Fish |-> <<>>, TryFlag |-> <<Str("flag")>>,
           Chat |-> <<U64("whisper"), Str("msg")>>, Interact |-> <<U64("target")>>,
           BldPlace |-> B, TogglePVP |-> <<>>, Ping |-> <<>>]
    BY DEF ClientWrites
  <2> HIDE DEF B
  <2> QED BY <2>1, <2>2, <2>3 DEF TypedTable
<1>19. TypedTable(GoWrites) BY <1>1, <1>2, <1>3, <1>4, <1>5, WithTyped DEF GoWrites
<1>20. TypedTable(GoReads) BY <1>6, <1>7, <1>8, <1>9, WithTyped DEF GoReads
<1> QED BY <1>10, <1>11, <1>12, <1>13, <1>14, <1>15, <1>16, <1>17, <1>18, <1>19, <1>20,
           WithTyped

-----------------------------------------------------------------------------
(* Writer and reader have the same fields *)

LEMMA AgreeSelf ==
  ASSUME NEW l \in Layout
  PROVE  AgreeAll(l, l)
<1>1. \A i \in 1..Len(l) : l[i] \in AnyField BY DEF Layout
<1>2. \A i \in 1..Len(l) : l[i].of \in Flat \cup {Building}
  <2> HIDE DEF FieldNames
  <2> QED BY <1>1, FlatOf0 DEF AnyField, Simple, Several, Holding, Flat
<1>3. \A i \in 1..Len(l) : Len(l[i].of) \in Nat BY <1>2, BuildingFlat DEF Flat
<1> QED BY <1>3 DEF AgreeAll, AgreeFlat, Agree

LEMMA AgreeConcat ==
  ASSUME NEW a \in Layout, NEW b \in Layout, NEW c \in Layout, NEW d \in Layout,
         AgreeAll(a, b), AgreeAll(c, d)
  PROVE  AgreeAll(a \o c, b \o d)
<1>1. Len(a) = Len(b) /\ Len(c) = Len(d) BY DEF AgreeAll
<1>2. Len(a \o c) = Len(b \o d) /\ Len(a \o c) = Len(a) + Len(c) BY <1>1 DEF Layout
<1>3. ASSUME NEW i \in 1..Len(a \o c)
      PROVE  /\ Agree((a \o c)[i], (b \o d)[i])
             /\ AgreeFlat((a \o c)[i].of, (b \o d)[i].of)
  <2>1. CASE i <= Len(a)
    <3>1. (a \o c)[i] = a[i] /\ (b \o d)[i] = b[i] BY <2>1, <1>1, <1>2 DEF Layout
    <3> QED BY <3>1, <2>1, <1>2 DEF AgreeAll
  <2>2. CASE i > Len(a)
    <3>1. (a \o c)[i] = c[i - Len(a)] /\ (b \o d)[i] = d[i - Len(a)]
      BY <2>2, <1>1, <1>2 DEF Layout
    <3>2. i - Len(a) \in 1..Len(c) BY <2>2, <1>2 DEF Layout
    <3> QED BY <3>1, <3>2 DEF AgreeAll
  <2>3. i <= Len(a) \/ i > Len(a) BY <1>2 DEF Layout
  <2> QED BY <2>1, <2>2, <2>3, Zenon
<1> QED BY <1>2, <1>3 DEF AgreeAll

LEMMA AgreeIdAt ==
  ASSUME NEW a \in Layout, NEW b \in Layout, AgreeAll(a, b)
  PROVE  AgreeAll(Id(a), Id(b)) /\ AgreeAll(At(a), At(b))
<1> DEFINE id == <<U64("id")>>
           at == <<F64("x"), F64("y"), F64("z")>>
<1>1. id \in Layout /\ at \in Layout
  <2>1. {"id", "x", "y", "z"} \subseteq FieldNames BY DEF FieldNames
  <2> QED BY <2>1, SimpleFields, FlatOf1, FlatOf3, FlatIsLayout
<1>2. Id(a) = id \o a /\ Id(b) = id \o b /\ At(a) = at \o a /\ At(b) = at \o b
  BY DEF Id, At
<1> HIDE DEF id, at
<1>3. AgreeAll(id, id) /\ AgreeAll(at, at) BY <1>1, AgreeSelf
<1> QED BY <1>1, <1>2, <1>3, AgreeConcat

AgreeTables(w, r, cmds) ==
  \A cmd \in cmds : cmd \in DOMAIN w /\ cmd \in DOMAIN r /\ AgreeAll(w[cmd], r[cmd])

(* the fields are mostly the same *)
LEMMA AgreeEqual ==
  ASSUME NEW w, NEW r, NEW cmds, TypedTable(w),
         \A cmd \in cmds : cmd \in DOMAIN w /\ cmd \in DOMAIN r /\ w[cmd] = r[cmd]
  PROVE  AgreeTables(w, r, cmds)
BY AgreeSelf DEF AgreeTables, TypedTable

ClientTable == With(ClientWritesLogin, ClientWrites)
PlayerTable == With(PlayerReads, PlayerReadsRest)
ServerTable == With(ServerWrites, ServerWritesQuests)
ViewTable   == With(ClientReads, ClientReadsQuests)

LEMMA ClientToPlayer == AgreeTables(ClientTable, PlayerTable, DOMAIN ClientTable)
<1>1. ASSUME NEW cmd \in DOMAIN ClientTable \ {"BldPlace"}
      PROVE  cmd \in DOMAIN PlayerTable /\ ClientTable[cmd] = PlayerTable[cmd]
  BY DEF ClientTable, PlayerTable, With, ClientWritesLogin, ClientWrites,
         PlayerReads, PlayerReadsRest
<1>2. AgreeTables(ClientTable, PlayerTable, DOMAIN ClientTable \ {"BldPlace"})
  BY <1>1, TablesTyped, AgreeEqual DEF ClientTable
<1>3. /\ "BldPlace" \in DOMAIN PlayerTable
      /\ ClientTable["BldPlace"] = <<U64("bldid")>> \o At(<<F64("rotation"), Empty("data")>>)
      /\ PlayerTable["BldPlace"] = <<U64("bldid")>> \o At(<<F64("rotation"), Str("data")>>)
  BY DEF ClientTable, PlayerTable, With, ClientWritesLogin, ClientWrites,
         PlayerReads, PlayerReadsRest
<1>4. AgreeAll(<<F64("rotation"), Empty("data")>>, <<F64("rotation"), Str("data")>>)
  BY DEF AgreeAll, AgreeFlat, Agree, F64, Empty, Str, Field
<1>5. {"rotation", "data", "bldid"} \subseteq FieldNames BY DEF FieldNames
<1>6. /\ <<F64("rotation"), Empty("data")>> \in Layout
      /\ <<F64("rotation"), Str("data")>> \in Layout
      /\ <<U64("bldid")>> \in Layout
  BY <1>5, SimpleFields, FlatOf1, FlatOf2, FlatIsLayout
<1>7. AgreeAll(ClientTable["BldPlace"], PlayerTable["BldPlace"])
  <2> DEFINE a == <<F64("rotation"), Empty("data")>>
             b == <<F64("rotation"), Str("data")>>
             c == <<U64("bldid")>>
  <2>1. /\ ClientTable["BldPlace"] = c \o At(a) /\ PlayerTable["BldPlace"] = c \o At(b)
        /\ a \in Layout /\ b \in Layout /\ c \in Layout /\ AgreeAll(a, b)
    BY <1>3, <1>4, <1>6
  <2> HIDE DEF a, b, c
  <2>2. AgreeAll(At(a), At(b)) /\ At(a) \in Layout /\ At(b) \in Layout
    BY <2>1, AgreeIdAt, IdAtLayout
  <2>3. AgreeAll(c, c) BY <2>1, AgreeSelf
  <2> QED BY <2>1, <2>2, <2>3, AgreeConcat
<1> QED BY <1>2, <1>3, <1>7 DEF AgreeTables

ToServer == {"Attack", "Equip", "Fish", "TryFlag", "Chat", "Bld", "Interact", "TogglePVP",
             "Join", "Leave", "UpdatePlayers"}

LEMMA GoToServer == AgreeTables(GoWrites, ServerReads, ToServer)
<1>1. ASSUME NEW cmd \in ToServer \ {"UpdatePlayers"}
      PROVE  cmd \in DOMAIN GoWrites /\ cmd \in DOMAIN ServerReads
               /\ GoWrites[cmd] = ServerReads[cmd]
  BY DEF ToServer, GoWrites, With, GoWritesAvatars, GoWritesActs, GoWritesTalk,
         GoWritesQuests, GoWritesRest, ServerReads, Building
<1>2. AgreeTables(GoWrites, ServerReads, ToServer \ {"UpdatePlayers"})
  BY <1>1, TablesTyped, AgreeEqual
<1>3. /\ "UpdatePlayers" \in DOMAIN GoWrites /\ "UpdatePlayers" \in DOMAIN ServerReads
      /\ GoWrites["UpdatePlayers"] = <<List("players", Moved)>>
      /\ ServerReads["UpdatePlayers"] = <<List("players", ServerMoved)>>
  BY DEF GoWrites, With, GoWritesAvatars, GoWritesActs, GoWritesTalk,
         GoWritesQuests, GoWritesRest, ServerReads
<1>4. AgreeAll(Moved, ServerMoved)
  <2> DEFINE a == <<F64("rotation"), F64("health"), U8("weapon")>>
             b == <<F64(Ignored), F64(Ignored), U8(Ignored)>>
  <2>1. AgreeAll(a, b)
    BY DEF AgreeAll, AgreeFlat, Agree, F64, U8, Field
  <2>2. {"rotation", "health", "weapon", Ignored} \subseteq FieldNames BY DEF FieldNames
  <2>3. a \in Layout /\ b \in Layout BY <2>2, SimpleFields, FlatOf3, FlatIsLayout
  <2>4. Moved = Id(At(a)) /\ ServerMoved = Id(At(b))
    BY DEF Moved, ServerMoved
  <2> HIDE DEF a, b
  <2>5. AgreeAll(At(a), At(b)) /\ At(a) \in Layout /\ At(b) \in Layout
    BY <2>1, <2>3, AgreeIdAt, IdAtLayout
  <2> QED BY <2>4, <2>5, AgreeIdAt
<1>5. AgreeFlat(Moved, ServerMoved) BY <1>4 DEF AgreeAll, AgreeFlat
<1>6. AgreeAll(<<List("players", Moved)>>, <<List("players", ServerMoved)>>)
  BY <1>5 DEF AgreeAll, Agree, List
<1> QED BY <1>2, <1>3, <1>6 DEF AgreeTables

LEMMA ServerToGo == AgreeTables(ServerTable, GoReads, DOMAIN ServerTable)
<1>1. ASSUME NEW cmd \in DOMAIN ServerTable
      PROVE  cmd \in DOMAIN GoReads /\ ServerTable[cmd] = GoReads[cmd]
  BY DEF ServerTable, With, ServerWrites, ServerWritesQuests, GoReads, GoReadsAvatars,
         GoReadsActs, GoReadsQuests, GoReadsRest
<1> QED BY <1>1, TablesTyped, AgreeEqual DEF ServerTable

ToClient == {"Account", "LoggedIn", "Item", "Join", "Leave", "Equip", "Spawn", "Target",
             "UpdatePlayers", "Attack", "Damage", "Flag", "SpawnChest", "Mark", "Conch",
             "Chat", "Die", "Blds"}

LEMMA GoToClient == AgreeTables(GoWrites, ViewTable, ToClient)
<1>1. ASSUME NEW cmd \in ToClient
      PROVE  cmd \in DOMAIN GoWrites /\ cmd \in DOMAIN ViewTable
               /\ GoWrites[cmd] = ViewTable[cmd]
  BY SMTT(60) DEF ToClient, GoWrites, With, GoWritesAvatars, GoWritesActs, GoWritesTalk,
         GoWritesQuests, GoWritesRest, ViewTable, ClientReads, ClientReadsQuests, Building,
         Moved
<1> QED BY <1>1, TablesTyped, AgreeEqual

LEMMA GoToGo == AgreeTables(GoWrites, GoReads, ToClient)
<1>1. ASSUME NEW cmd \in ToClient
      PROVE  cmd \in DOMAIN GoWrites /\ cmd \in DOMAIN GoReads
               /\ GoWrites[cmd] = GoReads[cmd]
  BY DEF ToClient, GoWrites, With, GoWritesAvatars, GoWritesActs, GoWritesTalk,
         GoWritesQuests, GoWritesRest, GoReads, GoReadsAvatars, GoReadsActs, GoReadsQuests,
         GoReadsRest, Building, Moved
<1> QED BY <1>1, TablesTyped, AgreeEqual

-----------------------------------------------------------------------------
(* Cells *)

Commands == DOMAIN ClientTable \cup DOMAIN ServerTable \cup DOMAIN GoWrites
Values   == FieldNames \cup Commands \cup {"byte"}
CellSet  == [w : {1, 8}, v : Values, n : Nat]
Text     == Seq(Nat)
Stream   == Seq(CellSet)

LEMMA TimesZero == ASSUME NEW s PROVE Times(0, s) = <<>>
<1>1. [i \in 1..0 |-> s] = <<>> OBVIOUS
<1> QED BY <1>1, FlattenEmpty DEF Times

LEMMA TimesNext ==
  ASSUME NEW S, NEW s \in Seq(S), NEW n \in Nat
  PROVE  Times(n + 1, s) = Times(n, s) \o s
<1> DEFINE f(k) == [i \in 1..k |-> s]
<1>1. f(n) \in Seq(Seq(S)) OBVIOUS
<1>2. f(n + 1) = Append(f(n), s) OBVIOUS
<1> HIDE DEF f
<1>3. FlattenSeq(f(n + 1)) = FlattenSeq(f(n)) \o s BY <1>1, <1>2, FlattenAppend
<1> QED BY <1>3 DEF Times, f

LEMMA TimesType ==
  ASSUME NEW S, NEW s \in Seq(S), NEW n \in Nat
  PROVE  Times(n, s) \in Seq(S)
<1>1. [i \in 1..n |-> s] \in Seq(Seq(S)) OBVIOUS
<1> QED BY <1>1, FlattenType DEF Times

LEMMA ByteFits ==
  /\ \A x \in Nat : x % Byte \in Nat
  /\ \A x \in Nat : x < Byte => x % Byte = x
BY WireAssumption

LEMMA PlainCells ==
  ASSUME NEW f \in Simple, NEW s \in Text
  PROVE  Plain(f, s) \in Stream /\ Plain(f, s) # <<>>
           /\ Plain(f, s)[1].w = Width(f) /\ Plain(f, s)[1].v = f.f
<1>1. f.f \in Values /\ f.k \in {"u8", "u64", "f64", "empty", "str"}
  <2> HIDE DEF FieldNames
  <2> QED BY DEF Simple, Values
<1>2. "byte" \in Values BY DEF Values
<1> HIDE DEF Values
<1>3. Cell(1, f.f, 0) \in CellSet /\ Cell(8, f.f, 0) \in CellSet BY <1>1 DEF Cell, CellSet
<1>4. CASE f.k \in {"u8", "empty"}
  <2>1. Plain(f, s) = <<Cell(1, f.f, 0)>> BY <1>4 DEF Plain, Wide
  <2> QED BY <2>1, <1>3, <1>4 DEF Stream, Width, Wide, Cell
<1>5. CASE f.k \in {"u64", "f64"}
  <2>1. Plain(f, s) = <<Cell(8, f.f, 0)>> BY <1>5 DEF Plain, Wide
  <2> QED BY <2>1, <1>3, <1>5 DEF Stream, Width, Wide, Cell
<1>6. CASE f.k = "str"
  <2> DEFINE c == Cell(1, f.f, Len(s) % Byte)
             b == [i \in 1..Len(s) |-> Cell(1, "byte", s[i])]
  <2>1. Plain(f, s) = <<c>> \o b BY <1>6 DEF Plain, Wide
  <2>2. Len(s) \in Nat BY DEF Text
  <2>3. c \in CellSet BY <2>2, <1>1, ByteFits DEF Cell, CellSet
  <2>4. b \in Stream BY <1>2, <2>2 DEF Cell, CellSet, Stream, Text
  <2>5. c.w = 1 /\ c.v = f.f BY DEF Cell
  <2> HIDE DEF c, b
  <2>6. Width(f) = 1 BY <1>6 DEF Width, Wide
  <2> QED BY <2>1, <2>3, <2>4, <2>5, <2>6 DEF Stream
<1> QED BY <1>1, <1>4, <1>5, <1>6

Parts(ws, s) == [i \in DOMAIN ws |-> Plain(ws[i], s)]

LEMMA EntryCells ==
  ASSUME NEW f, f.of \in Flat, NEW s \in Text
  PROVE  Entry(f, s) \in Stream
<1>1. Parts(f.of, s) \in Seq(Stream) BY PlainCells DEF Flat, Parts
<1> QED BY <1>1, FlattenType DEF Entry, Parts, Stream

LEMMA BuildingIsFlat ==
  ASSUME NEW f \in AnyField
  PROVE  f.of \in Flat
<1> HIDE DEF FieldNames
<1> QED BY FlatOf0, BuildingFlat DEF AnyField, Simple, Several, Holding, Flat

LEMMA SimpleCellsOf ==
  ASSUME NEW f \in Simple, NEW s, NEW c
  PROVE  CellsOf(f, s, c) = Plain(f, s)
<1> HIDE DEF FieldNames
<1> QED BY DEF CellsOf, Simple

-----------------------------------------------------------------------------
(* Bytes: a wide cell has eight *)

Wides(s) == {i \in DOMAIN s : s[i].w = 8}

LEMMA WidesFinite ==
  ASSUME NEW s \in Stream
  PROVE  IsFiniteSet(Wides(s)) /\ Cardinality(Wides(s)) \in Nat
<1>1. IsFiniteSet(1..Len(s)) BY FS_Interval DEF Stream
<1>2. Wides(s) \in SUBSET (1..Len(s)) BY DEF Wides, Stream
<1> QED BY <1>1, <1>2, FS_Subset, FS_CardinalityType

LEMMA BytesType ==
  ASSUME NEW s \in Stream
  PROVE  Bytes(s) \in Nat /\ (s # <<>> => Bytes(s) > 0)
<1>1. Bytes(s) = Len(s) + 7 * Cardinality(Wides(s)) BY DEF Bytes, Wides
<1>2. Len(s) \in Nat /\ (s # <<>> => Len(s) > 0) BY DEF Stream
<1> QED BY <1>1, <1>2, WidesFinite

LEMMA BytesEmpty == Bytes(<<>>) = 0
<1>1. Wides(<<>>) = {} BY DEF Wides
<1>2. Bytes(<<>>) = 0 + 7 * Cardinality(Wides(<<>>)) BY DEF Bytes, Wides
<1> QED BY <1>1, <1>2, FS_EmptySet

LEMMA BytesConcat ==
  ASSUME NEW a \in Stream, NEW b \in Stream
  PROVE  Bytes(a \o b) = Bytes(a) + Bytes(b)
<1> DEFINE moved == {i + Len(a) : i \in Wides(b)}
           move  == [i \in Wides(b) |-> i + Len(a)]
<1>0. Len(a) \in Nat /\ Len(b) \in Nat /\ a \o b \in Stream /\ Len(a \o b) = Len(a) + Len(b)
  BY DEF Stream
<1>1. Wides(b) \subseteq 1..Len(b) /\ Wides(a) \subseteq 1..Len(a) BY DEF Wides, Stream
<1>2. Cardinality(moved) = Cardinality(Wides(b)) /\ IsFiniteSet(moved)
  <2>1. move \in Bijection(Wides(b), moved)
    BY <1>0, <1>1 DEF Bijection, Injection, Surjection, IsInjective
  <2>2. ExistsBijection(Wides(b), moved) BY <2>1 DEF ExistsBijection
  <2> HIDE DEF moved
  <2> QED BY <2>2, WidesFinite, FS_Bijection
<1>3. Wides(a \o b) = Wides(a) \cup moved
  <2>1. ASSUME NEW i \in Wides(a \o b) PROVE i \in Wides(a) \cup moved
    <3>1. i \in 1..Len(a) + Len(b) /\ (a \o b)[i].w = 8 BY <1>0 DEF Wides, Stream
    <3>2. CASE i <= Len(a)
      <4>1. (a \o b)[i] = a[i] BY <3>1, <3>2 DEF Stream
      <4> QED BY <4>1, <3>1, <3>2, <1>0 DEF Wides, Stream
    <3>3. CASE i > Len(a)
      <4>1. (a \o b)[i] = b[i - Len(a)] /\ i - Len(a) \in 1..Len(b)
        BY <3>1, <3>3, <1>0 DEF Stream
      <4>2. i - Len(a) \in Wides(b) BY <4>1, <3>1 DEF Wides, Stream
      <4> QED BY <4>2, <3>1, <1>0
    <3> QED BY <3>1, <3>2, <3>3, <1>0
  <2>2. ASSUME NEW i \in Wides(a) PROVE i \in Wides(a \o b)
    <3>1. (a \o b)[i] = a[i] BY <1>1 DEF Stream
    <3> QED BY <3>1, <1>0, <1>1 DEF Wides, Stream
  <2>3. ASSUME NEW j \in Wides(b) PROVE j + Len(a) \in Wides(a \o b)
    <3>1. (a \o b)[j + Len(a)] = b[j] BY <1>0, <1>1 DEF Stream
    <3> QED BY <3>1, <1>0, <1>1 DEF Wides, Stream
  <2> QED BY <2>1, <2>2, <2>3
<1>4. Wides(a) \cap moved = {} BY <1>0, <1>1
<1> HIDE DEF moved
<1>5. Cardinality(Wides(a \o b)) = Cardinality(Wides(a)) + Cardinality(Wides(b))
  <2>1. Cardinality(Wides(a) \cup moved)
          = Cardinality(Wides(a)) + Cardinality(moved) - Cardinality(Wides(a) \cap moved)
    BY <1>2, WidesFinite, FS_Union
  <2>2. Cardinality(Wides(a) \cap moved) = 0 BY <1>4, FS_EmptySet
  <2>3. Cardinality(Wides(a)) \in Nat /\ Cardinality(Wides(b)) \in Nat BY WidesFinite
  <2> QED BY <2>1, <2>2, <2>3, <1>2, <1>3
<1>6. /\ Bytes(a) = Len(a) + 7 * Cardinality(Wides(a))
      /\ Bytes(b) = Len(b) + 7 * Cardinality(Wides(b))
      /\ Bytes(a \o b) = Len(a \o b) + 7 * Cardinality(Wides(a \o b))
  BY DEF Bytes, Wides
<1>7. Cardinality(Wides(a)) \in Nat /\ Cardinality(Wides(b)) \in Nat BY WidesFinite
<1> QED BY <1>0, <1>5, <1>6, <1>7

-----------------------------------------------------------------------------
(* The cells of a field, and of a message *)

LEMMA ListCellsType ==
  ASSUME NEW f \in Several, NEW s \in Text, NEW c \in Nat
  PROVE  /\ ListCells(f, s, c) \in Stream /\ ListCells(f, s, c) # <<>>
         /\ ListCells(f, s, c)[1] = Cell(1, f.f, c % Byte)
<1>1. f \in AnyField /\ f.f \in Values
  <2> HIDE DEF FieldNames
  <2> QED BY DEF AnyField, Several, Values
<1>2. Times(c, Entry(f, s)) \in Stream
  BY <1>1, BuildingIsFlat, EntryCells, TimesType DEF Stream
<1>3. Cell(1, f.f, c % Byte) \in CellSet BY <1>1, ByteFits DEF Cell, CellSet
<1> QED BY <1>2, <1>3 DEF ListCells, Stream

LEMMA DataCellsType ==
  ASSUME NEW f \in Holding, NEW s \in Text, NEW c \in Nat
  PROVE  /\ DataCells(f, s, c) \in Stream /\ DataCells(f, s, c) # <<>>
         /\ DataCells(f, s, c)[1] = Cell(8, f.f, Bytes(Times(c, Entry(f, s))))
<1>1. f \in AnyField /\ f.f \in Values
  <2> HIDE DEF FieldNames
  <2> QED BY DEF AnyField, Holding, Values
<1>2. Times(c, Entry(f, s)) \in Stream
  BY <1>1, BuildingIsFlat, EntryCells, TimesType DEF Stream
<1>3. Cell(8, f.f, Bytes(Times(c, Entry(f, s)))) \in CellSet
  BY <1>1, <1>2, BytesType DEF Cell, CellSet
<1> QED BY <1>2, <1>3 DEF DataCells, Stream

(* Every field begins with a cell of its width and its name. *)
LEMMA CellsOfType ==
  ASSUME NEW f \in AnyField, NEW s \in Text, NEW c \in Nat
  PROVE  /\ CellsOf(f, s, c) \in Stream /\ CellsOf(f, s, c) # <<>>
         /\ CellsOf(f, s, c)[1].w = Width(f) /\ CellsOf(f, s, c)[1].v = f.f
<1>1. CASE f \in Simple BY <1>1, SimpleCellsOf, PlainCells
<1>2. CASE f \in Several
  <2>1. f.k = "list" BY <1>2 DEF Several
  <2>2. CellsOf(f, s, c) = ListCells(f, s, c) BY <2>1 DEF CellsOf
  <2>3. Width(f) = 1 BY <2>1 DEF Width, Wide
  <2>4. Cell(1, f.f, c % Byte).w = 1 /\ Cell(1, f.f, c % Byte).v = f.f BY DEF Cell
  <2> QED BY <1>2, <2>2, <2>3, <2>4, ListCellsType
<1>3. CASE f \in Holding
  <2>1. f.k = "data" BY <1>3 DEF Holding
  <2>2. CellsOf(f, s, c) = DataCells(f, s, c) BY <2>1 DEF CellsOf
  <2> DEFINE n == Bytes(Times(c, Entry(f, s)))
  <2>3. Width(f) = 8 BY <2>1 DEF Width
  <2>4. Cell(8, f.f, n).w = 8 /\ Cell(8, f.f, n).v = f.f BY DEF Cell
  <2> QED BY <1>3, <2>2, <2>3, <2>4, DataCellsType
<1> QED BY <1>1, <1>2, <1>3 DEF AnyField

FieldsOf(ws, s, c) == FlattenSeq([i \in DOMAIN ws |-> CellsOf(ws[i], s, c)])

LEMMA FieldCells ==
  ASSUME NEW ws \in Layout, NEW s \in Text, NEW c \in Nat
  PROVE  [i \in DOMAIN ws |-> CellsOf(ws[i], s, c)] \in Seq(Stream)
BY CellsOfType DEF Layout

LEMMA FieldsType ==
  ASSUME NEW ws \in Layout, NEW s \in Text, NEW c \in Nat
  PROVE  FieldsOf(ws, s, c) \in Stream
BY FieldCells, FlattenType DEF FieldsOf, Stream

LEMMA FieldsEmpty == ASSUME NEW s, NEW c PROVE FieldsOf(<<>>, s, c) = <<>>
<1>1. [i \in DOMAIN <<>> |-> CellsOf(<<>>[i], s, c)] = <<>> OBVIOUS
<1> QED BY <1>1, FlattenEmpty DEF FieldsOf

LEMMA FieldsConcat ==
  ASSUME NEW a \in Layout, NEW b \in Layout, NEW s \in Text, NEW c \in Nat
  PROVE  FieldsOf(a \o b, s, c) = FieldsOf(a, s, c) \o FieldsOf(b, s, c)
<1> DEFINE M(ws) == [i \in DOMAIN ws |-> CellsOf(ws[i], s, c)]
<1>1. M(a) \in Seq(Stream) /\ M(b) \in Seq(Stream)
  <2>1. M(a) \in Seq(Stream) BY FieldCells
  <2>2. M(b) \in Seq(Stream) BY FieldCells
  <2> QED BY <2>1, <2>2
<1>2. M(a \o b) = M(a) \o M(b)
  <2>1. Len(M(a)) = Len(a) /\ Len(M(b)) = Len(b) BY DEF Layout
  <2>2. a \o b \in Layout /\ Len(a \o b) = Len(a) + Len(b) BY DEF Layout
  <2>3. M(a \o b) \in Seq(Stream) /\ Len(M(a \o b)) = Len(a) + Len(b)
    <3>1. M(a \o b) \in Seq(Stream) BY <2>2, FieldCells
    <3> QED BY <3>1, <2>2 DEF Layout
  <2>4. ASSUME NEW i \in 1..Len(a) + Len(b) PROVE M(a \o b)[i] = (M(a) \o M(b))[i]
    <3>0. Len(a) \in Nat /\ Len(b) \in Nat /\ i \in Int BY DEF Layout
    <3>1. M(a \o b)[i] = CellsOf((a \o b)[i], s, c) BY <2>2 DEF Layout
    <3>2. CASE i <= Len(a)
      <4>1. (a \o b)[i] = a[i] BY <3>2 DEF Layout
      <4>2. M(a)[i] = CellsOf(a[i], s, c) BY <3>2, <3>0 DEF Layout
      <4>3. (M(a) \o M(b))[i] = M(a)[i]
        <5> HIDE DEF M
        <5> QED BY <1>1, <2>1, <3>2, <3>0
      <4> QED BY <4>1, <4>2, <4>3, <3>1
    <3>3. CASE i > Len(a)
      <4>1. (a \o b)[i] = b[i - Len(a)] BY <3>3, <3>0 DEF Layout
      <4>2. M(b)[i - Len(a)] = CellsOf(b[i - Len(a)], s, c) BY <3>3, <3>0 DEF Layout
      <4>3. (M(a) \o M(b))[i] = M(b)[i - Len(a)]
        <5> HIDE DEF M
        <5> QED BY <1>1, <2>1, <3>3, <3>0
      <4> QED BY <4>1, <4>2, <4>3, <3>1
    <3>4. i <= Len(a) \/ i > Len(a) BY <3>0
    <3> HIDE DEF M
    <3> QED BY <3>2, <3>3, <3>4, Zenon
  <2> HIDE DEF M
  <2>5. M(a) \o M(b) \in Seq(Stream) /\ Len(M(a) \o M(b)) = Len(a) + Len(b)
    BY <1>1, <2>1
  <2> QED BY <2>3, <2>4, <2>5, SeqEqual
<1> HIDE DEF M
<1>3. FlattenSeq(M(a \o b)) = FlattenSeq(M(a)) \o FlattenSeq(M(b))
  BY <1>1, <1>2, FlattenConcat DEF Stream
<1> QED BY <1>3 DEF M, FieldsOf

LEMMA FieldsSingle ==
  ASSUME NEW f \in AnyField, NEW s \in Text, NEW c \in Nat
  PROVE  FieldsOf(<<f>>, s, c) = CellsOf(f, s, c)
<1>1. [i \in DOMAIN <<f>> |-> CellsOf(<<f>>[i], s, c)] = <<CellsOf(f, s, c)>> OBVIOUS
<1> QED BY <1>1, CellsOfType, FlattenSingle DEF FieldsOf, Stream

(* The fields that are left: the first of them, and the others. *)
LEMMA FieldsHead ==
  ASSUME NEW ws \in Layout, ws # <<>>, NEW s \in Text, NEW c \in Nat
  PROVE  FieldsOf(ws, s, c) = CellsOf(ws[1], s, c) \o FieldsOf(Tail(ws), s, c)
<1>1. ws = <<ws[1]>> \o Tail(ws) /\ Tail(ws) \in Layout /\ ws[1] \in AnyField BY DEF Layout
<1>2. <<ws[1]>> \in Layout BY <1>1 DEF Layout
<1> DEFINE a == <<ws[1]>>
           b == Tail(ws)
<1>3. a \in Layout /\ b \in Layout /\ ws = a \o b BY <1>1, <1>2
<1>4. FieldsOf(a, s, c) = CellsOf(ws[1], s, c) BY <1>1, FieldsSingle
<1>5. FieldsOf(a \o b, s, c) = FieldsOf(a, s, c) \o FieldsOf(b, s, c)
  <2> HIDE DEF a, b
  <2> QED BY <1>3, FieldsConcat
<1> QED BY <1>3, <1>4, <1>5

LEMMA FieldsOfFlat ==
  ASSUME NEW f, f.of \in Flat, NEW s \in Text, NEW c \in Nat
  PROVE  FieldsOf(f.of, s, c) = Entry(f, s)
<1>1. [i \in DOMAIN f.of |-> CellsOf(f.of[i], s, c)] = [i \in DOMAIN f.of |-> Plain(f.of[i], s)]
  BY SimpleCellsOf DEF Flat
<1> QED BY <1>1 DEF FieldsOf, Entry

LEMMA FieldsTimes ==
  ASSUME NEW f, f.of \in Flat, NEW s \in Text, NEW c \in Nat, NEW n \in Nat
  PROVE  FieldsOf(Times(n, f.of), s, c) = Times(n, Entry(f, s))
<1> DEFINE T == {k \in Nat : FieldsOf(Times(k, f.of), s, c) = Times(k, Entry(f, s))}
<1>1. 0 \in T BY TimesZero, FieldsEmpty
<1>2. ASSUME NEW k \in Nat, k \in T PROVE k + 1 \in T
  <2>1. Times(k + 1, f.of) = Times(k, f.of) \o f.of BY TimesNext DEF Flat
  <2>2. Times(k, f.of) \in Flat BY TimesType DEF Flat
  <2>3. Times(k, f.of) \in Layout /\ f.of \in Layout BY <2>2, FlatIsLayout
  <2>4. FieldsOf(Times(k + 1, f.of), s, c) = FieldsOf(Times(k, f.of), s, c) \o FieldsOf(f.of, s, c)
    <3> DEFINE a == Times(k, f.of)
               b == f.of
    <3>1. a \in Layout /\ b \in Layout BY <2>3
    <3> HIDE DEF a, b
    <3>2. FieldsOf(a \o b, s, c) = FieldsOf(a, s, c) \o FieldsOf(b, s, c)
      BY <3>1, FieldsConcat
    <3> QED BY <2>1, <3>2 DEF a, b
  <2>5. Entry(f, s) \in Stream BY EntryCells
  <2>6. Times(k + 1, Entry(f, s)) = Times(k, Entry(f, s)) \o Entry(f, s)
    BY <2>5, TimesNext DEF Stream
  <2>7. FieldsOf(f.of, s, c) = Entry(f, s) BY FieldsOfFlat
  <2>8. FieldsOf(Times(k, f.of), s, c) = Times(k, Entry(f, s)) BY <1>2
  <2>9. FieldsOf(Times(k + 1, f.of), s, c) = Times(k + 1, Entry(f, s))
    BY <2>4, <2>6, <2>7, <2>8, Zenon
  <2> QED BY <2>9
<1>3. Nat \subseteq T
  <2> HIDE DEF T
  <2> QED BY <1>1, <1>2, Induction
<1> QED BY <1>3

-----------------------------------------------------------------------------
(* Messages *)

MessageSet == [cmd : Commands, s : Text, c : Nat]
Queues(t)  == Seq({m \in MessageSet : m.cmd \in DOMAIN t})

LEMMA EncodedType ==
  ASSUME NEW m \in MessageSet, NEW l \in Layout
  PROVE  /\ Encoded(m, l) \in Stream
         /\ Encoded(m, l) = <<Cell(1, m.cmd, 0)>> \o FieldsOf(l, m.s, m.c)
<1>1. m.cmd \in Values /\ m.s \in Text /\ m.c \in Nat
  <2> HIDE DEF Commands
  <2> QED BY DEF MessageSet, Values
<1>2. Cell(1, m.cmd, 0) \in CellSet BY <1>1 DEF Cell, CellSet
<1>3. FieldsOf(l, m.s, m.c) \in Stream BY <1>1, FieldsType
<1>4. Encoded(m, l) = <<Cell(1, m.cmd, 0)>> \o FieldsOf(l, m.s, m.c)
  BY DEF Encoded, FieldsOf
<1> QED BY <1>2, <1>3, <1>4 DEF Stream

(* What the messages of a queue are on the wire. *)
AllEncoded(t, q) == [i \in DOMAIN q |-> Encoded(q[i], t[q[i].cmd])]
Sent(t, q) == FlattenSeq(AllEncoded(t, q))

LEMMA SentType ==
  ASSUME NEW t, TypedTable(t), NEW q \in Queues(t)
  PROVE  AllEncoded(t, q) \in Seq(Stream) /\ Sent(t, q) \in Stream
<1>1. AllEncoded(t, q) \in Seq(Stream)
  <2>1. \A i \in 1..Len(q) : q[i] \in MessageSet /\ q[i].cmd \in DOMAIN t BY DEF Queues
  <2>2. \A i \in 1..Len(q) : Encoded(q[i], t[q[i].cmd]) \in Stream
    BY <2>1, EncodedType DEF TypedTable
  <2>3. Len(q) \in Nat /\ DOMAIN q = 1..Len(q) BY DEF Queues
  <2> QED BY <2>2, <2>3 DEF AllEncoded
<1> QED BY <1>1, FlattenType DEF Sent, Stream

LEMMA SentEmpty == ASSUME NEW t PROVE Sent(t, <<>>) = <<>>
<1>1. AllEncoded(t, <<>>) = <<>> BY DEF AllEncoded
<1> QED BY <1>1, FlattenEmpty DEF Sent

LEMMA SentAppend ==
  ASSUME NEW t, TypedTable(t), NEW q \in Queues(t), NEW m \in MessageSet, m.cmd \in DOMAIN t
  PROVE  /\ Append(q, m) \in Queues(t)
         /\ Sent(t, Append(q, m)) = Sent(t, q) \o Encoded(m, t[m.cmd])
<1>1. Append(q, m) \in Queues(t) BY DEF Queues
<1>2. AllEncoded(t, Append(q, m)) = Append(AllEncoded(t, q), Encoded(m, t[m.cmd]))
  BY DEF Queues, AllEncoded
<1>3. Encoded(m, t[m.cmd]) \in Stream BY EncodedType DEF TypedTable
<1>4. AllEncoded(t, q) \in Seq(Stream) BY SentType
<1> QED BY <1>1, <1>2, <1>3, <1>4, FlattenAppend DEF Sent, Stream

LEMMA SentHead ==
  ASSUME NEW t, TypedTable(t), NEW q \in Queues(t), q # <<>>
  PROVE  /\ q[1] \in MessageSet /\ q[1].cmd \in DOMAIN t
         /\ Later(q) \in Queues(t)
         /\ Sent(t, q) = Encoded(q[1], t[q[1].cmd]) \o Sent(t, Later(q))
<1>1. /\ q[1] \in MessageSet /\ q[1].cmd \in DOMAIN t /\ Later(q) \in Queues(t)
      /\ Later(q) = Tail(q)
  BY DEF Queues, Later
<1> DEFINE a == <<Encoded(q[1], t[q[1].cmd])>>
           b == AllEncoded(t, Later(q))
<1>2. AllEncoded(t, q) = a \o b
  <2>1. AllEncoded(t, q) = <<AllEncoded(t, q)[1]>> \o Tail(AllEncoded(t, q))
    <3>1. AllEncoded(t, q) \in Seq(Stream) /\ AllEncoded(t, q) # <<>>
      BY SentType DEF AllEncoded, Queues
    <3> QED BY <3>1
  <2>2. AllEncoded(t, q)[1] = Encoded(q[1], t[q[1].cmd]) BY DEF AllEncoded, Queues
  <2>3. Tail(AllEncoded(t, q)) = b BY <1>1 DEF AllEncoded, Queues
  <2> QED BY <2>1, <2>2, <2>3
<1>3. Encoded(q[1], t[q[1].cmd]) \in Stream BY <1>1, EncodedType DEF TypedTable
<1>4. a \in Seq(Stream) /\ b \in Seq(Stream) BY <1>1, <1>3, SentType
<1>5. FlattenSeq(a) = Encoded(q[1], t[q[1].cmd]) BY <1>3, FlattenSingle DEF Stream
<1>6. FlattenSeq(b) = Sent(t, Later(q)) BY DEF Sent
<1>7. FlattenSeq(a \o b) = FlattenSeq(a) \o FlattenSeq(b)
  <2> HIDE DEF a, b
  <2> QED BY <1>4, FlattenConcat DEF Stream
<1> QED BY <1>1, <1>2, <1>5, <1>6, <1>7 DEF Sent

(* The lengths of a field fit their byte. *)
Fit(w, m) ==
  /\ w.k = "str" => Len(m.s) < Byte
  /\ w.k = "list" => m.c < Byte
  /\ \A i \in 1..Len(w.of) : w.of[i].k = "str" => Len(m.s) < Byte

AllFit(ws, m) == \A i \in 1..Len(ws) : Fit(ws[i], m)

LEMMA FitsAll ==
  ASSUME NEW m, NEW l \in Layout, Fits(m, l)
  PROVE  AllFit(l, m)
<1>1. ASSUME NEW i \in 1..Len(l) PROVE Fit(l[i], m)
  <2>1. l[i] \in Range(l) BY DEF Range, Layout
  <2>2. l[i].k \in Kinds(l) BY <2>1 DEF Kinds
  <2>3. l[i].of \in Flat BY BuildingIsFlat DEF Layout
  <2>4. \A j \in 1..Len(l[i].of) : l[i].of[j] \in Range(l[i].of)
    BY <2>3 DEF Range, Flat
  <2>5. \A j \in 1..Len(l[i].of) : l[i].of[j].k \in Kinds(l)
    BY <2>1, <2>4 DEF Kinds
  <2> QED BY <2>2, <2>5 DEF Fits, Fit
<1> QED BY <1>1 DEF AllFit

LEMMA AllFitConcat ==
  ASSUME NEW m, NEW a \in Layout, NEW b \in Layout, AllFit(a, m), AllFit(b, m)
  PROVE  AllFit(a \o b, m)
<1> SUFFICES ASSUME NEW i \in 1..Len(a \o b) PROVE Fit((a \o b)[i], m) BY DEF AllFit
<1>0. Len(a) \in Nat /\ Len(b) \in Nat /\ Len(a \o b) = Len(a) + Len(b) BY DEF Layout
<1>1. CASE i <= Len(a)
  <2>1. (a \o b)[i] = a[i] BY <1>1, <1>0 DEF Layout
  <2> QED BY <2>1, <1>1, <1>0 DEF AllFit
<1>2. CASE i > Len(a)
  <2>1. (a \o b)[i] = b[i - Len(a)] /\ i - Len(a) \in 1..Len(b) BY <1>2, <1>0 DEF Layout
  <2> QED BY <2>1 DEF AllFit
<1>3. i <= Len(a) \/ i > Len(a) BY <1>0
<1> QED BY <1>1, <1>2, <1>3, Zenon

-----------------------------------------------------------------------------
(* A reader in the middle of a message *)

GotSet == [as : FieldNames, is : Values, s : Text, n : Nat, cut : BOOLEAN]
TxtSet == [len : Nat, cells : Stream]
RdSet  == [cmd : Commands \cup {"", "pirates!"}, todo : Layout, got : Seq(GotSet),
           txt : TxtSet, reading : BOOLEAN]

(* the bytes behind the length of a string or of data *)
Body(w, m) ==
  IF w.k = "str" THEN [i \in 1..Len(m.s) |-> Cell(1, "byte", m.s[i])]
  ELSE IF w.k = "data" THEN Times(m.c, Entry(w, m.s)) ELSE <<>>

(* A reader r with the cells w before it, which begin with what is left of the
   message m and go on with rest: the fields that it still reads agree with
   fields ws that were written, and the cells are those of ws; when it reads a
   string or data, those that it has not read of it, and those of the others. *)
Held(r, w, m, rest) ==
  \E ws \in Layout :
    /\ AgreeAll(ws, r.todo) /\ AllFit(ws, m)
    /\ ~r.reading => w = FieldsOf(ws, m.s, m.c) \o rest
    /\ r.reading =>
         /\ ws # <<>> /\ ws[1].k \in {"empty", "str", "data"}
         /\ r.txt.len = Bytes(Body(ws[1], m))
         /\ \E y \in Stream :
              /\ Body(ws[1], m) = r.txt.cells \o y
              /\ r.txt.cells # <<>> => y # <<>>
              /\ w = y \o (FieldsOf(Tail(ws), m.s, m.c) \o rest)

LEMMA AgreeTail ==
  ASSUME NEW ws \in Layout, NEW rs \in Layout, AgreeAll(ws, rs), rs # <<>>
  PROVE  /\ ws # <<>> /\ ws[1] \in AnyField /\ rs[1] \in AnyField /\ Head(rs) = rs[1]
         /\ Agree(ws[1], rs[1]) /\ AgreeFlat(ws[1].of, rs[1].of)
         /\ Tail(ws) \in Layout /\ Tail(rs) \in Layout /\ AgreeAll(Tail(ws), Tail(rs))
<1>1. Len(ws) = Len(rs) /\ Len(rs) \in Nat /\ Len(rs) > 0 BY DEF AgreeAll, Layout
<1>2. ws # <<>> /\ ws[1] \in AnyField /\ rs[1] \in AnyField /\ Head(rs) = rs[1]
  BY <1>1 DEF Layout
<1>3. Agree(ws[1], rs[1]) /\ AgreeFlat(ws[1].of, rs[1].of) BY <1>1 DEF AgreeAll
<1>4. /\ Tail(ws) \in Layout /\ Tail(rs) \in Layout
      /\ Len(Tail(ws)) = Len(ws) - 1 /\ Len(Tail(rs)) = Len(rs) - 1
      /\ \A i \in 1..Len(ws) - 1 : Tail(ws)[i] = ws[i + 1] /\ Tail(rs)[i] = rs[i + 1]
  BY <1>1, <1>2 DEF Layout
<1>5. AgreeAll(Tail(ws), Tail(rs)) BY <1>1, <1>4 DEF AgreeAll
<1> QED BY <1>2, <1>3, <1>4, <1>5

LEMMA FitTail ==
  ASSUME NEW m, NEW ws \in Layout, ws # <<>>, AllFit(ws, m)
  PROVE  Fit(ws[1], m) /\ AllFit(Tail(ws), m)
<1>1. /\ Len(Tail(ws)) = Len(ws) - 1 /\ Len(ws) \in Nat /\ Len(ws) > 0
      /\ \A i \in 1..Len(ws) - 1 : Tail(ws)[i] = ws[i + 1]
  BY DEF Layout
<1> QED BY <1>1 DEF AllFit

LEMMA AgreeWidth ==
  ASSUME NEW w \in AnyField, NEW r \in AnyField, Agree(w, r)
  PROVE  Width(w) = Width(r)
BY DEF Agree, Width, Wide

LEMMA AssocOne ==
  ASSUME NEW x \in CellSet, NEW b \in Stream, NEW c \in Stream
  PROVE  /\ (<<x>> \o b) \o c = <<x>> \o (b \o c)
         /\ <<x>> \o (b \o c) # <<>>
         /\ Head(<<x>> \o (b \o c)) = x
         /\ SubSeq(<<x>> \o (b \o c), 2, Len(<<x>> \o (b \o c))) = b \o c
<1> DEFINE d == b \o c
<1>1. d \in Stream BY DEF Stream
<1>2. (<<x>> \o b) \o c = <<x>> \o d BY DEF Stream
<1> HIDE DEF d
<1>3. /\ <<x>> \o d # <<>> /\ Head(<<x>> \o d) = x
      /\ SubSeq(<<x>> \o d, 2, Len(<<x>> \o d)) = d
  BY <1>1 DEF Stream
<1> QED BY <1>2, <1>3 DEF d

(* The cells before a reader that is to read a field begin with one of the right
   width. *)
LEMMA HeldWidth ==
  ASSUME NEW r \in RdSet, NEW w, NEW m \in MessageSet, NEW rest \in Stream,
         Held(r, w, m, rest), ~r.reading, r.todo # <<>>
  PROVE  /\ w # <<>> /\ w[1] = Head(w) /\ Head(w).w = Width(Head(r.todo))
         /\ Head(r.todo).f \in {Head(w).v, Ignored}
<1>1. PICK ws \in Layout : AgreeAll(ws, r.todo) /\ AllFit(ws, m)
                             /\ w = FieldsOf(ws, m.s, m.c) \o rest
  BY DEF Held
<1>2. r.todo \in Layout /\ m.s \in Text /\ m.c \in Nat BY DEF RdSet, MessageSet
<1>3. /\ ws # <<>> /\ ws[1] \in AnyField /\ Head(r.todo) \in AnyField
      /\ Agree(ws[1], Head(r.todo)) /\ Tail(ws) \in Layout
  BY <1>1, <1>2, AgreeTail
<1> DEFINE a == CellsOf(ws[1], m.s, m.c)
           b == FieldsOf(Tail(ws), m.s, m.c)
<1>4. FieldsOf(ws, m.s, m.c) = a \o b BY <1>2, <1>3, FieldsHead
<1>5. a \in Stream /\ a # <<>> /\ a[1].w = Width(ws[1]) /\ a[1].v = ws[1].f
  BY <1>2, <1>3, CellsOfType
<1>6. b \in Stream BY <1>2, <1>3, FieldsType
<1> HIDE DEF a, b
<1>7. w # <<>> /\ w[1] = a[1] /\ Head(w) = a[1]
  <2>1. a \o b \in Stream /\ a \o b # <<>> /\ (a \o b)[1] = a[1] BY <1>5, <1>6 DEF Stream
  <2> DEFINE d == a \o b
  <2>2. w = d \o rest BY <1>1, <1>4
  <2> HIDE DEF d
  <2>3. d \in Stream /\ d # <<>> /\ d[1] = a[1] BY <2>1 DEF d
  <2> QED BY <2>2, <2>3 DEF Stream
<1>8. Width(ws[1]) = Width(Head(r.todo)) BY <1>3, AgreeWidth
<1> QED BY <1>3, <1>5, <1>7, <1>8 DEF Agree

LEMMA SimpleOf ==
  ASSUME NEW f \in Simple
  PROVE  f.of = <<>> /\ f.k \notin {"list", "data"}
<1> HIDE DEF FieldNames
<1> QED BY DEF Simple

(* A value of fixed width. *)
LEMMA HeldFixed ==
  ASSUME NEW r \in RdSet, NEW w, NEW m \in MessageSet, NEW rest \in Stream,
         Held(r, w, m, rest), ~r.reading, r.todo # <<>>,
         Head(r.todo).k \in {"u8"} \cup Wide,
         NEW t, t.todo = Tail(r.todo), t.reading = FALSE
  PROVE  Held(t, SubSeq(w, 2, Len(w)), m, rest)
<1>1. PICK ws \in Layout : AgreeAll(ws, r.todo) /\ AllFit(ws, m)
                             /\ w = FieldsOf(ws, m.s, m.c) \o rest
  BY DEF Held
<1>2. r.todo \in Layout /\ m.s \in Text /\ m.c \in Nat BY DEF RdSet, MessageSet
<1>3. /\ ws # <<>> /\ ws[1] \in AnyField /\ Agree(ws[1], Head(r.todo))
      /\ Tail(ws) \in Layout /\ AgreeAll(Tail(ws), Tail(r.todo))
  BY <1>1, <1>2, AgreeTail
<1>4. ws[1].k \in {"u8", "u64", "f64"} BY <1>3 DEF Agree, Wide
<1>5. ws[1] \in Simple BY <1>3, <1>4 DEF AnyField, Several, Holding
<1> DEFINE b == FieldsOf(Tail(ws), m.s, m.c)
<1>6. b \in Stream BY <1>2, <1>3, FieldsType
<1>7. PICK x : Plain(ws[1], m.s) = <<x>>
  <2>1. CASE ws[1].k = "u8" BY <2>1 DEF Plain
  <2>2. CASE ws[1].k \in {"u64", "f64"} BY <2>2 DEF Plain, Wide
  <2> QED BY <2>1, <2>2, <1>4
<1>8. x \in CellSet
  <2>1. <<x>> \in Stream BY <1>2, <1>5, <1>7, PlainCells
  <2> QED BY <2>1 DEF Stream
<1>9. FieldsOf(ws, m.s, m.c) = <<x>> \o b
  <2>1. CellsOf(ws[1], m.s, m.c) = <<x>> BY <1>5, <1>7, SimpleCellsOf
  <2>2. FieldsOf(ws, m.s, m.c) = CellsOf(ws[1], m.s, m.c) \o b BY <1>2, <1>3, FieldsHead
  <2> QED BY <2>1, <2>2, Zenon
<1> HIDE DEF b
<1>10. w = <<x>> \o (b \o rest) /\ SubSeq(w, 2, Len(w)) = b \o rest
  <2>1. w = (<<x>> \o b) \o rest BY <1>1, <1>9, Zenon
  <2>2. w = <<x>> \o (b \o rest) BY <2>1, <1>6, <1>8, AssocOne, Zenon
  <2>3. SubSeq(<<x>> \o (b \o rest), 2, Len(<<x>> \o (b \o rest))) = b \o rest
    BY <1>6, <1>8, AssocOne
  <2> QED BY <2>2, <2>3, Zenon
<1>11. AllFit(Tail(ws), m) BY <1>1, <1>3, FitTail
<1> QED BY <1>3, <1>10, <1>11 DEF Held, b

LEMMA AgreeTimes ==
  ASSUME NEW a \in Flat, NEW b \in Flat, AgreeFlat(a, b), NEW n \in Nat
  PROVE  /\ AgreeAll(Times(n, a), Times(n, b))
         /\ Times(n, a) \in Layout /\ Times(n, b) \in Layout
<1> DEFINE T == {k \in Nat : AgreeAll(Times(k, a), Times(k, b))}
<1>0. a \in Layout /\ b \in Layout BY FlatIsLayout
<1>1. \A k \in Nat : Times(k, a) \in Layout /\ Times(k, b) \in Layout
  BY <1>0, TimesType DEF Layout
<1>2. AgreeAll(a, b)
  <2>1. \A i \in 1..Len(a) : a[i].of = <<>> /\ b[i].of = <<>>
    <3>1. \A i \in 1..Len(a) : a[i] \in Simple /\ b[i] \in Simple BY DEF Flat, AgreeFlat
    <3> QED BY <3>1, SimpleOf
  <2>2. AgreeFlat(<<>>, <<>>) BY DEF AgreeFlat
  <2> QED BY <2>1, <2>2 DEF AgreeAll, AgreeFlat
<1>3. 0 \in T
  <2>1. AgreeAll(<<>>, <<>>) BY DEF AgreeAll
  <2> QED BY <2>1, TimesZero
<1>4. ASSUME NEW k \in Nat, k \in T PROVE k + 1 \in T
  <2>1. Times(k + 1, a) = Times(k, a) \o a /\ Times(k + 1, b) = Times(k, b) \o b
    BY TimesNext DEF Flat
  <2>2. AgreeAll(Times(k, a) \o a, Times(k, b) \o b)
    <3> DEFINE u == Times(k, a)
               v == Times(k, b)
    <3>1. u \in Layout /\ v \in Layout /\ AgreeAll(u, v) BY <1>1, <1>4
    <3> HIDE DEF u, v
    <3> QED BY <3>1, <1>0, <1>2, AgreeConcat DEF u, v
  <2>3. AgreeAll(Times(k + 1, a), Times(k + 1, b)) BY <2>1, <2>2, Zenon
  <2> QED BY <2>3
<1>5. Nat \subseteq T
  <2> HIDE DEF T
  <2> QED BY <1>3, <1>4, Induction
<1> QED BY <1>1, <1>5

LEMMA FitTimes ==
  ASSUME NEW m, NEW a \in Flat, AllFit(a, m), NEW n \in Nat
  PROVE  AllFit(Times(n, a), m)
<1> DEFINE T == {k \in Nat : AllFit(Times(k, a), m)}
<1>0. a \in Layout BY FlatIsLayout
<1>1. \A k \in Nat : Times(k, a) \in Layout BY <1>0, TimesType DEF Layout
<1>2. 0 \in T
  <2>1. AllFit(<<>>, m) BY DEF AllFit
  <2> QED BY <2>1, TimesZero
<1>3. ASSUME NEW k \in Nat, k \in T PROVE k + 1 \in T
  <2>1. Times(k + 1, a) = Times(k, a) \o a BY TimesNext DEF Flat
  <2>2. AllFit(Times(k, a) \o a, m)
    <3> DEFINE u == Times(k, a)
    <3>1. u \in Layout /\ AllFit(u, m) BY <1>1, <1>3
    <3> HIDE DEF u
    <3> QED BY <3>1, <1>0, AllFitConcat DEF u
  <2>3. AllFit(Times(k + 1, a), m) BY <2>1, <2>2, Zenon
  <2> QED BY <2>3
<1>4. Nat \subseteq T
  <2> HIDE DEF T
  <2> QED BY <1>2, <1>3, Induction
<1> QED BY <1>4

LEMMA FitEntry ==
  ASSUME NEW m, NEW w, w.of \in Flat, Fit(w, m)
  PROVE  AllFit(w.of, m)
<1> SUFFICES ASSUME NEW i \in 1..Len(w.of) PROVE Fit(w.of[i], m) BY DEF AllFit
<1>1. w.of[i].k # "list" /\ w.of[i].of = <<>>
  <2>1. w.of[i] \in Simple BY DEF Flat
  <2> QED BY <2>1, SimpleOf
<1> QED BY <1>1 DEF Fit

(* The number of entries of a list. *)
LEMMA HeldCount ==
  ASSUME NEW r \in RdSet, NEW w, NEW m \in MessageSet, NEW rest \in Stream,
         Held(r, w, m, rest), ~r.reading, r.todo # <<>>, Head(r.todo).k = "list",
         NEW t, t.todo = Times(Head(w).n, Head(r.todo).of) \o Tail(r.todo),
         t.reading = FALSE
  PROVE  Held(t, SubSeq(w, 2, Len(w)), m, rest) /\ Head(w).n = m.c
<1>1. PICK ws \in Layout : AgreeAll(ws, r.todo) /\ AllFit(ws, m)
                             /\ w = FieldsOf(ws, m.s, m.c) \o rest
  BY DEF Held
<1>2. r.todo \in Layout /\ m.s \in Text /\ m.c \in Nat BY DEF RdSet, MessageSet
<1> DEFINE f == ws[1]
           g == Head(r.todo)
<1>3. /\ ws # <<>> /\ f \in AnyField /\ g \in AnyField
      /\ Agree(f, g) /\ AgreeFlat(f.of, g.of)
      /\ Tail(ws) \in Layout /\ Tail(r.todo) \in Layout /\ AgreeAll(Tail(ws), Tail(r.todo))
  BY <1>1, <1>2, AgreeTail
<1>4. f.k = "list" BY <1>3 DEF Agree
<1>5. f \in Several BY <1>3, <1>4 DEF AnyField, Simple, Holding
<1>6. Fit(f, m) /\ AllFit(Tail(ws), m) BY <1>1, <1>3, FitTail
<1>7. m.c % Byte = m.c BY <1>2, <1>4, <1>6, ByteFits DEF Fit
<1>8. f.of \in Flat /\ g.of \in Flat BY <1>3, BuildingIsFlat
<1> DEFINE x == Cell(1, f.f, m.c)
           e == Times(m.c, Entry(f, m.s))
           b == FieldsOf(Tail(ws), m.s, m.c)
<1>9. CellsOf(f, m.s, m.c) = <<x>> \o e BY <1>4, <1>7 DEF CellsOf, ListCells
<1>10. e \in Stream /\ b \in Stream
  <2>1. Entry(f, m.s) \in Stream BY <1>2, <1>8, EntryCells
  <2> QED BY <2>1, <1>2, <1>3, TimesType, FieldsType DEF Stream
<1>11. x \in CellSet
  <2>1. f.f \in FieldNames BY <1>5 DEF Several
  <2> QED BY <2>1, <1>2 DEF Cell, CellSet, Values
<1>12. FieldsOf(ws, m.s, m.c) = (<<x>> \o e) \o b BY <1>2, <1>3, <1>9, FieldsHead
<1>13. x.n = m.c BY DEF Cell
<1>14. FieldsOf(Times(m.c, f.of), m.s, m.c) = e BY <1>2, <1>8, FieldsTimes
<1>15. /\ AgreeAll(Times(m.c, f.of), Times(m.c, g.of))
       /\ Times(m.c, f.of) \in Layout /\ Times(m.c, g.of) \in Layout
  BY <1>2, <1>3, <1>8, AgreeTimes
<1>16. AllFit(Times(m.c, f.of), m) BY <1>2, <1>6, <1>8, FitEntry, FitTimes
<1> DEFINE u == Times(m.c, f.of)
           v == Times(m.c, g.of)
<1> HIDE DEF x, e, b, f, g, u, v
<1>17. w = <<x>> \o ((e \o b) \o rest)
  <2> DEFINE d == e \o b
  <2>1. d \in Stream BY <1>10 DEF Stream
  <2>2. (<<x>> \o e) \o b = <<x>> \o d BY <1>10, <1>11, AssocOne
  <2> HIDE DEF d
  <2>3. (<<x>> \o d) \o rest = <<x>> \o (d \o rest) BY <2>1, <1>11, AssocOne
  <2> QED BY <2>2, <2>3, <1>1, <1>12 DEF d
<1>18. Head(w) = x /\ SubSeq(w, 2, Len(w)) = (e \o b) \o rest
  <2> DEFINE d == e \o b
  <2>1. d \in Stream BY <1>10 DEF Stream
  <2> HIDE DEF d
  <2> QED BY <2>1, <1>11, <1>17, AssocOne DEF d
<1>19. t.todo = v \o Tail(r.todo) BY <1>13, <1>18 DEF v, g
<1>20. AgreeAll(u \o Tail(ws), t.todo) BY <1>3, <1>15, <1>19, AgreeConcat DEF u, v
<1>21. AllFit(u \o Tail(ws), m) BY <1>3, <1>6, <1>15, <1>16, AllFitConcat DEF u, v
<1>22. FieldsOf(u \o Tail(ws), m.s, m.c) = e \o b
  BY <1>2, <1>3, <1>14, <1>15, FieldsConcat DEF u, b
<1>23. u \o Tail(ws) \in Layout BY <1>3, <1>15, LayoutConcat DEF u
<1>24. Held(t, SubSeq(w, 2, Len(w)), m, rest) BY <1>18, <1>20, <1>21, <1>22, <1>23 DEF Held
<1> QED BY <1>13, <1>18, <1>24

LEMMA BodyType ==
  ASSUME NEW w \in AnyField, NEW m \in MessageSet
  PROVE  Body(w, m) \in Stream
<1>1. m.s \in Text /\ m.c \in Nat BY DEF MessageSet
<1>2. "byte" \in Values BY DEF Values
<1>3. CASE w.k = "str"
  <2>1. \A i \in 1..Len(m.s) : Cell(1, "byte", m.s[i]) \in CellSet
    BY <1>1, <1>2 DEF Cell, CellSet, Text
  <2> QED BY <2>1, <1>1, <1>3 DEF Body, Stream, Text
<1>4. CASE w.k = "data"
  <2>1. Entry(w, m.s) \in Stream BY <1>1, BuildingIsFlat, EntryCells
  <2> QED BY <2>1, <1>1, <1>4, TimesType DEF Body, Stream
<1>5. CASE w.k \notin {"str", "data"} BY <1>5 DEF Body, Stream
<1> QED BY <1>3, <1>4, <1>5

(* A field with a body is its length and the body. *)
LEMMA BodyCells ==
  ASSUME NEW w \in AnyField, w.k \in {"empty", "str", "data"}, NEW m \in MessageSet,
         Fit(w, m)
  PROVE  \E x \in CellSet : /\ CellsOf(w, m.s, m.c) = <<x>> \o Body(w, m)
                            /\ x.n = Bytes(Body(w, m))
<1>0. m.s \in Text /\ m.c \in Nat BY DEF MessageSet
<1>1. w.f \in Values
  <2> HIDE DEF FieldNames
  <2> QED BY DEF AnyField, Simple, Several, Holding, Values
<1>2. Body(w, m) \in Stream BY BodyType
<1> DEFINE x == Cell(IF w.k = "data" THEN 8 ELSE 1, w.f, Bytes(Body(w, m)))
<1>3. x \in CellSet /\ x.n = Bytes(Body(w, m))
  <2>1. Bytes(Body(w, m)) \in Nat BY <1>2, BytesType
  <2> QED BY <2>1, <1>1 DEF Cell, CellSet
<1>4. CellsOf(w, m.s, m.c) = <<x>> \o Body(w, m)
  <2>1. CASE w.k = "empty"
    <3>1. Body(w, m) = <<>> BY <2>1 DEF Body
    <3>2. x = Cell(1, w.f, 0) BY <2>1, <3>1, BytesEmpty
    <3>3. CellsOf(w, m.s, m.c) = <<Cell(1, w.f, 0)>> BY <2>1 DEF CellsOf, Plain, Wide
    <3> QED BY <3>1, <3>2, <3>3
  <2>2. CASE w.k = "str"
    <3> DEFINE b == [i \in 1..Len(m.s) |-> Cell(1, "byte", m.s[i])]
    <3>1. Body(w, m) = b BY <2>2 DEF Body
    <3>2. Len(m.s) \in Nat /\ Len(m.s) % Byte = Len(m.s) BY <1>0, <2>2, ByteFits DEF Fit, Text
    <3>3. Bytes(b) = Len(m.s)
      <4>1. Wides(b) = {} BY DEF Wides, Cell
      <4>2. Len(b) = Len(m.s) BY <3>2
      <4>3. Bytes(b) = Len(b) + 7 * Cardinality(Wides(b)) BY DEF Bytes, Wides
      <4> HIDE DEF b
      <4> QED BY <3>2, <4>1, <4>2, <4>3, FS_EmptySet
    <3>4. CellsOf(w, m.s, m.c) = <<Cell(1, w.f, Len(m.s) % Byte)>> \o b
      BY <2>2 DEF CellsOf, Plain, Wide
    <3>5. x = Cell(1, w.f, Len(m.s)) BY <2>2, <3>1, <3>3
    <3> HIDE DEF b, x
    <3> QED BY <3>1, <3>2, <3>4, <3>5
  <2>3. CASE w.k = "data"
    <3>1. Body(w, m) = Times(m.c, Entry(w, m.s)) BY <2>3 DEF Body
    <3>2. CellsOf(w, m.s, m.c) = <<Cell(8, w.f, Bytes(Body(w, m)))>> \o Body(w, m)
      BY <2>3, <3>1 DEF CellsOf, DataCells
    <3> QED BY <2>3, <3>2
  <2> QED BY <2>1, <2>2, <2>3
<1> QED BY <1>3, <1>4

(* The length of a string or of data. *)
LEMMA HeldLength ==
  ASSUME NEW r \in RdSet, NEW w, NEW m \in MessageSet, NEW rest \in Stream,
         Held(r, w, m, rest), ~r.reading, r.todo # <<>>, Head(r.todo).k \in {"str", "data"},
         NEW t, t.todo = r.todo, t.reading = TRUE,
         t.txt = [len |-> Head(w).n, cells |-> <<>>]
  PROVE  Held(t, SubSeq(w, 2, Len(w)), m, rest)
<1>1. PICK ws \in Layout : AgreeAll(ws, r.todo) /\ AllFit(ws, m)
                             /\ w = FieldsOf(ws, m.s, m.c) \o rest
  BY DEF Held
<1>2. r.todo \in Layout /\ m.s \in Text /\ m.c \in Nat BY DEF RdSet, MessageSet
<1> DEFINE f == ws[1]
<1>3. /\ ws # <<>> /\ f \in AnyField /\ Agree(f, Head(r.todo))
      /\ Tail(ws) \in Layout
  BY <1>1, <1>2, AgreeTail
<1>4. f.k \in {"empty", "str", "data"} BY <1>3 DEF Agree
<1>5. Fit(f, m) BY <1>1, <1>3, FitTail
<1> DEFINE e == Body(f, m)
           b == FieldsOf(Tail(ws), m.s, m.c)
<1>6. PICK x \in CellSet : CellsOf(f, m.s, m.c) = <<x>> \o e /\ x.n = Bytes(e)
  BY <1>3, <1>4, <1>5, BodyCells
<1>7. e \in Stream /\ b \in Stream BY <1>2, <1>3, BodyType, FieldsType
<1>8. FieldsOf(ws, m.s, m.c) = CellsOf(f, m.s, m.c) \o b BY <1>2, <1>3, FieldsHead
<1> HIDE DEF e, b
<1>9. w = ((<<x>> \o e) \o b) \o rest BY <1>1, <1>6, <1>8, Zenon
<1>10. Head(w) = x /\ SubSeq(w, 2, Len(w)) = e \o (b \o rest)
  <2> DEFINE d == e \o b
  <2>1. d \in Stream BY <1>7 DEF Stream
  <2>2. (<<x>> \o e) \o b = <<x>> \o d BY <1>6, <1>7, AssocOne
  <2> HIDE DEF d
  <2>3. w = (<<x>> \o d) \o rest BY <1>9, <2>2, Zenon
  <2>4. w = <<x>> \o (d \o rest) BY <2>1, <2>3, <1>6, AssocOne
  <2>5. Head(w) = x /\ SubSeq(w, 2, Len(w)) = d \o rest
    BY <2>1, <2>4, <1>6, AssocOne
  <2>6. (e \o b) \o rest = e \o (b \o rest) BY <1>7 DEF Stream
  <2> QED BY <2>5, <2>6 DEF d
<1>11. /\ t.reading /\ t.txt.len = Bytes(e) /\ t.txt.cells = <<>> BY <1>6, <1>10
<1>12. e = <<>> \o e BY <1>7 DEF Stream
<1>13. \E y \in Stream : /\ Body(ws[1], m) = t.txt.cells \o y
                         /\ t.txt.cells # <<>> => y # <<>>
                         /\ SubSeq(w, 2, Len(w)) = y \o (FieldsOf(Tail(ws), m.s, m.c) \o rest)
  BY <1>7, <1>10, <1>11, <1>12 DEF e, b
<1>14. t.txt.len = Bytes(Body(ws[1], m)) BY <1>11 DEF e
<1> QED BY <1>1, <1>3, <1>4, <1>11, <1>13, <1>14 DEF Held

(* The first k cells of y followed by z are cells of y. *)
Begins(y, z, k) ==
  /\ k <= Len(y) /\ SubSeq(y \o z, 1, k) = SubSeq(y, 1, k)
  /\ y = SubSeq(y, 1, k) \o SubSeq(y, k + 1, Len(y))
  /\ SubSeq(y, 1, k) \in Stream /\ SubSeq(y, k + 1, Len(y)) \in Stream
  /\ SubSeq(y \o z, k + 1, Len(y \o z)) = SubSeq(y, k + 1, Len(y)) \o z
  /\ Bytes(SubSeq(y \o z, 1, k)) = Bytes(y) => k = Len(y)
  /\ Bytes(SubSeq(y \o z, 1, k)) # Bytes(y) => SubSeq(y, k + 1, Len(y)) # <<>>

(* They are when they have no more bytes, and all of them when they have as many. *)
LEMMA Prefix ==
  ASSUME NEW y \in Stream, NEW z \in Stream, NEW k \in Nat, k <= Len(y \o z),
         Bytes(SubSeq(y \o z, 1, k)) <= Bytes(y)
  PROVE  Begins(y, z, k)
<1>0. Len(y) \in Nat /\ Len(z) \in Nat /\ Len(y \o z) = Len(y) + Len(z) /\ y \o z \in Stream
  BY DEF Stream
<1>1. k <= Len(y)
  <2> SUFFICES ASSUME k > Len(y) PROVE FALSE BY <1>0
  <2> DEFINE u == SubSeq(z, 1, k - Len(y))
  <2>0. k - Len(y) \in 1..Len(z) BY <1>0
  <2>1. SubSeq(y \o z, 1, k) = y \o u BY <1>0 DEF Stream
  <2>2. u \in Stream /\ Len(u) = k - Len(y) BY <2>0 DEF Stream
  <2> HIDE DEF u
  <2>5. u # <<>>
    <3> SUFFICES ASSUME u = <<>> PROVE FALSE OBVIOUS
    <3>1. Len(u) = 0 BY Zenon, EmptySeq
    <3> QED BY <3>1, <2>0, <2>2
  <2>6. Bytes(y \o u) <= Bytes(y) BY <2>1, Zenon
  <2>3. Bytes(y \o u) = Bytes(y) + Bytes(u) BY <2>2, BytesConcat
  <2>4. Bytes(u) > 0 /\ Bytes(u) \in Nat /\ Bytes(y) \in Nat BY <2>2, <2>5, BytesType
  <2> QED BY <2>3, <2>4, <2>6
<1> DEFINE a == SubSeq(y, 1, k)
           b == SubSeq(y, k + 1, Len(y))
<1>2. a \in Stream /\ b \in Stream /\ Len(a) = k /\ Len(b) = Len(y) - k
  BY <1>0, <1>1 DEF Stream
<1>3. y = a \o b
  <2>1. a \o b \in Stream /\ Len(a \o b) = Len(y)
    <3> HIDE DEF a, b
    <3> QED BY <1>0, <1>1, <1>2 DEF Stream
  <2>2. \A i \in 1..Len(y) : (a \o b)[i] = y[i]
    <3>1. \A i \in 1..k : a[i] = y[i] BY <1>0, <1>1 DEF Stream
    <3>2. \A i \in 1..Len(y) - k : b[i] = y[k + i] BY <1>0, <1>1 DEF Stream
    <3> HIDE DEF a, b
    <3> SUFFICES ASSUME NEW i \in 1..Len(y) PROVE (a \o b)[i] = y[i] OBVIOUS
    <3>3. CASE i <= k
      <4>1. (a \o b)[i] = a[i] BY <3>3, <1>1, <1>2 DEF Stream
      <4> QED BY <4>1, <3>1, <3>3, <1>1
    <3>4. CASE i > k
      <4>1. (a \o b)[i] = b[i - k] BY <3>4, <1>0, <1>1, <1>2 DEF Stream
      <4>2. i - k \in 1..Len(y) - k /\ k + (i - k) = i BY <3>4, <1>0, <1>1
      <4>3. b[i - k] = y[k + (i - k)] BY <4>2, <3>2
      <4>4. b[i - k] = y[i] BY <4>2, <4>3, Zenon
      <4> QED BY <4>1, <4>4, Zenon
    <3>5. i <= k \/ i > k BY <1>0
    <3> QED BY <3>3, <3>4, <3>5, Zenon
  <2> HIDE DEF a, b
  <2> QED BY <2>1, <2>2, SeqEqual DEF Stream
<1>4. SubSeq(y \o z, 1, k) = a BY <1>0, <1>1 DEF Stream
<1>5. SubSeq(y \o z, k + 1, Len(y \o z)) = b \o z
  <2> DEFINE d == b \o z
  <2>1. y \o z = a \o d
    <3> HIDE DEF a, b
    <3> QED BY <1>2, <1>3 DEF Stream
  <2>2. d \in Stream
    <3> HIDE DEF b
    <3> QED BY <1>2 DEF Stream
  <2> HIDE DEF a, b, d
  <2>3. SubSeq(a \o d, Len(a) + 1, Len(a \o d)) = d BY <1>2, <2>2 DEF Stream
  <2> QED BY <1>2, <2>1, <2>3 DEF d
<1> HIDE DEF a, b
<1>6. Bytes(y) = Bytes(a) + Bytes(b) BY <1>2, <1>3, BytesConcat
<1>7. /\ Bytes(a) \in Nat /\ Bytes(b) \in Nat /\ (b # <<>> => Bytes(b) > 0)
  BY <1>2, BytesType
<1>8. b = <<>> => Bytes(b) = 0
  <2> SUFFICES ASSUME b = <<>> PROVE Bytes(b) = 0 OBVIOUS
  <2> QED BY BytesEmpty, Zenon
<1>9. Bytes(SubSeq(y \o z, 1, k)) = Bytes(y) => k = Len(y)
  <2> SUFFICES ASSUME Bytes(a) = Bytes(y) PROVE k = Len(y) BY <1>4
  <2>1. b = <<>> BY <1>6, <1>7
  <2> QED BY <2>1, <1>0, <1>2
<1>10. Bytes(SubSeq(y \o z, 1, k)) # Bytes(y) => b # <<>>
  <2> SUFFICES ASSUME Bytes(a) # Bytes(y), b = <<>> PROVE FALSE BY <1>4, Zenon
  <2>1. Bytes(b) = 0 BY <1>8
  <2> QED BY <2>1, <1>6, <1>7
<1>11. /\ y = SubSeq(y, 1, k) \o SubSeq(y, k + 1, Len(y))
       /\ SubSeq(y, 1, k) \in Stream /\ SubSeq(y, k + 1, Len(y)) \in Stream
  BY <1>2, <1>3, Zenon DEF a, b
<1>12. SubSeq(y \o z, k + 1, Len(y \o z)) = SubSeq(y, k + 1, Len(y)) \o z
  BY <1>5, Zenon DEF b
<1>13. SubSeq(y \o z, 1, k) = SubSeq(y, 1, k) BY <1>4, Zenon DEF a
<1>14. Bytes(SubSeq(y \o z, 1, k)) # Bytes(y) => SubSeq(y, k + 1, Len(y)) # <<>>
  BY <1>10, Zenon DEF b
<1> QED BY <1>1, <1>9, <1>11, <1>12, <1>13, <1>14 DEF Begins


(* The field that a reader reads as a string or as data: the cells a of its body
   are read and the cells y are not. *)
Partly(r, m, a, y) ==
  \E f \in AnyField :
    /\ Agree(f, Head(r.todo)) /\ Fit(f, m) /\ f.k \in {"empty", "str", "data"}
    /\ Body(f, m) = a \o y /\ r.txt.len = Bytes(a \o y)

LEMMA StreamAssoc ==
  ASSUME NEW a \in Stream, NEW b \in Stream, NEW c \in Stream
  PROVE  a \o b \in Stream /\ (a \o b) \o c = a \o (b \o c)
BY DEF Stream

(* Reading the next k cells of a string or of data. *)
LEMMA HeldRead ==
  ASSUME NEW r \in RdSet, NEW w, NEW m \in MessageSet, NEW rest \in Stream,
         Held(r, w, m, rest), r.reading, NEW k \in Nat, k <= Len(w),
         Bytes(r.txt.cells) + Bytes(SubSeq(w, 1, k)) <= r.txt.len
  PROVE  /\ r.todo # <<>> /\ SubSeq(w, 1, k) \in Stream
         /\ \E y \in Stream :
              /\ Partly(r, m, r.txt.cells \o SubSeq(w, 1, k), y)
              /\ Bytes(r.txt.cells) + Bytes(SubSeq(w, 1, k)) = r.txt.len => y = <<>>
         /\ Bytes(r.txt.cells) + Bytes(SubSeq(w, 1, k)) = r.txt.len =>
              \A t : t.todo = Tail(r.todo) /\ t.reading = FALSE
                       => Held(t, SubSeq(w, k + 1, Len(w)), m, rest)
         /\ Bytes(r.txt.cells) + Bytes(SubSeq(w, 1, k)) # r.txt.len =>
              \A t : (/\ t.todo = r.todo /\ t.reading = TRUE /\ t.txt.len = r.txt.len
                      /\ t.txt.cells = r.txt.cells \o SubSeq(w, 1, k))
                       => Held(t, SubSeq(w, k + 1, Len(w)), m, rest)
<1>1. PICK ws \in Layout :
        /\ AgreeAll(ws, r.todo) /\ AllFit(ws, m) /\ ws # <<>>
        /\ ws[1].k \in {"empty", "str", "data"}
        /\ r.txt.len = Bytes(Body(ws[1], m))
        /\ \E y \in Stream : /\ Body(ws[1], m) = r.txt.cells \o y
                             /\ w = y \o (FieldsOf(Tail(ws), m.s, m.c) \o rest)
  BY DEF Held
<1>2. PICK y \in Stream : /\ Body(ws[1], m) = r.txt.cells \o y
                          /\ w = y \o (FieldsOf(Tail(ws), m.s, m.c) \o rest)
  BY <1>1
<1>3. r.todo \in Layout /\ r.txt.cells \in Stream /\ r.txt.len \in Nat
      /\ m.s \in Text /\ m.c \in Nat
  BY DEF RdSet, TxtSet, MessageSet
<1>4. r.todo # <<>>
  <2>1. Len(ws) > 0 BY <1>1 DEF Layout
  <2>2. Len(r.todo) = Len(ws) BY <1>1 DEF AgreeAll
  <2> QED BY <2>1, <2>2
<1> DEFINE f == ws[1]
           b == FieldsOf(Tail(ws), m.s, m.c)
           z == b \o rest
           c == r.txt.cells
<1>5. /\ f \in AnyField /\ Agree(f, Head(r.todo))
      /\ Tail(ws) \in Layout /\ AgreeAll(Tail(ws), Tail(r.todo))
  BY <1>1, <1>3, <1>4, AgreeTail
<1>6. Fit(f, m) /\ AllFit(Tail(ws), m) BY <1>1, FitTail
<1>7. b \in Stream BY <1>3, <1>5, FieldsType
<1>8. z \in Stream BY <1>7 DEF Stream
<1>9. w = y \o z BY <1>2
<1>10. Bytes(c \o y) = Bytes(c) + Bytes(y) BY <1>3, BytesConcat
<1>11. r.txt.len = Bytes(c \o y) BY <1>1, <1>2, Zenon
<1>12. Bytes(y) \in Nat /\ Bytes(c) \in Nat BY <1>3, BytesType
<1> HIDE DEF b, z, c
<1> DEFINE a == SubSeq(y \o z, 1, k)
           d == SubSeq(y, k + 1, Len(y))
<1>13. Bytes(c) + Bytes(a) <= Bytes(c) + Bytes(y)
  <2>1. Bytes(c) + Bytes(a) <= r.txt.len BY <1>9 DEF c
  <2>2. r.txt.len = Bytes(c) + Bytes(y) BY <1>10, <1>11, Zenon
  <2> HIDE DEF a
  <2> QED BY <2>1, <2>2
<1>14. a \in Stream /\ Bytes(a) \in Nat
  <2>1. y \o z \in Stream /\ k <= Len(y \o z) BY <1>8, <1>9 DEF Stream
  <2>2. a \in Stream BY <2>1 DEF Stream
  <2> HIDE DEF a
  <2> QED BY <2>2, BytesType
<1>15. Bytes(a) <= Bytes(y)
  <2> HIDE DEF a
  <2> QED BY <1>12, <1>13, <1>14
<1>16. k <= Len(y \o z) BY <1>9
<1>17. /\ k <= Len(y) /\ y = SubSeq(y, 1, k) \o d /\ a = SubSeq(y, 1, k)
       /\ d \in Stream /\ SubSeq(y \o z, k + 1, Len(y \o z)) = d \o z
       /\ Bytes(a) = Bytes(y) => k = Len(y)
       /\ Bytes(a) # Bytes(y) => d # <<>>
  <2>1. Begins(y, z, k) BY <1>8, <1>15, <1>16, Prefix
  <2> QED BY <2>1 DEF Begins
<1>18. y = a \o d BY <1>17, Zenon
<1>19. k = Len(y) => d = <<>> BY DEF Stream
<1> HIDE DEF a, d
<1>20. c \o y = (c \o a) \o d /\ c \o a \in Stream
  <2>1. c \in Stream BY <1>3 DEF c
  <2>2. c \o (a \o d) = (c \o a) \o d /\ c \o a \in Stream BY <2>1, <1>14, <1>17, StreamAssoc
  <2> QED BY <2>2, <1>18
<1>21. SubSeq(w, 1, k) = a /\ SubSeq(w, k + 1, Len(w)) = d \o z BY <1>9, <1>17 DEF a
<1>22. Partly(r, m, c \o a, d)
  <2>1. Body(f, m) = (c \o a) \o d BY <1>2, <1>20 DEF c
  <2>2. r.txt.len = Bytes((c \o a) \o d) BY <1>11, <1>20
  <2> HIDE DEF f
  <2>3. f.k \in {"empty", "str", "data"} BY <1>1 DEF f
  <2> QED BY <2>1, <2>2, <2>3, <1>5, <1>6 DEF Partly
<1>23. Bytes(c) + Bytes(a) = r.txt.len => Bytes(a) = Bytes(y) BY <1>10, <1>11, <1>12, <1>14
<1>24. Bytes(c) + Bytes(a) # r.txt.len => Bytes(a) # Bytes(y) BY <1>10, <1>11, <1>12, <1>14
<1>25. Bytes(c) + Bytes(a) = r.txt.len => d = <<>> BY <1>17, <1>19, <1>23
<1>26. ASSUME Bytes(c) + Bytes(a) = r.txt.len, NEW t, t.todo = Tail(r.todo), t.reading = FALSE
       PROVE  Held(t, SubSeq(w, k + 1, Len(w)), m, rest)
  <2>1. d \o z = z BY <1>8, <1>25, <1>26 DEF Stream
  <2>2. SubSeq(w, k + 1, Len(w)) = b \o rest BY <1>21, <2>1 DEF z
  <2> QED BY <2>2, <1>5, <1>6, <1>26 DEF Held, b
<1>27. ASSUME Bytes(c) + Bytes(a) # r.txt.len, NEW t, t.todo = r.todo, t.reading = TRUE,
              t.txt.len = r.txt.len, t.txt.cells = c \o a
       PROVE  Held(t, SubSeq(w, k + 1, Len(w)), m, rest)
  <2>1. d # <<>> BY <1>17, <1>24, <1>27
  <2>2. Body(ws[1], m) = t.txt.cells \o d
    <3>1. Body(ws[1], m) = c \o y BY <1>2 DEF c
    <3>2. c \o y = (c \o a) \o d BY <1>20
    <3>3. t.txt.cells = c \o a BY <1>27
    <3> QED BY <3>1, <3>2, <3>3, Zenon
  <2>3. SubSeq(w, k + 1, Len(w)) = d \o (FieldsOf(Tail(ws), m.s, m.c) \o rest)
    BY <1>21 DEF z, b
  <2>4. t.txt.len = Bytes(Body(ws[1], m)) BY <1>1, <1>27
  <2> QED BY <2>1, <2>2, <2>3, <2>4, <1>1, <1>17, <1>27 DEF Held
<1>28. SubSeq(w, 1, k) \in Stream BY <1>14, <1>21
<1>29. \E u \in Stream :
         /\ Partly(r, m, r.txt.cells \o SubSeq(w, 1, k), u)
         /\ Bytes(r.txt.cells) + Bytes(SubSeq(w, 1, k)) = r.txt.len => u = <<>>
  <2>1. Partly(r, m, r.txt.cells \o SubSeq(w, 1, k), d) BY <1>21, <1>22 DEF c
  <2>2. Bytes(r.txt.cells) + Bytes(SubSeq(w, 1, k)) = r.txt.len => d = <<>>
    BY <1>21, <1>25 DEF c
  <2> QED BY <2>1, <2>2, <1>17
<1>30. Bytes(r.txt.cells) + Bytes(SubSeq(w, 1, k)) = r.txt.len =>
         \A t : t.todo = Tail(r.todo) /\ t.reading = FALSE
                  => Held(t, SubSeq(w, k + 1, Len(w)), m, rest)
  BY <1>21, <1>26 DEF c
<1>31. Bytes(r.txt.cells) + Bytes(SubSeq(w, 1, k)) # r.txt.len =>
         \A t : (/\ t.todo = r.todo /\ t.reading = TRUE /\ t.txt.len = r.txt.len
                 /\ t.txt.cells = r.txt.cells \o SubSeq(w, 1, k))
                  => Held(t, SubSeq(w, k + 1, Len(w)), m, rest)
  <2> SUFFICES ASSUME NEW t, Bytes(r.txt.cells) + Bytes(SubSeq(w, 1, k)) # r.txt.len,
                      t.todo = r.todo /\ t.reading = TRUE /\ t.txt.len = r.txt.len
                        /\ t.txt.cells = r.txt.cells \o SubSeq(w, 1, k)
               PROVE  Held(t, SubSeq(w, k + 1, Len(w)), m, rest)
    OBVIOUS
  <2>1. SubSeq(w, 1, k) = a /\ r.txt.cells = c BY <1>21 DEF c
  <2>2. Bytes(c) + Bytes(a) # r.txt.len BY <2>1, Zenon
  <2>3. t.txt.cells = c \o a BY <2>1, Zenon
  <2> QED BY <2>2, <2>3, <1>27, Zenon
<1> QED BY <1>4, <1>28, <1>29, <1>30, <1>31

(* A reader that has nothing left to read is at the end of the message. *)
LEMMA HeldEnd ==
  ASSUME NEW r \in RdSet, NEW w, NEW m \in MessageSet, NEW rest \in Stream,
         Held(r, w, m, rest), r.todo = <<>>
  PROVE  w = rest
<1>1. PICK ws \in Layout :
        /\ AgreeAll(ws, r.todo)
        /\ ~r.reading => w = FieldsOf(ws, m.s, m.c) \o rest
        /\ r.reading => ws # <<>>
  BY DEF Held
<1>2. ws = <<>>
  <2>1. Len(ws) = Len(r.todo) BY <1>1 DEF AgreeAll
  <2>2. Len(ws) = 0 BY <2>1
  <2> QED BY <2>2 DEF Layout
<1>3. w = FieldsOf(<<>>, m.s, m.c) \o rest BY <1>1, <1>2
<1> QED BY <1>3, FieldsEmpty DEF Stream

(* What is written behind the message changes nothing for its reader. *)
LEMMA HeldMore ==
  ASSUME NEW r \in RdSet, NEW w, NEW m \in MessageSet, NEW rest \in Stream,
         Held(r, w, m, rest), NEW x \in Stream
  PROVE  Held(r, w \o x, m, rest \o x)
<1>1. PICK ws \in Layout :
        /\ AgreeAll(ws, r.todo) /\ AllFit(ws, m)
        /\ ~r.reading => w = FieldsOf(ws, m.s, m.c) \o rest
        /\ r.reading =>
             /\ ws # <<>> /\ ws[1].k \in {"empty", "str", "data"}
             /\ r.txt.len = Bytes(Body(ws[1], m))
             /\ \E y \in Stream :
                  /\ Body(ws[1], m) = r.txt.cells \o y
                  /\ r.txt.cells # <<>> => y # <<>>
                  /\ w = y \o (FieldsOf(Tail(ws), m.s, m.c) \o rest)
  BY DEF Held
<1>2. m.s \in Text /\ m.c \in Nat BY DEF MessageSet
<1>3. CASE ~r.reading
  <2>1. FieldsOf(ws, m.s, m.c) \in Stream BY <1>2, FieldsType
  <2> DEFINE b == FieldsOf(ws, m.s, m.c)
  <2>3. w = b \o rest BY <1>1, <1>3
  <2> HIDE DEF b
  <2>4. (b \o rest) \o x = b \o (rest \o x) BY <2>1, StreamAssoc DEF b
  <2>2. w \o x = FieldsOf(ws, m.s, m.c) \o (rest \o x) BY <2>3, <2>4, Zenon DEF b
  <2> QED BY <2>2, <1>1, <1>3 DEF Held
<1>4. CASE r.reading
  <2> DEFINE b == FieldsOf(Tail(ws), m.s, m.c)
  <2>1. PICK y \in Stream :
          /\ Body(ws[1], m) = r.txt.cells \o y
          /\ r.txt.cells # <<>> => y # <<>>
          /\ w = y \o (b \o rest)
    BY <1>1, <1>4
  <2>2. b \in Stream
    <3>1. Tail(ws) \in Layout BY <1>1, <1>4 DEF Layout
    <3> QED BY <3>1, <1>2, FieldsType
  <2> HIDE DEF b
  <2>3. w \o x = y \o (b \o (rest \o x))
    <3>1. b \o rest \in Stream /\ (b \o rest) \o x = b \o (rest \o x) BY <2>2, StreamAssoc
    <3>2. (y \o (b \o rest)) \o x = y \o ((b \o rest) \o x) BY <3>1, StreamAssoc
    <3> QED BY <2>1, <3>1, <3>2, Zenon
  <2> QED BY <2>1, <2>3, <1>1, <1>4 DEF Held, b
<1> QED BY <1>3, <1>4

(* A reader that has read the kind of a message. *)
LEMMA HeldStart ==
  ASSUME NEW m \in MessageSet, NEW l \in Layout, Fits(m, l), NEW rest,
         NEW t, AgreeAll(l, t.todo), t.reading = FALSE
  PROVE  Held(t, FieldsOf(l, m.s, m.c) \o rest, m, rest)
BY FitsAll DEF Held

-----------------------------------------------------------------------------
(* What the buildings are on the wire *)

LEMMA TimesLength ==
  ASSUME NEW e \in Stream, NEW n \in Nat
  PROVE  /\ Times(n, e) \in Stream /\ Len(Times(n, e)) = n * Len(e)
         /\ Bytes(Times(n, e)) = n * Bytes(e)
         /\ n > 0 => \A i \in 1..Len(e) : Times(n, e)[i] = e[i]
<1> DEFINE Good(k) == /\ Len(Times(k, e)) = k * Len(e) /\ Bytes(Times(k, e)) = k * Bytes(e)
                      /\ k > 0 => \A i \in 1..Len(e) : Times(k, e)[i] = e[i]
           T == {k \in Nat : Good(k)}
<1>0. \A k \in Nat : Times(k, e) \in Stream BY TimesType DEF Stream
<1>1. Len(e) \in Nat /\ Bytes(e) \in Nat BY BytesType DEF Stream
<1>2. 0 \in T
  <2>1. Len(<<>>) = 0 * Len(e) /\ Bytes(<<>>) = 0 * Bytes(e) BY <1>1, BytesEmpty
  <2>2. Good(0) BY <2>1, TimesZero
  <2> QED BY <2>2
<1>3. ASSUME NEW k \in Nat, k \in T PROVE k + 1 \in T
  <2> DEFINE u == Times(k, e)
  <2>1. Times(k + 1, e) = u \o e BY TimesNext DEF Stream
  <2>2. u \in Stream /\ Good(k) BY <1>0, <1>3
  <2>3. Len(u \o e) = (k + 1) * Len(e)
    <3>1. Len(u) = k * Len(e) BY <2>2
    <3>2. (k + 1) * Len(e) = k * Len(e) + Len(e) BY <1>1
    <3> HIDE DEF u
    <3>3. Len(u \o e) = Len(u) + Len(e) BY <2>2 DEF Stream
    <3> QED BY <3>1, <3>2, <3>3
  <2>4. Bytes(u \o e) = (k + 1) * Bytes(e)
    <3>1. Bytes(u) = k * Bytes(e) BY <2>2
    <3>2. (k + 1) * Bytes(e) = k * Bytes(e) + Bytes(e) BY <1>1
    <3> HIDE DEF u
    <3>3. Bytes(u \o e) = Bytes(u) + Bytes(e) BY <2>2, BytesConcat
    <3> QED BY <3>1, <3>2, <3>3
  <2>5. \A i \in 1..Len(e) : (u \o e)[i] = e[i]
    <3>1. CASE k = 0
      <4>1. u = <<>> BY <3>1, TimesZero
      <4>2. <<>> \o e = e BY DEF Stream
      <4> QED BY <4>1, <4>2, Zenon
    <3>2. CASE k > 0
      <4> SUFFICES ASSUME NEW i \in 1..Len(e) PROVE (u \o e)[i] = e[i] OBVIOUS
      <4>1. Len(u) = k * Len(e) /\ u[i] = e[i] BY <2>2, <3>2
      <4>2. k * Len(e) >= Len(e) BY <1>1, <3>2
      <4> HIDE DEF u
      <4>3. i \in 1..Len(u) BY <1>1, <4>1, <4>2
      <4>4. (u \o e)[i] = u[i] BY <2>2, <4>3 DEF Stream
      <4> QED BY <4>1, <4>4
    <3> QED BY <3>1, <3>2
  <2> HIDE DEF u
  <2>6. Good(k + 1) BY <2>1, <2>3, <2>4, <2>5
  <2> QED BY <2>6
<1>4. Nat \subseteq T
  <2> HIDE DEF T
  <2> QED BY <1>2, <1>3, Induction
<1> QED BY <1>0, <1>4

LEMMA BytesOne ==
  ASSUME NEW x \in CellSet
  PROVE  <<x>> \in Stream /\ Len(<<x>>) = 1 /\ Bytes(<<x>>) = x.w
<1>0. x.w \in {1, 8} /\ <<x>> \in Stream BY DEF CellSet, Stream
<1>1. CASE x.w = 8
  <2>1. Wides(<<x>>) = {1} BY <1>1 DEF Wides
  <2>2. Bytes(<<x>>) = Len(<<x>>) + 7 * Cardinality(Wides(<<x>>)) BY DEF Bytes, Wides
  <2>3. Cardinality({1}) = 1 BY SMTT(60), FS_Singleton
  <2> QED BY <1>0, <1>1, <2>1, <2>2, <2>3
<1>2. CASE x.w = 1
  <2>1. Wides(<<x>>) = {} BY <1>2 DEF Wides
  <2>2. Bytes(<<x>>) = Len(<<x>>) + 7 * Cardinality(Wides(<<x>>)) BY DEF Bytes, Wides
  <2> QED BY <1>0, <1>2, <2>1, <2>2, FS_EmptySet
<1> QED BY <1>0, <1>1, <1>2

LEMMA TextCells ==
  ASSUME NEW s \in Text
  PROVE  LET b == [i \in 1..Len(s) |-> Cell(1, "byte", s[i])]
         IN b \in Stream /\ Len(b) = Len(s) /\ Bytes(b) = Len(s)
<1> DEFINE b == [i \in 1..Len(s) |-> Cell(1, "byte", s[i])]
<1>1. Len(s) \in Nat BY DEF Text
<1>2. b \in Stream
  <2>1. "byte" \in Values BY DEF Values
  <2>2. \A i \in 1..Len(s) : Cell(1, "byte", s[i]) \in CellSet
    BY <2>1 DEF Cell, CellSet, Text
  <2> QED BY <1>1, <2>2 DEF Stream
<1>3. Wides(b) = {} BY DEF Wides, Cell
<1>4. Len(b) = Len(s) BY <1>1
<1>5. Bytes(b) = Len(b) + 7 * Cardinality(Wides(b)) BY DEF Bytes, Wides
<1> HIDE DEF b
<1>6. Bytes(b) = Len(s) BY <1>1, <1>3, <1>4, <1>5, FS_EmptySet
<1> QED BY <1>2, <1>4, <1>6 DEF b

(* Cells that have so many bytes, and a number at place i. *)
Shape(a, i, len, bytes, n) ==
  a \in Stream /\ Len(a) = len /\ Bytes(a) = bytes /\ a[i].n = n

LEMMA WideBefore ==
  ASSUME NEW f \in FieldNames, NEW ws \in Layout, ws # <<>>, ws[1] \in {U64(f), F64(f)},
         NEW s \in Text, NEW i \in Nat, NEW len \in Nat, NEW bytes \in Nat, NEW n,
         i \in 1..len, Shape(FieldsOf(Tail(ws), s, 0), i, len, bytes, n)
  PROVE  Shape(FieldsOf(ws, s, 0), i + 1, len + 1, bytes + 8, n)
<1> DEFINE x == Cell(8, f, 0)
           w == ws[1]
           a == FieldsOf(Tail(ws), s, 0)
<1>1. w \in Simple BY SimpleFields
<1>3. CellsOf(w, s, 0) = <<x>>
  <2>1. Plain(w, s) = <<x>> BY DEF Plain, Wide, U64, F64, Field
  <2> QED BY <1>1, <2>1, SimpleCellsOf
<1>4. x \in CellSet /\ x.w = 8 BY DEF Cell, CellSet, Values
<1>6. FieldsOf(ws, s, 0) = <<x>> \o a BY <1>3, FieldsHead
<1> HIDE DEF x, a
<1>7. a \in Stream /\ Len(a) = len /\ Bytes(a) = bytes /\ a[i].n = n BY DEF Shape, a
<1>8. <<x>> \in Stream /\ Bytes(<<x>>) = 8 BY <1>4, BytesOne
<1>9. Bytes(<<x>> \o a) = 8 + bytes BY <1>7, <1>8, BytesConcat
<1>10. <<x>> \o a \in Stream /\ Len(<<x>> \o a) = len + 1 /\ (<<x>> \o a)[i + 1] = a[i]
  BY <1>4, <1>7 DEF Stream
<1>11. Shape(<<x>> \o a, i + 1, len + 1, bytes + 8, n) BY <1>7, <1>9, <1>10 DEF Shape
<1> QED BY <1>6, <1>11

(* A building is five values and a string. *)
LEMMA BuildingParts ==
  Building = <<U64("bldid"), F64("x"), F64("y"), F64("z"), F64("rotation"), Str("data")>>
<1> DEFINE n1 == U64("bldid")
           n2 == F64("x")
           n3 == F64("y")
           n4 == F64("z")
           n5 == F64("rotation")
           n6 == Str("data")
           t == <<n1, n2, n3, n4, n5, n6>>
<1>1. Building = <<n1>> \o (<<n2, n3, n4>> \o <<n5, n6>>) BY DEF Building, At
<1>2. {n1, n2, n3, n4, n5, n6} \subseteq Simple BY SimpleFields DEF FieldNames
<1> HIDE DEF n1, n2, n3, n4, n5, n6
<1>3. t \in Seq(Simple) /\ Len(t) = 6 BY <1>2
<1>4. Building \in Seq(Simple) BY BuildingFlat DEF Flat
<1>5. Len(Building) = 6 BY <1>1
<1>6. \A i \in 1..6 : Building[i] = t[i] BY <1>1
<1> HIDE DEF t
<1>7. Building = t BY <1>3, <1>4, <1>5, <1>6, SeqEqual
<1> QED BY <1>7 DEF t, n1, n2, n3, n4, n5, n6

LEMMA BuildingCells ==
  ASSUME NEW f \in Holding, NEW s \in Text, Len(s) < Byte
  PROVE  Shape(Entry(f, s), 6, 6 + Len(s), 41 + Len(s), Len(s))
<1>0. Len(s) \in Nat /\ Len(s) % Byte = Len(s) BY ByteFits DEF Text
<1> DEFINE b  == [i \in 1..Len(s) |-> Cell(1, "byte", s[i])]
           x6 == Cell(1, "data", Len(s))
           l1 == <<U64("bldid"), F64("x"), F64("y"), F64("z"), F64("rotation"), Str("data")>>
           l2 == <<F64("x"), F64("y"), F64("z"), F64("rotation"), Str("data")>>
           l3 == <<F64("y"), F64("z"), F64("rotation"), Str("data")>>
           l4 == <<F64("z"), F64("rotation"), Str("data")>>
           l5 == <<F64("rotation"), Str("data")>>
           l6 == <<Str("data")>>
<1>1. {"bldid", "x", "y", "z", "rotation", "data"} \subseteq FieldNames BY DEF FieldNames
<1>2. Str("data") \in Simple BY <1>1, SimpleFields
<1>3. CellsOf(Str("data"), s, 0) = <<x6>> \o b
  <2>1. Plain(Str("data"), s) = <<x6>> \o b BY <1>0 DEF Plain, Wide, Str, Field
  <2> QED BY <2>1, <1>2, SimpleCellsOf
<1>4. x6 \in CellSet /\ x6.w = 1 /\ x6.n = Len(s) BY <1>0, <1>1 DEF Cell, CellSet, Values
<1>5. b \in Stream /\ Len(b) = Len(s) /\ Bytes(b) = Len(s) BY TextCells
<1>6. Str("data") \in AnyField BY <1>2 DEF AnyField
<1>7. /\ l1 \in Layout /\ l2 \in Layout /\ l3 \in Layout
      /\ l4 \in Layout /\ l5 \in Layout /\ l6 \in Layout
  <2> DEFINE n1 == U64("bldid")
             n2 == F64("x")
             n3 == F64("y")
             n4 == F64("z")
             n5 == F64("rotation")
             n6 == Str("data")
  <2>1. {n1, n2, n3, n4, n5, n6} \subseteq AnyField BY <1>1, SimpleFields DEF AnyField
  <2> HIDE DEF n1, n2, n3, n4, n5, n6
  <2>2. /\ <<n1, n2, n3, n4, n5, n6>> \in Layout /\ <<n2, n3, n4, n5, n6>> \in Layout
        /\ <<n3, n4, n5, n6>> \in Layout /\ <<n4, n5, n6>> \in Layout
        /\ <<n5, n6>> \in Layout /\ <<n6>> \in Layout
    BY <2>1 DEF Layout
  <2> QED BY <2>2, Zenon DEF l1, l2, l3, l4, l5, l6, n1, n2, n3, n4, n5, n6
<1>18. /\ l1 # <<>> /\ l1[1] = U64("bldid") /\ Tail(l1) = l2
       /\ l2 # <<>> /\ l2[1] = F64("x") /\ Tail(l2) = l3
       /\ l3 # <<>> /\ l3[1] = F64("y") /\ Tail(l3) = l4
       /\ l4 # <<>> /\ l4[1] = F64("z") /\ Tail(l4) = l5
       /\ l5 # <<>> /\ l5[1] = F64("rotation") /\ Tail(l5) = l6
  <2> DEFINE n1 == U64("bldid")
             n2 == F64("x")
             n3 == F64("y")
             n4 == F64("z")
             n5 == F64("rotation")
             n6 == Str("data")
  <2> HIDE DEF n1, n2, n3, n4, n5, n6
  <2>1. /\ <<n1, n2, n3, n4, n5, n6>> # <<>> /\ <<n1, n2, n3, n4, n5, n6>>[1] = n1
        /\ Tail(<<n1, n2, n3, n4, n5, n6>>) = <<n2, n3, n4, n5, n6>>
        /\ <<n2, n3, n4, n5, n6>> # <<>> /\ <<n2, n3, n4, n5, n6>>[1] = n2
        /\ Tail(<<n2, n3, n4, n5, n6>>) = <<n3, n4, n5, n6>>
        /\ <<n3, n4, n5, n6>> # <<>> /\ <<n3, n4, n5, n6>>[1] = n3
        /\ Tail(<<n3, n4, n5, n6>>) = <<n4, n5, n6>>
        /\ <<n4, n5, n6>> # <<>> /\ <<n4, n5, n6>>[1] = n4
        /\ Tail(<<n4, n5, n6>>) = <<n5, n6>>
        /\ <<n5, n6>> # <<>> /\ <<n5, n6>>[1] = n5 /\ Tail(<<n5, n6>>) = <<n6>>
    OBVIOUS
  <2> QED BY <2>1, Zenon DEF l1, l2, l3, l4, l5, l6, n1, n2, n3, n4, n5, n6
<1>8. FieldsOf(l6, s, 0) = <<x6>> \o b BY <1>3, <1>6, <1>0, FieldsSingle
<1> HIDE DEF b, x6, l1, l2, l3, l4, l5, l6, FieldNames
<1>9. Shape(<<x6>> \o b, 1, 1 + Len(s), 1 + Len(s), Len(s))
  <2>1. <<x6>> \in Stream /\ Bytes(<<x6>>) = 1 BY <1>4, BytesOne
  <2>2. Bytes(<<x6>> \o b) = 1 + Len(s) BY <2>1, <1>5, BytesConcat
  <2>3. <<x6>> \o b \in Stream /\ Len(<<x6>> \o b) = 1 + Len(s) /\ (<<x6>> \o b)[1] = x6
    BY <1>4, <1>5 DEF Stream
  <2> QED BY <2>2, <2>3, <1>4 DEF Shape
<1>10. Shape(FieldsOf(l6, s, 0), 1, 1 + Len(s), 1 + Len(s), Len(s)) BY <1>8, <1>9
<1>11. Shape(FieldsOf(l5, s, 0), 2, 2 + Len(s), 9 + Len(s), Len(s))
  <2>1. Shape(FieldsOf(l5, s, 0), 1 + 1, 1 + Len(s) + 1, 1 + Len(s) + 8, Len(s))
    <3>1. /\ "rotation" \in FieldNames /\ l5 \in Layout /\ l5 # <<>>
          /\ l5[1] \in {U64("rotation"), F64("rotation")}
          /\ 1 \in Nat /\ 1 + Len(s) \in Nat /\ 1 + Len(s) \in Nat /\ 1 \in 1..1 + Len(s)
      BY <1>0, <1>1, <1>7, <1>18
    <3>2. Shape(FieldsOf(Tail(l5), s, 0), 1, 1 + Len(s), 1 + Len(s), Len(s))
      BY <1>18, <1>10
    <3> QED BY <3>1, <3>2, WideBefore, Zenon
  <2>2. 1 + 1 = 2 /\ 1 + Len(s) + 1 = 2 + Len(s) /\ 1 + Len(s) + 8 = 9 + Len(s) BY <1>0
  <2> QED BY <2>1, <2>2
<1>12. Shape(FieldsOf(l4, s, 0), 3, 3 + Len(s), 17 + Len(s), Len(s))
  <2>1. Shape(FieldsOf(l4, s, 0), 2 + 1, 2 + Len(s) + 1, 9 + Len(s) + 8, Len(s))
    <3>1. /\ "z" \in FieldNames /\ l4 \in Layout /\ l4 # <<>>
          /\ l4[1] \in {U64("z"), F64("z")}
          /\ 2 \in Nat /\ 2 + Len(s) \in Nat /\ 9 + Len(s) \in Nat /\ 2 \in 1..2 + Len(s)
      BY <1>0, <1>1, <1>7, <1>18
    <3>2. Shape(FieldsOf(Tail(l4), s, 0), 2, 2 + Len(s), 9 + Len(s), Len(s))
      BY <1>18, <1>11
    <3> QED BY <3>1, <3>2, WideBefore, Zenon
  <2>2. 2 + 1 = 3 /\ 2 + Len(s) + 1 = 3 + Len(s) /\ 9 + Len(s) + 8 = 17 + Len(s) BY <1>0
  <2> QED BY <2>1, <2>2
<1>13. Shape(FieldsOf(l3, s, 0), 4, 4 + Len(s), 25 + Len(s), Len(s))
  <2>1. Shape(FieldsOf(l3, s, 0), 3 + 1, 3 + Len(s) + 1, 17 + Len(s) + 8, Len(s))
    <3>1. /\ "y" \in FieldNames /\ l3 \in Layout /\ l3 # <<>>
          /\ l3[1] \in {U64("y"), F64("y")}
          /\ 3 \in Nat /\ 3 + Len(s) \in Nat /\ 17 + Len(s) \in Nat /\ 3 \in 1..3 + Len(s)
      BY <1>0, <1>1, <1>7, <1>18
    <3>2. Shape(FieldsOf(Tail(l3), s, 0), 3, 3 + Len(s), 17 + Len(s), Len(s))
      BY <1>18, <1>12
    <3> QED BY <3>1, <3>2, WideBefore, Zenon
  <2>2. 3 + 1 = 4 /\ 3 + Len(s) + 1 = 4 + Len(s) /\ 17 + Len(s) + 8 = 25 + Len(s) BY <1>0
  <2> QED BY <2>1, <2>2
<1>14. Shape(FieldsOf(l2, s, 0), 5, 5 + Len(s), 33 + Len(s), Len(s))
  <2>1. Shape(FieldsOf(l2, s, 0), 4 + 1, 4 + Len(s) + 1, 25 + Len(s) + 8, Len(s))
    <3>1. /\ "x" \in FieldNames /\ l2 \in Layout /\ l2 # <<>>
          /\ l2[1] \in {U64("x"), F64("x")}
          /\ 4 \in Nat /\ 4 + Len(s) \in Nat /\ 25 + Len(s) \in Nat /\ 4 \in 1..4 + Len(s)
      BY <1>0, <1>1, <1>7, <1>18
    <3>2. Shape(FieldsOf(Tail(l2), s, 0), 4, 4 + Len(s), 25 + Len(s), Len(s))
      BY <1>18, <1>13
    <3> QED BY <3>1, <3>2, WideBefore, Zenon
  <2>2. 4 + 1 = 5 /\ 4 + Len(s) + 1 = 5 + Len(s) /\ 25 + Len(s) + 8 = 33 + Len(s) BY <1>0
  <2> QED BY <2>1, <2>2
<1>15. Shape(FieldsOf(l1, s, 0), 6, 6 + Len(s), 41 + Len(s), Len(s))
  <2>1. Shape(FieldsOf(l1, s, 0), 5 + 1, 5 + Len(s) + 1, 33 + Len(s) + 8, Len(s))
    <3>1. /\ "bldid" \in FieldNames /\ l1 \in Layout /\ l1 # <<>>
          /\ l1[1] \in {U64("bldid"), F64("bldid")}
          /\ 5 \in Nat /\ 5 + Len(s) \in Nat /\ 33 + Len(s) \in Nat /\ 5 \in 1..5 + Len(s)
      BY <1>0, <1>1, <1>7, <1>18
    <3>2. Shape(FieldsOf(Tail(l1), s, 0), 5, 5 + Len(s), 33 + Len(s), Len(s))
      BY <1>18, <1>14
    <3> QED BY <3>1, <3>2, WideBefore, Zenon
  <2>2. 5 + 1 = 6 /\ 5 + Len(s) + 1 = 6 + Len(s) /\ 33 + Len(s) + 8 = 41 + Len(s) BY <1>0
  <2> QED BY <2>1, <2>2
<1>16. Building = l1 BY BuildingParts, Zenon DEF l1
<1>17. Entry(f, s) = FieldsOf(Building, s, 0)
  <2>1. Building \in Flat /\ f.of = Building BY BuildingFlat DEF Holding
  <2> QED BY <2>1, FieldsOfFlat
<1> QED BY <1>15, <1>16, <1>17

-----------------------------------------------------------------------------
(* What a reader makes of a string or of data *)

LEMMA Divided ==
  ASSUME NEW a \in Nat, NEW b \in Nat \ {0}
  PROVE  a \div b \in Nat /\ a % b \in Nat /\ a % b < b
OBVIOUS

LEMMA Multiple ==
  ASSUME NEW a \in Nat, NEW b \in Nat \ {0}
  PROVE  (a * b) \div b = a /\ (a * b) % b = 0
OBVIOUS

LEMMA Quotient ==
  ASSUME NEW a \in Nat, NEW b \in Nat \ {0}, NEW k \in Nat, k < a * b
  PROVE  k \div b < a
OBVIOUS

LEMMA Blank ==
  ASSUME NEW a \in Nat, NEW b \in Nat
  PROVE  a * (41 + b) \in Nat /\ (a * (41 + b)) \div 41 >= a
OBVIOUS

LEMMA FoundType ==
  ASSUME NEW cells \in Stream, NEW len \in Nat
  PROVE  Found(cells, len) \in Nat
<1> DEFINE text  == IF Len(cells) >= 6 THEN cells[6].n ELSE 0
           full  == Len(cells) \div (6 + text)
           begun == IF Len(cells) % (6 + text) >= 6 THEN 1 ELSE 0
           left  == len - (full + begun) * (41 + text)
<1>1. text \in Nat /\ Len(cells) \in Nat
  <2>1. Len(cells) \in Nat BY DEF Stream
  <2>2. Len(cells) >= 6 => cells[6] \in CellSet BY <2>1 DEF Stream
  <2> QED BY <2>1, <2>2 DEF CellSet
<1> HIDE DEF text
<1>2. full \in Nat /\ begun \in {0, 1}
  <2>1. 6 + text \in Nat \ {0} BY <1>1
  <2> QED BY <2>1, <1>1, Divided
<1>3. Found(cells, len) = IF left < 0 THEN full ELSE full + begun + left \div 41
  BY DEF Found, text
<1> HIDE DEF full, begun
<1>4. (full + begun) * (41 + text) \in Nat BY <1>1, <1>2
<1>5. left \in Int BY <1>4
<1> HIDE DEF left
<1>6. ~(left < 0) => left \in Nat BY <1>5
<1>7. ~(left < 0) => left \div 41 \in Nat BY <1>6, Divided
<1> QED BY <1>2, <1>3, <1>7

(* Of c buildings that have all come c are found. *)
LEMMA FoundAll ==
  ASSUME NEW c \in Nat, NEW t \in Nat, NEW cells, Len(cells) = c * (6 + t),
         c > 0 => cells[6].n = t
  PROVE  Found(cells, c * (41 + t)) = c
<1>1. CASE c = 0
  <2>1. Len(cells) = 0 /\ c * (41 + t) = 0 BY <1>1
  <2>2. 0 \div 6 = 0 /\ 0 % 6 = 0 /\ 0 \div 41 = 0 OBVIOUS
  <2> QED BY <1>1, <2>1, <2>2 DEF Found
<1>2. CASE c > 0
  <2>1. Len(cells) >= 6 /\ cells[6].n = t BY <1>2
  <2>2. Len(cells) \div (6 + t) = c /\ Len(cells) % (6 + t) = 0
    <3>1. 6 + t \in Nat \ {0} OBVIOUS
    <3>2. (c * (6 + t)) \div (6 + t) = c /\ (c * (6 + t)) % (6 + t) = 0 BY <3>1, Multiple
    <3> QED BY <3>2, Zenon
  <2>3. c * (41 + t) - (c + 0) * (41 + t) = 0 /\ 0 \div 41 = 0 OBVIOUS
  <2> DEFINE n == Len(cells)
             len == c * (41 + t)
  <2>4. Found(cells, len) =
          LET full  == n \div (6 + t)
              begun == IF n % (6 + t) >= 6 THEN 1 ELSE 0
              left  == len - (full + begun) * (41 + t)
          IN IF left < 0 THEN full ELSE full + begun + left \div 41
    BY <2>1 DEF Found
  <2>5. ~(0 >= 6) /\ ~(0 < 0) /\ c + 0 + 0 = c OBVIOUS
  <2> QED BY <2>2, <2>3, <2>4, <2>5, Zenon
<1> QED BY <1>1, <1>2

(* Of c buildings of which the first cells have come at least c. *)
LEMMA FoundSome ==
  ASSUME NEW c \in Nat, NEW t \in Nat, NEW cells, Len(cells) \in Nat,
         Len(cells) < c * (6 + t), Len(cells) >= 6 => cells[6].n = t
  PROVE  Found(cells, c * (41 + t)) >= c
<1>1. CASE Len(cells) < 6
  <2>1. Len(cells) \div 6 = 0 /\ Len(cells) % 6 < 6 BY <1>1
  <2>2. (0 + 0) * (41 + 0) = 0 /\ c * (41 + t) - 0 = c * (41 + t) /\ c * (41 + t) \in Nat OBVIOUS
  <2>3. Found(cells, c * (41 + t)) = (c * (41 + t)) \div 41 BY <1>1, <2>1, <2>2 DEF Found
  <2> QED BY <2>3, Blank
<1>2. CASE Len(cells) >= 6
  <2> DEFINE full  == Len(cells) \div (6 + t)
             begun == IF Len(cells) % (6 + t) >= 6 THEN 1 ELSE 0
             left  == c * (41 + t) - (full + begun) * (41 + t)
  <2>1. full \in Nat /\ begun \in {0, 1} /\ full < c
    <3>1. 6 + t \in Nat \ {0} OBVIOUS
    <3> QED BY <3>1, Divided, Quotient
  <2>2. Found(cells, c * (41 + t)) = IF left < 0 THEN full ELSE full + begun + left \div 41
    BY <1>2 DEF Found
  <2> HIDE DEF full, begun
  <2> DEFINE d == c - (full + begun)
  <2>3. d \in Nat BY <2>1
  <2>4. left = d * (41 + t) BY <2>1
  <2> HIDE DEF left, d
  <2>5. left \in Nat /\ left \div 41 >= d
    <3>1. d * (41 + t) \in Nat /\ (d * (41 + t)) \div 41 >= d BY <2>3, Blank
    <3> QED BY <3>1, <2>4, Zenon
  <2>6. left \div 41 \in Nat BY <2>5, Divided
  <2>7. d = c - (full + begun) BY DEF d
  <2> QED BY <2>1, <2>2, <2>5, <2>6, <2>7
<1> QED BY <1>1, <1>2

(* What Faithful says of a field that has been read. *)
GotRight(g, m) ==
  /\ g.as \in {g.is, Ignored}
  /\ g.s # <<>> => SameText(g, m.s)
  /\ g.n # 0 => IF g.cut THEN g.n >= m.c ELSE g.n = m.c

(* What Finish keeps. *)
Finished(r, cells, cut) ==
  LET f == Head(r.todo)
      len == r.txt.len
  IN IF f.k = "str" THEN Got(f.f, f.f, TextOf(cells, len), 0, cut)
     ELSE Got(f.f, f.f, <<>>, Found(cells, len), cut)

LEMMA FinishedType ==
  ASSUME NEW r \in RdSet, r.todo # <<>>, NEW cells \in Stream, NEW cut \in BOOLEAN
  PROVE  Finished(r, cells, cut) \in GotSet
<1>1. Head(r.todo) \in AnyField /\ r.txt.len \in Nat
  <2>1. r.todo \in Layout /\ r.txt \in TxtSet BY DEF RdSet
  <2>2. r.txt.len \in Nat BY <2>1 DEF TxtSet
  <2>3. Head(r.todo) \in AnyField BY <2>1 DEF Layout
  <2> QED BY <2>2, <2>3
<1>2. Head(r.todo).f \in FieldNames
  <2> HIDE DEF FieldNames
  <2> QED BY <1>1 DEF AnyField, Simple, Several, Holding
<1>3. Found(cells, r.txt.len) \in Nat BY <1>1, FoundType
<1>4. TextOf(cells, r.txt.len) \in Text
  <2>1. \A i \in 1..r.txt.len : (IF i <= Len(cells) THEN cells[i].n ELSE 0) \in Nat
    <3> SUFFICES ASSUME NEW i \in 1..r.txt.len, i <= Len(cells) PROVE cells[i].n \in Nat
      OBVIOUS
    <3>1. cells[i] \in CellSet BY <1>1 DEF Stream
    <3> QED BY <3>1 DEF CellSet
  <2> QED BY <1>1, <2>1 DEF TextOf, Text
<1>5. <<>> \in Text BY DEF Text
<1> HIDE DEF FieldNames
<1>6. Head(r.todo).f \in Values BY <1>2 DEF Values
<1> QED BY <1>2, <1>3, <1>4, <1>5, <1>6 DEF Finished, Got, GotSet

(* A string. *)
LEMMA TextRight ==
  ASSUME NEW s \in Text, NEW cells \in Stream, NEW y \in Stream, NEW cut \in BOOLEAN,
         [i \in 1..Len(s) |-> Cell(1, "byte", s[i])] = cells \o y,
         cut => cells # <<>> /\ y # <<>>, ~cut => y = <<>>, NEW len, len = Len(s)
  PROVE  IF cut THEN /\ Len(TextOf(cells, len)) = Len(s)
                     /\ \E k \in 1..Len(s) - 1 : \A i \in DOMAIN s :
                          TextOf(cells, len)[i] = IF i <= k THEN s[i] ELSE 0
         ELSE TextOf(cells, len) = s
<1> DEFINE b == [i \in 1..Len(s) |-> Cell(1, "byte", s[i])]
           t == TextOf(cells, len)
<1>1. Len(s) \in Nat /\ DOMAIN s = 1..Len(s) BY DEF Text
<1>2. b \in Stream /\ Len(b) = Len(s) BY TextCells
<1>3. \A i \in 1..Len(s) : b[i].n = s[i] BY DEF Cell
<1>4. b = cells \o y OBVIOUS
<1> HIDE DEF b
<1>5. Len(cells) \in Nat /\ Len(y) \in Nat /\ Len(cells) + Len(y) = Len(s)
  BY <1>1, <1>2, <1>4 DEF Stream
<1>6. \A i \in 1..Len(cells) : cells[i] = b[i] BY <1>4 DEF Stream
<1>7. \A i \in 1..Len(cells) : cells[i].n = s[i] BY <1>3, <1>5, <1>6
<1>8. \A i \in 1..Len(s) : t[i] = IF i <= Len(cells) THEN s[i] ELSE 0
  BY <1>1, <1>5, <1>7 DEF TextOf
<1>9. Len(t) = Len(s) /\ t \in Seq(Nat)
  <2>1. \A i \in 1..Len(s) : (IF i <= Len(cells) THEN cells[i].n ELSE 0) \in Nat
    BY <1>1, <1>5, <1>7 DEF Text
  <2> QED BY <2>1, <1>1 DEF TextOf
<1> HIDE DEF t
<1>10. CASE cut
  <2>1. Len(cells) # 0 /\ Len(y) # 0 BY <1>10 DEF Stream
  <2>2. Len(cells) \in 1..Len(s) - 1 BY <2>1, <1>5
  <2> QED BY <1>1, <1>8, <1>9, <1>10, <2>2 DEF t
<1>11. CASE ~cut
  <2>1. Len(cells) = Len(s)
    <3>1. Len(y) = 0 BY <1>11
    <3> QED BY <3>1, <1>5
  <2>2. \A i \in 1..Len(s) : t[i] = s[i] BY <1>8, <2>1
  <2>3. t = s BY <1>9, <2>2, SeqEqual DEF Text
  <2> QED BY <2>3, <1>11 DEF t
<1> QED BY <1>10, <1>11

CountRight(n, c, cut) == IF cut THEN n >= c ELSE n = c

(* The buildings of a player. *)
LEMMA BuildingsRight ==
  ASSUME NEW f \in Holding, NEW s \in Text, Len(s) < Byte, NEW c \in Nat,
         NEW cells \in Stream, NEW y \in Stream, NEW cut \in BOOLEAN,
         Times(c, Entry(f, s)) = cells \o y,
         cut => y # <<>>, ~cut => y = <<>>
  PROVE  CountRight(Found(cells, Bytes(cells \o y)), c, cut)
<1> DEFINE e == Entry(f, s)
           b == Times(c, e)
           t == Len(s)
<1>1. Shape(e, 6, 6 + t, 41 + t, t) BY BuildingCells
<1>2. e \in Stream /\ Len(e) = 6 + t /\ Bytes(e) = 41 + t /\ e[6].n = t BY <1>1 DEF Shape
<1>3. t \in Nat BY DEF Text
<1> HIDE DEF e
<1>4. /\ b \in Stream /\ Len(b) = c * Len(e) /\ Bytes(b) = c * Bytes(e)
      /\ c > 0 => \A i \in 1..Len(e) : b[i] = e[i]
  BY <1>2, TimesLength
<1> HIDE DEF b
<1>5. Len(b) = c * (6 + t) /\ Bytes(b) = c * (41 + t) BY <1>2, <1>4
<1>6. 6 \in 1..Len(e) BY <1>2, <1>3
<1>7. c > 0 => b[6].n = t BY <1>2, <1>4, <1>6
<1>8. b = cells \o y BY DEF b, e
<1>9. Len(cells) \in Nat /\ Len(y) \in Nat /\ Len(cells) + Len(y) = Len(b)
  BY <1>8 DEF Stream
<1>10. \A i \in 1..Len(cells) : cells[i] = b[i] BY <1>8 DEF Stream
<1>11. Bytes(cells \o y) = c * (41 + t) BY <1>5, <1>8, Zenon
<1> HIDE DEF t
<1>12. CASE cut
  <2>1. Len(y) # 0 BY <1>12 DEF Stream
  <2>2. Len(cells) < c * (6 + t) BY <2>1, <1>5, <1>9
  <2>3. Len(cells) >= 6 => cells[6].n = t
    <3> SUFFICES ASSUME Len(cells) >= 6 PROVE cells[6].n = t OBVIOUS
    <3>1. cells[6] = b[6] BY <1>9, <1>10
    <3>2. c > 0
      <4> SUFFICES ASSUME ~(c > 0) PROVE FALSE OBVIOUS
      <4>1. c = 0 OBVIOUS
      <4>2. c * (6 + t) = 0 BY <4>1, <1>3
      <4> QED BY <4>2, <2>2
    <3> QED BY <3>1, <3>2, <1>7
  <2>4. Found(cells, c * (41 + t)) >= c BY <2>2, <2>3, <1>3, <1>9, FoundSome
  <2> QED BY <2>4, <1>11, <1>12 DEF CountRight
<1>13. CASE ~cut
  <2>1. cells = b
    <3>1. y = <<>> BY <1>13
    <3>2. cells \o <<>> = cells BY DEF Stream
    <3> QED BY <3>1, <3>2, <1>8, Zenon
  <2>2. Len(cells) = c * (6 + t) /\ (c > 0 => cells[6].n = t) BY <2>1, <1>5, <1>7
  <2>3. Found(cells, c * (41 + t)) = c BY <2>2, <1>3, FoundAll
  <2> QED BY <2>3, <1>11, <1>13 DEF CountRight
<1> QED BY <1>12, <1>13

LEMMA FinishedRight ==
  ASSUME NEW r \in RdSet, NEW m \in MessageSet, NEW cells \in Stream, NEW y \in Stream,
         Partly(r, m, cells, y), NEW cut \in BOOLEAN,
         cut => cells # <<>> /\ y # <<>>, ~cut => y = <<>>
  PROVE  GotRight(Finished(r, cells, cut), m)
<1> DEFINE g == Head(r.todo)
           len == r.txt.len
<1>1. PICK f \in AnyField : /\ Agree(f, g) /\ Fit(f, m) /\ f.k \in {"empty", "str", "data"}
                            /\ Body(f, m) = cells \o y /\ len = Bytes(cells \o y)
  BY DEF Partly
<1>2. m.s \in Text /\ m.c \in Nat BY DEF MessageSet
<1> HIDE DEF g, len
<1>3. CASE g.k = "str"
  <2> DEFINE x == TextOf(cells, len)
  <2>1. Finished(r, cells, cut) = Got(g.f, g.f, x, 0, cut)
    BY <1>3 DEF Finished, g, len
  <2>2. f.k \in {"empty", "str"} BY <1>1, <1>3 DEF Agree
  <2> HIDE DEF x
  <2>3. x # <<>> => SameText(Got(g.f, g.f, x, 0, cut), m.s)
    <3>1. CASE f.k = "empty"
      <4>1. Body(f, m) = <<>> BY <3>1 DEF Body
      <4>2. Bytes(cells \o y) = 0 BY <1>1, <4>1, BytesEmpty, Zenon
      <4>3. len = 0 BY <1>1, <4>2
      <4>4. x = <<>> BY <4>3 DEF x, TextOf
      <4> QED BY <4>4
    <3>2. CASE f.k = "str"
      <4>1. Body(f, m) = [i \in 1..Len(m.s) |-> Cell(1, "byte", m.s[i])] BY <3>2 DEF Body
      <4>2. len = Len(m.s)
        <5>1. Bytes([i \in 1..Len(m.s) |-> Cell(1, "byte", m.s[i])]) = Len(m.s)
          BY <1>2, TextCells
        <5> QED BY <5>1, <4>1, <1>1, Zenon
      <4>3. [i \in 1..Len(m.s) |-> Cell(1, "byte", m.s[i])] = cells \o y BY <1>1, <4>1, Zenon
      <4>4. IF cut THEN /\ Len(x) = Len(m.s)
                        /\ \E k \in 1..Len(m.s) - 1 : \A i \in DOMAIN m.s :
                             x[i] = IF i <= k THEN m.s[i] ELSE 0
            ELSE x = m.s
        <5> HIDE DEF len
        <5> QED BY <4>2, <4>3, <1>2, TextRight DEF x
      <4> QED BY <4>4 DEF SameText, Got
    <3> QED BY <2>2, <3>1, <3>2
  <2>4. Got(g.f, g.f, x, 0, cut).n = 0 /\ Got(g.f, g.f, x, 0, cut).s = x
    /\ Got(g.f, g.f, x, 0, cut).as = Got(g.f, g.f, x, 0, cut).is
    BY DEF Got
  <2> QED BY <2>1, <2>3, <2>4 DEF GotRight
<1>4. CASE g.k # "str"
  <2> DEFINE n == Found(cells, len)
  <2>1. Finished(r, cells, cut) = Got(g.f, g.f, <<>>, n, cut)
    BY <1>4 DEF Finished, g, len
  <2>2. f.k \in {"empty", "data"} BY <1>1, <1>4 DEF Agree
  <2> HIDE DEF n
  <2>3. n # 0 => IF cut THEN n >= m.c ELSE n = m.c
    <3>1. CASE f.k = "empty"
      <4>1. cells \o y = <<>> BY <1>1, <3>1 DEF Body
      <4>2. len = 0 BY <1>1, <4>1, BytesEmpty
      <4>3. cells = <<>>
        <5>1. Len(cells) = 0 BY <4>1 DEF Stream
        <5> QED BY <5>1 DEF Stream
      <4>4. Found(<<>>, 0) = 0
        <5>1. 0 \div 6 = 0 /\ 0 % 6 = 0 /\ 0 \div 41 = 0 OBVIOUS
        <5> QED BY <5>1 DEF Found
      <4>5. n = 0 BY <4>2, <4>3, <4>4 DEF n
      <4> QED BY <4>5
    <3>2. CASE f.k = "data"
      <4>1. Body(f, m) = Times(m.c, Entry(f, m.s)) BY <3>2 DEF Body
      <4>2. f \in Holding BY <3>2 DEF AnyField, Simple, Several
      <4>3. Len(m.s) < Byte
        <5>1. Building \in Flat /\ f.of = Building BY <4>2, BuildingFlat DEF Holding
        <5>2. Len(f.of) = 6 /\ f.of[6] = Str("data") BY <5>1, BuildingParts
        <5>3. f.of[6].k = "str" BY <5>2 DEF Str, Field
        <5> QED BY <5>2, <5>3, <1>1 DEF Fit
      <4>4. Times(m.c, Entry(f, m.s)) = cells \o y BY <1>1, <4>1, Zenon
      <4>5. n = Found(cells, Bytes(cells \o y)) BY <1>1, Zenon DEF n
      <4>6. CountRight(Found(cells, Bytes(cells \o y)), m.c, cut)
        <5>1. /\ cut => y # <<>>
              /\ ~cut => y = <<>>
          OBVIOUS
        <5>2. m.s \in Text /\ m.c \in Nat /\ f \in Holding BY <1>2, <4>2
        <5> QED BY <4>3, <4>4, <5>1, <5>2, BuildingsRight
      <4> QED BY <4>5, <4>6, Zenon DEF CountRight
    <3> QED BY <2>2, <3>1, <3>2
  <2>4. /\ Got(g.f, g.f, <<>>, n, cut).n = n /\ Got(g.f, g.f, <<>>, n, cut).s = <<>>
        /\ Got(g.f, g.f, <<>>, n, cut).as = Got(g.f, g.f, <<>>, n, cut).is
        /\ Got(g.f, g.f, <<>>, n, cut).cut = cut
    BY DEF Got
  <2> QED BY <2>1, <2>3, <2>4 DEF GotRight
<1> QED BY <1>3, <1>4

-----------------------------------------------------------------------------
(* Every connection: what is sent on it, and who reads it *)

Routes == {"in", "out"}

Sends(r, h) ==
  IF h = 1 THEN DOMAIN Writes[r][1] ELSE IF r = "in" THEN ToServer ELSE ToClient

Paired(r, x, h) ==
  \/ r = "in"  /\ h = 1 /\ x = "readMsg"
  \/ r = "in"  /\ h = 2 /\ x = "server2"
  \/ r = "out" /\ h = 1 /\ x = "ReadServerMessage"
  \/ r = "out" /\ h = 2 /\ x \in {"client2", "ReadServerMessage"}

LEMMA WritesAre ==
  /\ Writes["in"][1] = ClientTable /\ Writes["in"][2] = GoWrites
  /\ Writes["out"][1] = ServerTable /\ Writes["out"][2] = GoWrites
BY DEF Writes, ClientTable, ServerTable

LEMMA ReadsAre ==
  /\ DOMAIN Reads = {"readMsg", "server2", "ReadServerMessage", "client2"}
  /\ Reads["readMsg"] = PlayerTable /\ Reads["server2"] = ServerReads
  /\ Reads["ReadServerMessage"] = GoReads /\ Reads["client2"] = ViewTable
BY DEF Reads, PlayerTable, ViewTable

LEMMA PairAgrees ==
  ASSUME NEW r \in Routes, NEW h \in Hop, NEW x, Paired(r, x, h)
  PROVE  x \in DOMAIN Reads /\ AgreeTables(Writes[r][h], Reads[x], Sends(r, h))
<1>1. CASE r = "in" /\ h = 1 /\ x = "readMsg"
  BY <1>1, WritesAre, ReadsAre, ClientToPlayer DEF Sends
<1>2. CASE r = "in" /\ h = 2 /\ x = "server2"
  BY <1>2, WritesAre, ReadsAre, GoToServer DEF Sends
<1>3. CASE r = "out" /\ h = 1 /\ x = "ReadServerMessage"
  BY <1>3, WritesAre, ReadsAre, ServerToGo DEF Sends
<1>4. CASE r = "out" /\ h = 2 /\ x = "client2"
  BY <1>4, WritesAre, ReadsAre, GoToClient DEF Sends
<1>5. CASE r = "out" /\ h = 2 /\ x = "ReadServerMessage"
  BY <1>5, WritesAre, ReadsAre, GoToGo DEF Sends
<1> QED BY <1>1, <1>2, <1>3, <1>4, <1>5 DEF Paired

LEMMA WritesTyped ==
  ASSUME NEW r \in Routes, NEW h \in Hop
  PROVE  /\ TypedTable(Writes[r][h]) /\ DOMAIN Writes[r][h] \subseteq Commands
         /\ Sends(r, h) \subseteq DOMAIN Writes[r][h]
<1>1. TypedTable(Writes[r][h]) BY WritesAre, TablesTyped DEF Routes, Hop, ClientTable, ServerTable
<1>2. DOMAIN Writes[r][h] \subseteq Commands BY WritesAre DEF Routes, Hop, Commands
<1>3. Sends(r, h) \subseteq DOMAIN Writes[r][h]
  <2>1. ToServer \subseteq DOMAIN GoWrites BY GoToServer DEF AgreeTables
  <2>2. ToClient \subseteq DOMAIN GoWrites BY GoToClient DEF AgreeTables
  <2> QED BY <2>1, <2>2, WritesAre DEF Sends, Routes, Hop
<1> QED BY <1>1, <1>2, <1>3

LEMMA GoWritesNames ==
  {"Join", "Leave", "UpdatePlayers", "UpdatePlayer", "Attack", "LoggedIn", "Frame", "Die",
   "Equip", "Damage", "Item", "Fish", "Solo", "TryFlag", "Flag", "Chat", "Bld", "Blds",
   "Spawn", "Target", "SpawnChest", "Mark", "Conch", "Interact", "TogglePVP", "Account",
   "ChangeArea"} = DOMAIN GoWrites
BY DEF GoWrites, With, GoWritesAvatars, GoWritesActs, GoWritesTalk, GoWritesQuests, GoWritesRest

LEMMA ClientNames ==
  DOMAIN ClientTable = {"Auth", "Join", "UpdatePlayer", "Equip", "Attack", "Fish", "TryFlag",
                        "Chat", "Interact", "BldPlace", "TogglePVP", "Ping"}
BY DEF ClientTable, With, ClientWritesLogin, ClientWrites

LEMMA ServerNames ==
  DOMAIN ServerTable \subseteq DOMAIN GoWrites
BY GoWritesNames DEF ServerTable, With, ServerWrites, ServerWritesQuests

LEMMA NoCommand == "" \notin Commands /\ "pirates!" \notin Commands
BY GoWritesNames, ClientNames, ServerNames DEF Commands

LEMMA ReadsTyped ==
  ASSUME NEW x \in DOMAIN Reads
  PROVE  TypedTable(Reads[x]) /\ DOMAIN Reads[x] \subseteq Commands
<1>1. TypedTable(Reads[x]) BY ReadsAre, TablesTyped DEF PlayerTable, ViewTable
<1>2. DOMAIN PlayerTable \subseteq DOMAIN ClientTable
  BY ClientNames DEF PlayerTable, With, PlayerReads, PlayerReadsRest
<1>3. DOMAIN ServerReads \subseteq DOMAIN GoWrites BY GoWritesNames DEF ServerReads
<1>4. DOMAIN GoReads \subseteq DOMAIN GoWrites
  BY GoWritesNames DEF GoReads, With, GoReadsAvatars, GoReadsActs, GoReadsQuests, GoReadsRest
<1>5. DOMAIN ViewTable \subseteq DOMAIN GoWrites
  BY GoWritesNames DEF ViewTable, With, ClientReads, ClientReadsQuests
<1> QED BY <1>1, <1>2, <1>3, <1>4, <1>5, ReadsAre DEF Commands
=============================================================================
