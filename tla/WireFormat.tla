----------------------------- MODULE WireFormat -----------------------------
(***************************************************************************)
(* The messages of Tasteless Shores as each peer writes and reads them:    *)
(*   the main server   server/server/ts/server.go, player.go, shared.go    *)
(*   the game server   game/game/net/server2.gd                            *)
(*   the game client   game/game/net/client2.gd                            *)
(* Nothing on the wire says how long a message is: both ends must agree on *)
(* its fields, and on the length byte of a string or a list.  The table of *)
(* every peer is taken from that peer's own code; a field has the name of  *)
(* the field of the Go structure that it fills or that it comes from.      *)
(***************************************************************************)
EXTENDS Naturals, Sequences, SequencesExt

CONSTANTS
  Byte,       \* what one length byte can count, 256 in the code
  DataLimit   \* the most bytes readData accepts, 1024 in the code

ASSUME WireAssumption == Byte \in Nat \ {0} /\ DataLimit \in Nat

-----------------------------------------------------------------------------
(* Fields *)

Field(k, f) == [k |-> k, f |-> f, of |-> <<>>]
U8(f)  == Field("u8", f)
U64(f) == Field("u64", f)
F64(f) == Field("f64", f)
Str(f) == Field("str", f)
\* a string that is always empty
Empty(f) == Field("empty", f)
\* a number of entries in one byte, then the entries
List(f, entry) == [k |-> "list", f |-> f, of |-> entry]
\* a number of bytes in eight bytes, then the entries in these bytes
Data(f, entry) == [k |-> "data", f |-> f, of |-> entry]

At(fs)  == <<F64("x"), F64("y"), F64("z")>> \o fs
Id(fs)  == <<U64("id")>> \o fs
Ignored == "_"   \* what is read and not kept

\* a table with the messages of two
With(f, g) == [m \in DOMAIN f \cup DOMAIN g |-> IF m \in DOMAIN f THEN f[m] ELSE g[m]]

-----------------------------------------------------------------------------
(* What the main server writes: ServerMessage._serverMessage *)

Moved == Id(At(<<F64("rotation"), F64("health"), U8("weapon")>>))

GoWritesAvatars ==
  [ Join          |-> Id(<<Str("name"), Str("team"), U8("char")>>
                         \o At(<<List("marker", <<Str("marker")>>)>>)),
    Leave         |-> Id(<<>>),
    UpdatePlayers |-> <<List("players", Moved)>>,
    UpdatePlayer  |-> Moved ]

GoWritesActs ==
  [ Attack   |-> Id(<<U64("target")>>),
    LoggedIn |-> Id(At(<<Str("name"), Str("team")>>)),
    Frame    |-> <<>>,
    Die      |-> Id(<<>>),
    Equip    |-> Id(<<U8("item")>>),
    Damage   |-> Id(<<F64("amount"), U64("from")>>),
    Item     |-> Id(<<U64("item")>>),
    Fish     |-> Id(<<>>) ]

Building == <<U64("bldid")>> \o At(<<F64("rotation"), Str("data")>>)

GoWritesTalk ==
  [ Solo    |-> Id(<<>>),
    TryFlag |-> Id(<<Str("flag")>>),
    Flag    |-> Id(<<Str("flag")>>),
    Chat    |-> Id(<<U64("whisper"), Str("msg")>>),
    Bld     |-> Id(Building),
    Blds    |-> Id(<<Data("buildings", Building)>>) ]

GoWritesQuests ==
  [ Spawn      |-> Id(<<U64("typ")>> \o At(<<>>)),
    Target     |-> Id(At(<<>>)),
    SpawnChest |-> Id(<<Str("chest")>> \o At(<<>>)),
    Mark       |-> Id(<<Str("mark")>>),
    Conch      |-> Id(<<F64("distance")>>) ]

GoWritesRest ==
  [ Interact   |-> Id(<<U64("target")>>),
    TogglePVP  |-> Id(<<>>),
    Account    |-> <<U8("char")>>,
    ChangeArea |-> Id(<<U8("area")>>) ]

GoWrites == With(With(GoWritesAvatars, GoWritesActs),
                 With(GoWritesTalk, With(GoWritesQuests, GoWritesRest)))

-----------------------------------------------------------------------------
(* What the main server reads *)

\* ReadServerMessage, from the game server; also used by the test clients
GoReadsAvatars ==
  [ LoggedIn     |-> Id(At(<<Str("name"), Str("team")>>)),
    Join         |-> Id(<<Str("name"), Str("team"), U8("char")>>
                        \o At(<<List("marker", <<Str("marker")>>)>>)),
    UpdatePlayer |-> Id(At(<<F64("rotation"), F64("health"), U8("weapon")>>)) ]

\* Mutant: Damage reads the attacker before the amount.
GoReadsSwapped ==
  [ UpdatePlayers |-> <<List("players", GoReadsAvatars.UpdatePlayer)>>,
    Leave  |-> Id(<<>>),
    Frame  |-> <<>>,
    Die    |-> Id(<<>>),
    Equip  |-> Id(<<U8("item")>>),
    Attack |-> Id(<<U64("target")>>),
    Item   |-> Id(<<U64("item")>>),
    Damage |-> Id(<<U64("from"), F64("amount")>>) ]

GoReadsActs ==
  [ UpdatePlayers |-> <<List("players", GoReadsAvatars.UpdatePlayer)>>,
    Leave  |-> Id(<<>>),
    Frame  |-> <<>>,
    Die    |-> Id(<<>>),
    Equip  |-> Id(<<U8("item")>>),
    Attack |-> Id(<<U64("target")>>),
    Item   |-> Id(<<U64("item")>>),
    Damage |-> Id(<<F64("amount"), U64("from")>>) ]

\* Mutant: Solo has no case.
GoReadsNoSolo ==
  [ Chat       |-> Id(<<U64("whisper"), Str("msg")>>),
    Flag       |-> Id(<<Str("flag")>>),
    Spawn      |-> Id(<<U64("typ")>> \o At(<<>>)),
    Target     |-> Id(At(<<>>)),
    SpawnChest |-> Id(<<Str("chest")>> \o At(<<>>)),
    Mark       |-> Id(<<Str("mark")>>) ]

GoReadsQuests ==
  [ Solo       |-> Id(<<>>),
    Chat       |-> Id(<<U64("whisper"), Str("msg")>>),
    Flag       |-> Id(<<Str("flag")>>),
    Spawn      |-> Id(<<U64("typ")>> \o At(<<>>)),
    Target     |-> Id(At(<<>>)),
    SpawnChest |-> Id(<<Str("chest")>> \o At(<<>>)),
    Mark       |-> Id(<<Str("mark")>>) ]

GoReadsRest ==
  [ Conch      |-> Id(<<F64("distance")>>),
    Blds       |-> Id(<<Data("buildings",
                   <<U64("bldid")>> \o At(<<F64("rotation"), Str("data")>>))>>),
    Account    |-> <<U8("char")>>,
    ChangeArea |-> Id(<<U8("area")>>) ]

GoReads == With(With(GoReadsAvatars, GoReadsActs), With(GoReadsQuests, GoReadsRest))

\* Player.readMsg, from the client
PlayerReads ==
  [ Join         |-> <<U8("char")>>,
    UpdatePlayer |-> At(<<F64("rotation")>>),
    Attack       |-> <<U64("target")>>,
    Equip        |-> <<U8("item")>>,
    Fish         |-> <<>>,
    TryFlag      |-> <<Str("flag")>>,
    Chat         |-> <<U64("whisper"), Str("msg")>> ]
PlayerReadsRest ==
  [ BldPlace  |-> <<U64("bldid")>> \o At(<<F64("rotation"), Str("data")>>),
    Auth      |-> <<Str("user"), Str("pw")>>,
    Interact  |-> <<U64("target")>>,
    TogglePVP |-> <<>>,
    Ping      |-> <<>> ]

-----------------------------------------------------------------------------
(* The game server *)

\* Mutant: the weapon is not read.
ServerMovedUnarmed == Id(At(<<F64(Ignored), F64(Ignored)>>))

ServerMoved == Id(At(<<F64(Ignored), F64(Ignored), U8(Ignored)>>))

ServerReads ==
  [ UpdatePlayer  |-> ServerMoved,
    UpdatePlayers |-> <<List("players", ServerMoved)>>,
    Join          |-> Id(<<Str("name"), Str("team"), U8("char")>>
                         \o At(<<List("marker", <<Str("marker")>>)>>)),
    Leave     |-> Id(<<>>),
    Attack    |-> Id(<<U64("target")>>),
    Equip     |-> Id(<<U8("item")>>),
    Fish      |-> Id(<<>>),
    TryFlag   |-> Id(<<Str("flag")>>),
    Chat      |-> Id(<<U64("whisper"), Str("msg")>>),
    Bld       |-> Id(<<U64("bldid")>> \o At(<<F64("rotation"), Str("data")>>)),
    Interact  |-> Id(<<U64("target")>>),
    TogglePVP |-> Id(<<>>) ]

ServerWrites ==
  [ Frame  |-> <<>>,
    Die    |-> Id(<<>>),
    Attack |-> Id(<<U64("target")>>),
    Spawn  |-> Id(<<U64("typ")>> \o At(<<>>)),
    Target |-> Id(At(<<>>)),
    Equip  |-> Id(<<U8("item")>>),
    Damage |-> Id(<<F64("amount"), U64("from")>>),
    Flag   |-> Id(<<Str("flag")>>),
    Solo   |-> Id(<<>>),
    Chat   |-> Id(<<U64("whisper"), Str("msg")>>) ]
ServerWritesQuests ==
  [ Mark       |-> Id(<<Str("mark")>>),
    SpawnChest |-> Id(<<Str("chest")>> \o At(<<>>)),
    Conch      |-> Id(<<F64("distance")>>),
    Item       |-> Id(<<U64("item")>>),
    Blds       |-> Id(<<Data("buildings",
                   <<U64("bldid")>> \o At(<<F64("rotation"), Str("data")>>))>>),
    ChangeArea |-> Id(<<U8("area")>>) ]

-----------------------------------------------------------------------------
(* The game client *)

ClientReads ==
  [ LoggedIn      |-> Id(At(<<Str("name"), Str("team")>>)),
    UpdatePlayer  |-> Moved,
    UpdatePlayers |-> <<List("players",
                        Id(At(<<F64("rotation"), F64("health"), U8("weapon")>>)))>>,
    Join          |-> Id(<<Str("name"), Str("team"), U8("char")>>
                         \o At(<<List("marker", <<Str("marker")>>)>>)),
    Leave  |-> Id(<<>>),
    Attack |-> Id(<<U64("target")>>),
    Equip  |-> Id(<<U8("item")>>),
    Die    |-> Id(<<>>),
    Damage |-> Id(<<F64("amount"), U64("from")>>) ]
ClientReadsQuests ==
  [ Item       |-> Id(<<U64("item")>>),
    Flag       |-> Id(<<Str("flag")>>),
    Chat       |-> Id(<<U64("whisper"), Str("msg")>>),
    Spawn      |-> Id(<<U64("typ")>> \o At(<<>>)),
    Target     |-> Id(At(<<>>)),
    SpawnChest |-> Id(<<Str("chest")>> \o At(<<>>)),
    Mark       |-> Id(<<Str("mark")>>),
    Conch      |-> Id(<<F64("distance")>>),
    \* the bytes are kept as they are and taken apart in _buildings
    Blds       |-> Id(<<Data("buildings",
                   <<U64("bldid")>> \o At(<<F64("rotation"), Str("data")>>))>>),
    Account    |-> <<U8("char")>> ]

ClientWritesLogin ==
  [ Auth         |-> <<Str("user"), Str("pw")>>,
    Join         |-> <<U8("char")>> ]
ClientWrites ==
  [ UpdatePlayer |-> At(<<F64("rotation")>>),
    Equip        |-> <<U8("item")>>,
    Attack       |-> <<U64("target")>>,
    Fish         |-> <<>>,
    TryFlag      |-> <<Str("flag")>>,
    Chat         |-> <<U64("whisper"), Str("msg")>>,
    Interact     |-> <<U64("target")>>,
    BldPlace     |-> <<U64("bldid")>> \o At(<<F64("rotation"), Empty("data")>>),
    TogglePVP    |-> <<>>,
    Ping         |-> <<>> ]
=============================================================================
