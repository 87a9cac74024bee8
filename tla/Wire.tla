-------------------------------- MODULE Wire --------------------------------
(***************************************************************************)
(* A message on its way over two connections: from the client through the  *)
(* main server to the game server (route "in"), or from the game server    *)
(* through the main server to a client (route "out").  A connection is a   *)
(* stream of bytes without borders: a Read returns what has arrived, which *)
(* may end anywhere, and the connection may break at any byte.             *)
(*                                                                         *)
(* A cell is a value of one byte or of eight.  The readers wait for all    *)
(* bytes of a value of fixed width (binary.Read, socket.get_u64); only the *)
(* strings and the data of the main server are read by Read itself.        *)
(*                                                                         *)
(* Every connection has one writer at a time, which writes whole messages: *)
(* the writePump of the main server, the main thread of the two games.     *)
(***************************************************************************)
EXTENDS WireFormat, FiniteSetsExt

CONSTANTS
  Texts,    \* the strings that are sent, as sequences of bytes
  Counts,   \* the lengths of the lists and data that are sent
  MaxSent   \* bound: messages that the source sends and the main server adds

ASSUME BoundsAssumption ==
  /\ \A s \in Texts : s \in Seq(Nat \ {0})
  /\ Counts \subseteq Nat /\ MaxSent \in Nat

VARIABLES
  route,   \* "in" or "out"
  reader,  \* the code that reads each of the two connections
  wire,    \* the cells written and not read, per connection
  owed,    \* history: the messages written and not read, per connection
  rd,      \* what each reader has read of its message
  closed,  \* why a connection has been closed, "no" for an open one
  skew,    \* has a reader met a cell of another width, or an unknown command
  over,    \* history: was a length sent that its byte cannot hold
  sent     \* how many of them

vars == <<route, reader, wire, owed, rd, closed, skew, over, sent>>

Hop == {1, 2}

-----------------------------------------------------------------------------
(* Writing *)

Cell(w, v, n) == [w |-> w, v |-> v, n |-> n]
Wide == {"u64", "f64"}
Bytes(cells) == Len(cells) + 7 * Cardinality({i \in DOMAIN cells : cells[i].w = 8})
Times(n, s) == FlattenSeq([i \in 1..n |-> s])

\* writeUint8, writeUint64, writeFloat64, writeString; put_u8, put_u64, ...
Plain(f, s) ==
  CASE f.k = "u8"    -> <<Cell(1, f.f, 0)>>
    [] f.k \in Wide  -> <<Cell(8, f.f, 0)>>
    [] f.k = "empty" -> <<Cell(1, f.f, 0)>>
    [] f.k = "str"   -> <<Cell(1, f.f, Len(s) % Byte)>>
                          \o [i \in 1..Len(s) |-> Cell(1, "byte", s[i])]

Entry(f, s) == FlattenSeq([i \in DOMAIN f.of |-> Plain(f.of[i], s)])

ListCells(f, s, c) == <<Cell(1, f.f, c % Byte)>> \o Times(c, Entry(f, s))

DataCells(f, s, c) ==
  LET blob == Times(c, Entry(f, s)) IN <<Cell(8, f.f, Bytes(blob))>> \o blob

CellsOf(f, s, c) == CASE f.k = "list" -> ListCells(f, s, c)
                      [] f.k = "data" -> DataCells(f, s, c)
                      [] OTHER        -> Plain(f, s)

\* the kinds of the fields of a message, entries included
Kinds(layout) == {f.k : f \in Range(layout) \cup UNION {Range(g.of) : g \in Range(layout)}}

Writes == [in  |-> <<With(ClientWritesLogin, ClientWrites), GoWrites>>,
           out |-> <<With(ServerWrites, ServerWritesQuests), GoWrites>>]

\* a message: its strings are s, its list has c entries
Message(table, cmds) ==
  { m \in [cmd : cmds, s : Texts, c : Counts] :
      /\ "str" \notin Kinds(table[m.cmd]) => m.s = <<>>
      /\ Kinds(table[m.cmd]) \cap {"list", "data"} = {} => m.c = 0 }

\* do its lengths fit the byte they are written to
Fits(m, layout) == /\ "str"  \in Kinds(layout) => Len(m.s) < Byte
                   /\ "list" \in Kinds(layout) => m.c < Byte

Encoded(m, layout) ==
  <<Cell(1, m.cmd, 0)>>
    \o FlattenSeq([i \in DOMAIN layout |-> CellsOf(layout[i], m.s, m.c)])

\* the main server and the two games append to an open connection
Put(h, m) == wire' = [wire EXCEPT ![h] = @ \o Encoded(m, Writes[route][h][m.cmd])]
Overflows(h, m) == over' = [over EXCEPT ![h] = @ \/ ~Fits(m, Writes[route][h][m.cmd])]

-----------------------------------------------------------------------------
(* Types *)

Reads == [readMsg           |-> With(PlayerReads, PlayerReadsRest),
          server2           |-> ServerReads,
          ReadServerMessage |-> GoReads,
          client2           |-> With(ClientReads, ClientReadsQuests)]
Goes  == {"readMsg", "ReadServerMessage"}   \* the readers of shared.go

NoText == [len |-> 0, cells |-> <<>>]
Rest   == [cmd |-> "", todo |-> <<>>, got |-> <<>>, txt |-> NoText, reading |-> FALSE]
Greeting == [Rest EXCEPT !.cmd = "pirates!"]

TypeOK ==
  /\ route \in {"in", "out"}
  /\ reader \in [Hop -> DOMAIN Reads]
  /\ sent \in 0..MaxSent
  /\ closed \in [Hop -> {"no", "broken", "handshake", "long", "unknown"}]
  /\ skew \in [Hop -> BOOLEAN] /\ over \in [Hop -> BOOLEAN]
  /\ \A h \in Hop :
       /\ \A i \in DOMAIN wire[h] : wire[h][i].w \in {1, 8} /\ wire[h][i].n \in Nat
       /\ \A i \in DOMAIN owed[h] : owed[h][i].cmd \in DOMAIN Writes[route][h]
       /\ rd[h].cmd \in DOMAIN Reads[reader[h]] \cup {"", "pirates!"}
       /\ rd[h].reading => rd[h].todo # <<>>

Init ==
  /\ \/ /\ route = "in"
        /\ reader = <<"readMsg", "server2">>
        /\ rd = <<Greeting, Rest>>
     \/ /\ route = "out"
        /\ \E client \in {"client2", "ReadServerMessage"} :
             reader = <<"ReadServerMessage", client>>
        /\ rd = <<Rest, Rest>>
  /\ wire = <<<<>>, <<>>>> /\ owed = <<<<>>, <<>>>>
  /\ closed = <<"no", "no">> /\ skew = <<FALSE, FALSE>> /\ over = <<FALSE, FALSE>>
  /\ sent = 0

Takes(h) == sent < MaxSent /\ closed[h] = "no" /\ ~over[h]

Send(h, m) ==
  /\ sent' = sent + 1
  /\ Put(h, m) /\ Overflows(h, m)
  /\ owed' = [owed EXCEPT ![h] = Append(@, m)]
  /\ UNCHANGED <<route, reader, rd, closed, skew>>

Sources == [r \in DOMAIN Writes |-> Message(Writes[r][1], DOMAIN Writes[r][1])]

\* the client or the game server sends
Source == Takes(1) /\ \E m \in Sources[route] : Send(1, m)

\* what the main server sends that is not forwarded: AddPlayer, RemovePlayer,
\* the updates, the log in, the buildings and items of a player that joins
Owned == [in  |-> {"Join", "Leave", "UpdatePlayers", "Bld", "Chat"},
          out |-> {"Account", "LoggedIn", "Item", "Join", "Leave", "Equip",
                   "Spawn", "Target", "UpdatePlayers"}]

Owns == [r \in DOMAIN Owned |-> Message(GoWrites, Owned[r])]

Own == Takes(2) /\ \E m \in Owns[route] : Send(2, m)

-----------------------------------------------------------------------------
(* Reading *)

Width(f) == IF f.k \in Wide \cup {"data"} THEN 8 ELSE 1
Open(h)  == closed[h] = "no" /\ ~skew[h]

\* the field that is next, when its first value has arrived
Next1(h, kinds) ==
  /\ Open(h) /\ ~rd[h].reading
  /\ rd[h].todo # <<>> /\ Head(rd[h].todo).k \in kinds
  /\ wire[h] # <<>>

Whole(h, kinds) == Next1(h, kinds) /\ Head(wire[h]).w = Width(Head(rd[h].todo))

\* a field as it was read: into what, what it was, string or number of entries,
\* did its first Read return less than all
Got(as, is, s, n, cut) == [as |-> as, is |-> is, s |-> s, n |-> n, cut |-> cut]

\* Mutant: the reader is not put back to fields after a string.
KeepReading(h, todo, g) ==
  rd' = [rd EXCEPT ![h].todo = todo, ![h].got = Append(@, g), ![h].txt = NoText]

Keep(h, todo, g) ==
  rd' = [rd EXCEPT ![h].todo = todo, ![h].got = Append(@, g),
                   ![h].txt = NoText, ![h].reading = FALSE]

Drop(h, k) == wire' = [wire EXCEPT ![h] = SubSeq(@, k + 1, Len(@))]

wireOnly == <<route, reader, owed, over, sent>>

\* HandlePlayerConn reads the greeting with one Read, which must return all of it
Handshake ==
  /\ rd[1].cmd = "pirates!" /\ closed[1] = "no"
  /\ \/ rd' = [rd EXCEPT ![1] = Rest] /\ UNCHANGED closed
     \/ closed' = [closed EXCEPT ![1] = "handshake"] /\ UNCHANGED rd
  /\ UNCHANGED <<wire, skew>> /\ UNCHANGED wireOnly

\* the byte of a message's kind; the games print an unknown one and go on
ReadCmd(h) ==
  /\ Open(h) /\ rd[h].cmd = "" /\ wire[h] # <<>>
  /\ LET cmd == Head(wire[h]).v
         known == cmd \in DOMAIN Reads[reader[h]]
     IN /\ rd' = IF known THEN [rd EXCEPT ![h].cmd = cmd,
                                          ![h].todo = Reads[reader[h]][cmd]]
                 ELSE rd
        /\ skew' = [skew EXCEPT ![h] = ~known]
        /\ closed' = IF known \/ reader[h] \notin Goes THEN closed
                     ELSE [closed EXCEPT ![h] = "unknown"]
  /\ Drop(h, 1)
  /\ UNCHANGED wireOnly

\* readUint8, readUint64, readFloat64
ReadFixed(h) ==
  /\ Whole(h, {"u8"} \cup Wide)
  /\ Keep(h, Tail(rd[h].todo), Got(Head(rd[h].todo).f, Head(wire[h]).v, <<>>, 0, FALSE))
  /\ Drop(h, 1)
  /\ UNCHANGED <<closed, skew>> /\ UNCHANGED wireOnly

\* the number of entries, and then so many
ReadCount(h) ==
  /\ Whole(h, {"list"})
  /\ LET f == Head(rd[h].todo)
         c == Head(wire[h])
     IN Keep(h, Times(c.n, f.of) \o Tail(rd[h].todo), Got(f.f, c.v, <<>>, c.n, FALSE))
  /\ Drop(h, 1)
  /\ UNCHANGED <<closed, skew>> /\ UNCHANGED wireOnly

\* the length of a string or of data; readData refuses a large one
ReadLength(h) ==
  /\ Whole(h, {"str", "data"})
  /\ LET f == Head(rd[h].todo)
         c == Head(wire[h])
         long == f.k = "data" /\ reader[h] \in Goes /\ c.n > DataLimit
     IN /\ closed' = IF long THEN [closed EXCEPT ![h] = "long"] ELSE closed
        /\ rd' = IF long THEN rd
                 ELSE [rd EXCEPT ![h].txt = [len |-> c.n, cells |-> <<>>],
                                 ![h].reading = TRUE]
  /\ Drop(h, 1)
  /\ UNCHANGED skew /\ UNCHANGED wireOnly

\* what string(buf[:length]) is, when cells have been read by the first Read:
\* the bytes read one by one after it are appended behind the zeros
TextOf(cells, len) == [i \in 1..len |-> IF i <= Len(cells) THEN cells[i].n ELSE 0]

\* how many buildings the loop over the data finds: a building is five values and
\* a string, and after the bytes of the first Read there are only zeros; it ends at
\* a building that has less bytes than it should
Found(cells, len) ==
  LET text  == IF Len(cells) >= 6 THEN cells[6].n ELSE 0
      full  == Len(cells) \div (6 + text)
      begun == IF Len(cells) % (6 + text) >= 6 THEN 1 ELSE 0
      left  == len - (full + begun) * (41 + text)
  IN IF left < 0 THEN full ELSE full + begun + left \div 41

Finish(h, cells, cut) ==
  LET f == Head(rd[h].todo)
      len == rd[h].txt.len
  IN Keep(h, Tail(rd[h].todo),
          IF f.k = "str" THEN Got(f.f, f.f, TextOf(cells, len), 0, cut)
          ELSE Got(f.f, f.f, <<>>, Found(cells, len), cut))

\* the first Read of readString and readData returns what has arrived; the
\* games wait for all bytes
ReadFirst(h) ==
  /\ Open(h) /\ rd[h].reading /\ rd[h].txt.cells = <<>>
  /\ \E k \in 0..Len(wire[h]) :
       LET cells == SubSeq(wire[h], 1, k)
           len   == rd[h].txt.len
       IN /\ Bytes(cells) <= len
          /\ IF Bytes(cells) = len THEN Finish(h, cells, FALSE)
             ELSE /\ k > 0 /\ reader[h] \in Goes
                  /\ rd' = [rd EXCEPT ![h].txt.cells = cells]
          /\ Drop(h, k)
  /\ UNCHANGED <<closed, skew>> /\ UNCHANGED wireOnly

\* Mutant: the loop ends when more than length bytes have been read.
ReadRestMore(h) ==
  /\ Open(h) /\ rd[h].reading /\ rd[h].txt.cells # <<>>
  /\ \E k \in 1..Len(wire[h]) :
       /\ Bytes(rd[h].txt.cells) + Bytes(SubSeq(wire[h], 1, k)) = rd[h].txt.len + 1
       /\ Finish(h, rd[h].txt.cells, TRUE)
       /\ Drop(h, k)
  /\ UNCHANGED <<closed, skew>> /\ UNCHANGED wireOnly

\* the loop reads the rest byte by byte
ReadRest(h) ==
  /\ Open(h) /\ rd[h].reading /\ rd[h].txt.cells # <<>>
  /\ \E k \in 1..Len(wire[h]) :
       /\ Bytes(rd[h].txt.cells) + Bytes(SubSeq(wire[h], 1, k)) = rd[h].txt.len
       /\ Finish(h, rd[h].txt.cells, TRUE)
       /\ Drop(h, k)
  /\ UNCHANGED <<closed, skew>> /\ UNCHANGED wireOnly

\* the next cell is of another width than the field: what follows is not modelled
Skew(h) ==
  /\ Next1(h, {"u8", "str", "list", "data"} \cup Wide)
  /\ Head(wire[h]).w # Width(Head(rd[h].todo))
  /\ skew' = [skew EXCEPT ![h] = TRUE]
  /\ UNCHANGED <<wire, rd, closed>> /\ UNCHANGED wireOnly

\* what the handler of each message sends on
Relay ==
  [ in  |-> [Attack |-> "Attack", Equip |-> "Equip", Fish |-> "Fish",
             TryFlag |-> "TryFlag", Chat |-> "Chat", BldPlace |-> "Bld",
             Interact |-> "Interact", TogglePVP |-> "TogglePVP"],
    out |-> [m \in {"Leave", "Join", "Attack", "Damage", "Equip", "Item", "Flag",
                    "SpawnChest", "Mark", "Conch", "Chat", "Spawn", "Target",
                    "Die", "Blds"} |-> m] ]

\* a message as the main server writes it again: the string it has read, as many
\* buildings as it has found, and these without their data
Again(r) ==
  LET texts == {g.s : g \in Range(r.got)} \ {<<>>}
      found == {g.n : g \in Range(r.got)} \ {0}
  IN [cmd |-> Relay[route][r.cmd],
      s   |-> IF texts = {} THEN <<>> ELSE CHOOSE s \in texts : TRUE,
      c   |-> IF found = {} THEN 0 ELSE CHOOSE n \in found : TRUE]

\* the messages behind the oldest
Later(q) == SubSeq(q, 2, Len(q))

Read1(h) == Open(h) /\ rd[h].cmd \notin {"", "pirates!"} /\ rd[h].todo = <<>>

\* the message is complete and its handler runs; it may send nothing: a player
\* that is not there, a solo shard, a whisper
Handled(h) ==
  /\ Read1(h)
  /\ rd' = [rd EXCEPT ![h] = Rest]
  /\ owed' = [owed EXCEPT ![h] = Later(@)]
  /\ UNCHANGED <<wire, over>>
  /\ UNCHANGED <<route, reader, closed, skew, sent>>

Forward ==
  /\ Read1(1) /\ rd[1].cmd \in DOMAIN Relay[route]
  /\ closed[2] = "no" /\ ~over[2]
  /\ LET m == Again(rd[1])
     IN /\ Put(2, m) /\ Overflows(2, m)
        /\ owed' = [owed EXCEPT ![1] = Later(@), ![2] = Append(@, m)]
  /\ rd' = [rd EXCEPT ![1] = Rest]
  /\ UNCHANGED <<route, reader, closed, skew, sent>>

\* the connection breaks: what its reader has not handled is lost
Break(h) ==
  /\ closed[h] = "no"
  /\ closed' = [closed EXCEPT ![h] = "broken"]
  /\ wire'   = [wire EXCEPT ![h] = <<>>]
  /\ owed'   = [owed EXCEPT ![h] = <<>>]
  /\ rd'     = [rd EXCEPT ![h] = Rest]
  /\ UNCHANGED <<route, reader, skew, over, sent>>

Reading(h) ==
  \/ ReadCmd(h) \/ ReadFixed(h) \/ ReadCount(h) \/ ReadLength(h)
  \/ ReadFirst(h) \/ ReadRest(h) \/ Skew(h) \/ Handled(h)

Next ==
  \/ Source \/ Own \/ Handshake \/ Forward
  \/ \E h \in Hop : Reading(h) \/ Break(h)

Spec == Init /\ [][Next]_vars

\* the readers are loops that wait for nothing but the connection
Fairness == WF_vars(Handshake) /\ \A h \in Hop : WF_vars(Reading(h))
FairSpec == Spec /\ Fairness

-----------------------------------------------------------------------------
(* Properties *)

\* Writer and reader agree on where each message begins and on the width of each
\* of its fields, however the stream is cut into Reads, as long as no string or
\* list is longer than its length byte can say: a reader never takes a byte of
\* a message for another message's kind, and knows every kind that it is sent.
InStep == \A h \in Hop : skew[h] => over[h]

\* a string that came in two Reads has its length, the bytes of the first, and
\* zeros; any other string is the one sent
SameText(g, s) ==
  IF g.cut THEN /\ Len(g.s) = Len(s)
                /\ \E k \in 1..Len(s) - 1 :
                     \A i \in DOMAIN s : g.s[i] = IF i <= k THEN s[i] ELSE 0
  ELSE g.s = s

\* The message that is being read is the oldest one written, each value goes to
\* the field it was written from, lists and data have as many entries, and of
\* data that came in two Reads no building is lost, only blank ones added.
Faithful ==
  \A h \in Hop : ~over[h] /\ rd[h].cmd \notin {"", "pirates!"} =>
    /\ owed[h] # <<>> /\ rd[h].cmd = Head(owed[h]).cmd
    /\ \A i \in DOMAIN rd[h].got :
         LET g == rd[h].got[i]
             m == Head(owed[h])
         IN /\ g.as \in {g.is, Ignored}
            /\ g.s # <<>> => SameText(g, m.s)
            /\ g.n # 0 => IF g.cut THEN g.n >= m.c ELSE g.n = m.c

\* The main server closes a connection of its own accord only for a greeting that
\* came in two Reads or for data above the limit of readData.
ClosedForCause ==
  \A h \in Hop :
    /\ closed[h] = "unknown" => over[h]
    /\ closed[h] = "handshake" => h = 1 /\ route = "in"
    /\ closed[h] = "long" =>
         \/ over[h]
         \/ owed[h] # <<>> /\ \E i \in DOMAIN rd[h].todo : rd[h].todo[i].k = "data"

\* Every message that is written is read to its end, unless the connection closes
\* or a length has not fitted: no reader waits for bytes nobody will send.
Delivered ==
  \A h \in Hop : owed[h] # <<>> ~> owed[h] = <<>> \/ closed[h] # "no" \/ over[h]
=============================================================================
