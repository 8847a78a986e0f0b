# Verification of the v95 server

TLA+ models of the core logic of this game server, TLC configurations that check
them on small instances, and theorems about them that the TLA+ proof system has
checked for every value of the constants. All paths are relative to the
repository; Java code is under `src/src/`, written below without that prefix.

Contents: 1 the system and its parts · 2 the modules and the code · 3 the runs ·
4 fairness · 5 the proofs · 6 disagreements found · 7 what is not modelled ·
8 the plan and what is left of it.

## 1. The system and its parts

The server is four kinds of Java process that call each other over RMI and share
one MySQL database:

    game client <--TCP--> login server ----+
                                           |  RMI
    game client <--TCP--> channel server --+--> world server --> center server
                                \                 |
                                 +---- MySQL -----+

A channel server is where the game is played. What runs concurrently in it:

- Netty gives each connection an *event loop*. The handlers of one client run one
  after the other on it; those of different clients run at the same time.
- `TimerManager` has four threads: expirations, buffs, the closing of shops,
  delayed respawns of reactors, the reactions of reactors to drops, and whatever
  the scripts of events schedule.
- One *update thread* runs `MapleMap.update` of every map every 100 ms: drops
  expire (looked at every 5 s), poison and cooldowns, mists, respawn (every 10 s).
- RMI calls of the world server arrive on threads of their own.

Most shared objects have no lock. Those there are: the monitor of a `MapleMapItem`
(players) and its `itemLock` (update thread, reactors), `MapleMonster.monsterLock`,
the mutex in `MaplePacketEncoder`, a lock in `finishLogin`, in `ItemFactory`,
`PlayerBuffStorage`, in the registers of guilds and alliances, and around the
list of a `HiredMerchant`. The objects on a map are a `ConcurrentHashMap`: its
iterations see some of the changes made meanwhile.

Much of the program is not Java: `src/scripts/` holds 2084 JavaScript files, one for
each npc, quest, portal, event and reactor, which the channel server runs. A script
of an npc or a quest is loaded into an engine of its own for each client and keeps a
counter between the player's answers; a script of an event is loaded once per channel
and schedules itself.

| component | state | operations | what is hard | what makes it correct |
|---|---|---|---|---|
| Equipment (`MapleInventoryManipulator`, `MapleInventory`, `EquipSlot`) | bag, body, each item's own `position`, slot limit | equip with a nested unequip, unequip, move, drop, pick up, sort, scroll, more slots | order of requests, a full bag, two fields that must agree | no item in two places, none lost but in named ways; no overall with pants; position = slot |
| Stackable items (same classes) | slots of id, quantity, expiration | `hasRoom`, `addFromDrop`, three removals, move, drop, sort | arithmetic over several stacks, one call's promise kept by another | what is held is what was given; `hasRoom` is right |
| Drops (`SendDropPickUpRequest`, `MapleMapItem`, `MapleMap.update`, `ItemAction`) | map objects, `pickedUp`, owner, age | pick up, expire, consumed by a reactor | two locks that exclude nothing, several threads | given away once; the monitors never circle |
| Connection (`MaplePacketEncoder`, `MaplePacketDecoder`, `MapleServerHandler`, `MapleClient.announce`) | client attribute, IVs, task queue, decoder state | hello, announce, encode, decode fragments, disconnect | threads, fragments, the end of a session | both ends' IVs in step; FIFO per sender |
| Cipher (`MapleAESOFB`, `MapleCustomEncryption`) | IV | encrypt, decrypt, header | bytes that wrap | decryption undoes encryption |
| Monsters (`MapleMonster`, `MapleMap`, `SpawnPoint`, `UseCatchItemHandler`) | hp, `monsterLock`, counters of map and points | attack, kill, poison, heal, catch, respawn | check and act on two sides of an unlock; counters changed apart from the map | killed once; a map refills and never overfills |
| Timetabled rides (`EventManager`, `scripts/event/Boats.js` and five more, their ushers and pursers) | timers, gate, tasks under way, where everybody is | board, wait, leave, walk on deck, log off and on; close the gate, take off, arrive; load the scripts anew | timers that re-arm each other, a copied list of people who move, a conversation that outlives its question | the ride goes on, on time, with everybody, to the right place |
| Rooms for one guest (`EventInstanceManager`, eight scripts and their portals) | gate, stays, each player's stay | ask, set up, register, enter, leave, die, time out, be disconnected | three threads in the same hooks, none with a lock | one guest; shut while he is in; open again after |
| Conversations (`QuestScriptManager`, `NPCScriptManager`, `SendNPCMoreTalk`, 1039 scripts) | registration, engine with its counter, page, quest's state | click, answer, go back, refuse, hang up, forfeit, start again | a counter that any answer moves, exceptions between two effects, an engine kept by accident | paid once; even exchanges; always answered; comes to an end |
| Sessions (`MapleClient`, `MigrateInHandler`, `CharSelectedHandler`) | `accounts.loggedin`, its copies, flags | login, transition, migrate, disconnect | several processes and one column; crash of a channel | one session per account |
| Trades (`MapleTrade`) | two trade objects, offers, meso, `locked` | invite, offer, confirm, cancel | two threads, no lock; exchange may not fit | items change hands once or go back |
| Players' shops (`MaplePlayerShop`, `HiredMerchant`) | listing, bundles, earnings | list, buy, take back, close, forced close | buyers, owner and timer; persistence | what is sold is paid and no longer there |
| Guilds, alliances (`MapleGuild`, `MapleAlliance`) | members, capacity, ranks (world server) | join, leave, expel, disband | copies in the channels | capacity; one guild per player |
| Storage (`MapleStorage`, `SendTrunkDlgRequest`) | slots, meso | store, take out, meso | fee and failure | conserved together with the bag |
| Mini games (`MapleMiniGame`) | board, turn, points | moves, five in a row, resign | one array for two dimensions | a winner has five in a row |
| Parties, messengers (`MapleParty`, `MapleMessenger`, `WorldServer`) | members; copies by value at every caller | join, leave, expel, log on, log off | copies that are old | one party per player |
| Buddies, families | lists, pending requests | request, accept, delete | two channels and the database | symmetric friendships |
| Events, expeditions, party quests | players, monsters, timers | register, kill, time out | scripts; timers racing players | everyone leaves when it ends |
| Characters, buffs, stats | eight thousand lines of attributes | level, damage, buffs | effects cancelled by timers and handlers | a buff ends once |
| Quests' requirements, reactors, cash shop, npc shops | tables and small states | start, complete, hit, buy | — | requirements and rewards |
| Processes (`CenterServer`, `LoginServer`, `ChannelServer`) | registers of each other | register, reconnect, shut down | a process that dies | the registers agree |
| Timers, database | thread and connection pools | schedule, borrow | exhaustion | — |
| Other scripts, packet formats, commands, game data | scripts of portals, maps, reactors; tables | — | — | content and formatting |

Interactions that matter: a handler decodes a packet (connection), changes the
inventory of its own player (equipment, stacks) and objects on the map that others
see (drops, monsters, shops); a killed monster becomes drops; a drop that is
picked up goes through `canHoldItem` and `addFromDrop`; a player's party, kept by
the world server, decides who may loot. A conversation gives, takes and pays through
the inventories; the usher of a ride and the pursers are conversations too, which
`Transport` models once more for what they do to the ride.

`PROJECT.json` lists the components with their files, and under `hazards` the
places where this code can go wrong in ways a test would hardly reach, each with
the properties that would show it, or with the reason why none does; section 7 has
the ones that no module reaches.

## 2. The modules and the code

Each module names the source's operations; the `map` of `PROJECT.json` gives the
lines of every definition. Definitions called *Mutant* are wrong variants of the
definition that follows them; each shows that a property can fail.

### EquipInventory — the clothes of a character

`bag` and `worn` are the EQUIP and EQUIPPED inventories as functions of their
slots (positive and negative as in the code); `position` is `Item.position`, which
the code keeps beside the key an item is stored under. A handler is one step,
because the handlers of one client are serial. `Equip` is the whole of `equip`:
the check of `EquipSlot`, the nested `unequip` of a clashing item to the next free
slot (`EquipDisplacing`, refused when the bag is full) and the exchange;
`SortItems` the whole of `SortItemHandler`: remove everything, add it back.
Requirements of level and job, mounts and the pendant are left out; a request they
refuse changes nothing. A cash item goes a hundred slots lower than its like.

Two requests that no window of the game client offers are served all the same, and
are in the model. `unequip` does not compare its destination with the slot limit, so
`Unequip` may use any slot up to `LastSlot`; a sort then takes more out of the bag than
it puts back. `drop` of a quantity of 0 takes the branch that splits a stack: the equip
stays, and a copy of quantity 0 appears on the map (`DropNone`), which can be picked up,
worn, and moved onto an equip of its id, which is then removed (`Merges`). `Originals`
are the equips of quantity 1; `made` says which copies there are. So equips *are* lost,
in the two ways `Conserved` names, and it forbids any other; copies are made, and
`OnePlace` says that an item, an original or a copy, is still in one place.

### StackInventory — USE, SETUP and ETC

`inv` is one inventory, `ledger` a history variable: what the character should own
by what each call *promises* (`PickUp` adds the quantity, `Consume` takes it, a
sort nothing). A move onto the stack's own slot, which the code does not refuse, merges
the stack with itself: it is filled to its maximum, or removed where twice its quantity
does not exceed that. The ledger is told what that makes or loses (`OwnSlotGain`), so
`LedgerAgrees` does not forbid it and is about everything else. The loops of `addFromDrop`, `removeItem` and the sort are one recursive
function, `After(body, c, order)`: the call `c` when the body has run over the first so
many stacks of an order. Where the code walks a hash map, every order is considered.
`Total` sums over the slots with the same loop. An expiration stands for everything
`softEquals` compares. `Throw` follows the code where `removeStarById` departs from its comment
(section 6).

### Drops — who picks up what lies on the map

Three kinds of thread: players (`Request`, `Enter` the monitor, `Grant`,
`ExpireOther`, `Mark`, `Remove`), the update thread (`ScanStart`, `ScanVisit`,
`ScanEnd`), a reactor (`ReactorFinds`, `ReactorTakes`, `ReactorRemoves`). A step is
what a thread does up to its next access of `pickedUp` or of the map's objects,
so that every interleaving the code allows is there. Points (NX cards) are credited
and removed *before* they are marked, as in the code. `age` has one value per
waiting time of the code (900 ms, 5 s, 10 s, expiry). `granted` is a history
variable. An inventory that fills up between `canHoldItem` and the grant is
`GiveUp`.

### PacketPipe, PacketCodec — one connection

`PacketPipe` is the abstract specification of one direction: packets of one sender
arrive whole, once, in order, and do arrive while the session lasts. `PacketCodec`
is the code: `announce` from the event loop encodes at once, from other threads it
queues a task; `Encode` makes the header from the IV and steps it; `Decode` is one
call of `MaplePacketDecoder.decode`, `Receive` a fragment of any length. A byte is
the pair of its packet and its place, an IV a counter. The game client, Netty's
queue and the network are external: the client is taken to be the mirror image of
these classes, the network to be TCP.

The refinement maps `arrived` to the packets the game client could decipher
(`shown`), in the other direction to the packets handed to the handlers
(`received`), and `lasts` to *the channel is open and its client attribute is
set or still to be set*.

### PacketCipher — the arithmetic of one packet

The six rounds of `MapleCustomEncryption` and their inverse as functions over sequences
of bytes, every sum cut to eight bits, rotations by the remaining length; the keystream
XOR and the header of `MapleAESOFB`. XOR is a table over pairs of bytes, written bit by
bit; an IV is the pair of bytes the header is made from. AES itself is the constant
`Keystream`, of which nothing is assumed but that it gives bytes. The module has no
state: `MCPacketCodec` extends both this module and `PacketCodec` and looks at the two
properties of ciphering in the connection's first state.

### MonsterLife — from spawn point to spawn point

Every access of `hp`, of `spawnedMonstersOnMap` and of a spawn point's counter is a
step: `this.hp -= rDamage` is `LoadHp` and `StoreHp`. `Attack` to `Unlock` are
`damageMonster`, `KillBy` to `Remove` are `killMonster`, which runs after
`monsterLock` is given back. `Heal`, `Catch` and the update thread's poison take no
lock, as in the code. `RespawnStart` to `RespawnEnd` are `MapleMap.respawn` with
`SpawnPoint.shouldSpawn`. A monster that has left the map and that no thread
works on stands for a new object of the program. A spawn point makes monsters of one
kind (`KindsAssumption`).

A monster is *ordinary* when only attacks bring it down. For the others —
poisoned, healed, self-destructing, caught — the lock protects nothing: the model
reaches states in which one is killed twice or has negative hp. Properties
about killing once are therefore stated for ordinary monsters, and the rest is
listed as hazards.

### TransportLines, Transport — the rides that follow the clock

`Transport` is what `Boats.js`, `Trains.js`, `Cabin.js`, `Genie.js`, `Subway.js` and
`AirPlane.js` have in common; `TransportLines` is the table in which they differ:
minutes, lounges, decks, cabins, shores, ushers and pursers. `event` is the script a
behaviour is about.

| model | code |
|---|---|
| `gen`, `Reload` | the `EventManager` in use; `Channel.reloadEventScriptManager` makes a new one and cancels the timers of the old |
| `due` | the timers `scheduleNew`, `takeoff` and `arrived` arm, in minutes |
| `entry` | the property `entry`, which the ushers look at |
| `running[g][t]` | a task on a thread of the pool: the warp it is at, the players it has copied from the map and not moved yet (`Copy`, `Carry`) |
| `talk` | a conversation that was begun and not answered: with an usher (and the manager he fetched) or with a purser |
| `bound`, `flown`, `stood`, `torn` | history: the usher who let the player in; minutes on board; who was there when the task began; a reload met a task |

A player acts between any two steps of a task: he walks from the deck, which was
copied, to the cabin, which was not, and back. Time moves when no task is due or under
way: a task is taken to last less than a minute. Of two tasks that are due together one
may begin while the other runs, in either order but for the plane's departure and
arrival: its arrival, which was scheduled first, begins before its departure, and may
run beside it. Where a
script deviates the table says so: the usher of New Leaf City keeps the manager he
fetched in `start`, the ushers of the planes do not look at the gate before they
talk, the pursers of trains and subway send a player on according to where he is when
he answers. The invasion of the boats by a balrog, announcements, the property
`docked`, tickets and fares are left out; the lifts (`elevator.js`) move no player.

### RoomScripts, EventRooms — the rooms for one guest

Eight quest rooms (`EvanDoll.js`, `DualSecret.js`, `Pottery.js`, `EvanCave.js`,
`EvanCaveAttack.js`, `EvanSafe.js`, `EvanSafeBlock.js`, `EvanRage.js`) that a portal
opens to one player at a time. The portal looks at the property `state` (`Ask`), the
script's `setup` shuts it (`Setup`), `registerPlayer` notes the guest (`Register`), the
room's hooks are run statement by statement by up to three threads: the guest's own
(`Leave`, `Revive`), the timer's (`Fire`, `Timeout`, `Emptied`), a game master's who
disconnects him (`Kick`). Nothing is locked. Steps of one thread with no access of the
shared state between them are one: `changedMap`'s `unregisterPlayer` and `dispose`, the
fetch of the map and entering it, `getPlayerCount` and `getPlayers().get(0)`.

The gate can be deceived in two ways that the properties exclude by name
(`Deceived`): two players ask before either has shut it (`together`), and two threads
end one stay, the slower of which opens the gate on the next guest (`ends = 2`). A
player whose connection ends between `setup` and `registerPlayer` leaves the gate
shut until the scripts are loaded anew (`cut`). `EvanSafeBlock` schedules a `timeout`
it does not define and `EvanDoll` schedules none, so these rooms wait for their guest
(`~Timed`). After a reload the guests of the old manager stay where they are and the new
gate is open; `OneGuest` and `GateShut` are about one manager's gate. That a guest in the
room knows his stay (the second half of `GuestsKnow`) holds until the second reload:
with three managers a late thread of the first can take a guest of the second out of the
room and into the third's.

### ScriptRows, nine tables of scripts, ScriptTalk — conversations

A script of an npc or a quest is one function that is called with the player's answer
and keeps a counter (`status`) between the calls. `ScriptRows` gives a notation for it:
`Talk(back, no, rows)`, where an answer moves the counter by one on `yes`, by `back` and
`no` on those answers, or ends the conversation (`Leave`), and a row is one outcome of a
call at a value of the counter: what is done, in order, which page is shown, whether the
script disposes. The tables write every script so: `LongQuests` and `BriefQuests` (315
quests, `start` and `end` of each; the brief ones show at most a page), `VictoriaNpcs`,
`OssyriaNpcs`, `AriantNpcs`, `WorldNpcs` and `MasteriaNpcs` (393 npcs, by region),
`Bystanders` and `FarBystanders` (331 npcs that show no page). Where a script counts
from another number or moves its counter inside a branch, the row's counter is what
decides the next call, counted so that the first page is at 0.

What a row keeps of a call is the order of its effects, by kind. Texts, amounts and
names are left out, repeated effects of one kind are one, and what decides between
rows — level, job, items, a choice, a random number — is left open, except the quest's
own state and the answer and page (`In`, `On`, `Of`). A question (`fits`, `has`,
`rich`) is written down where something is given, taken or paid because of its answer. A
call of a method that the engine or the class lacks is a row that throws.

`ScriptTalk` is the managers and handlers around the tables.

| model | code |
|---|---|
| `script` | the npc or quest this behaviour is about |
| `talk` | the registration in `qms` or `cms`, and which function it is about |
| `status` | the script's counter, in the engine kept by the client; a new engine is `Fresh` |
| `page` | the page before the player, by its buttons: `NPCConversationManager.sendNext` and the like |
| `stage` | the quest's status |
| `StartQuest`, `EndQuest`, `PlainStart`, `PlainComplete`, `Forfeit` | the cases of `QuestActionHandler` |
| `TalkToNpc`, `ClickOther` | `SendNPCTalk` |
| `Forward`, `Back`, `Refuse`, `EndChat` | `SendNPCMoreTalk`; `Hangup` is `MapleCharacter.dispose` |
| `Call` | `invokeFunction` and what the managers do with an exception: dispose, except in an npc's `start` (an npc's `action` that throws a Java exception of another kind than `ScriptException` and `NoSuchMethodException`, which `NPCScriptManager.java:151` does not catch, is not told apart) |
| `AnotherQuest` | `QuestScriptManager.start` replaces a registration without disposing of it: it asks `containsKey` for the client in a map of account numbers |
| `by`, `did`, `was` | history: the last answer, what the call did, the stage before |

A quest may be begun whenever its status allows: `canStart`, `canComplete` and the
half second between two clicks are left out. A page sent in the call that also
disposes is left out, since no answer to it reaches the script.

`ScriptWalks` takes each conversation by itself. `Walk` is the places its table leads to —
counter, page, stage of the quest — from a fresh engine, by a set of answers; `Keeps` asks
of every row taken at such a place what the rules ask, that it says something or ends
(`Speaks`), that every answer finds a row (`Finds`), and that nothing leads out of the walk
(`Closed`). `Advances` asks that the places a patient player comes to can be numbered so
that every answer leads to a smaller number (`Turns`). Nothing is in it of managers,
registrations and what went on before. `TablesAssumption` says that all tables keep and
advance, each but for the sets that name it; TLC evaluates it for the 1039 tables before
the run begins, and the theorems of section 5 rest on it.

Five sets name the scripts that are known not to keep a rule; every one is exact in
that each script in it breaks the rule:

- `GoRound` (18 npcs): a way forward leads back to an earlier page, a list that is
  offered again, a lesson, a quiz.
- `FallSilent` (34 quests, 59 npcs): some call shows no page and does not dispose.
  `npc/1002002.js` does so on the way with the VIP ticket, `quest/2017.js` always.
- `ActOnRefusal` (35): saying no, or going back, makes the script act.
  `quest/2570.js` makes a pirate of whoever declines to be one.
- `RewardMidway` (7): a reward on one page, the quest's next state on a later one.
- `UnevenTrades` (63): something is given for something taken without a look at the
  bag, meso are taken unseen, or a call throws after it has taken something.
  `npc/22000.js` takes 150 meso and throws (`DeleteMapleIsland` does not exist) before
  the ship leaves; `quest/8185.js` and `quest/8189.js` take and throw.

### MC modules

`MCEquipInventory`, `MCStackInventory`, `MCDrops`, `MCPacketCodec`, `MCMonsterLife`,
`MCTransport`, `MCEventRooms` and `MCScriptTalk` define the functions and sets the
configurations need: kinds of items, sizes of packets, homes of monsters, the lines, the
rooms, the tables put together and the five sets above. `MCPacketCodec` also states
the two properties of ciphering.

## 3. The runs

| run | instance | properties | what it shows |
|---|---|---|---|
| `equip_clothes` | pants, overall and a copy of it, two-handed weapon, shield and ring (these three not droppable); a bag of one slot, later two, both of which an unequip may name | `PositionIsSlot OnePlace Conserved NoClash SlotsFit WornRingsOn` | no order of requests puts an item in two places, loses one in another way than section 2 says, or shows two clashing ones; a worn ring is marked |
| `stacks` | potions (max 3) and stars, two expirations, three slots, requests of up to 4 | `LedgerAgrees StacksBounded HasRoomIsSound` | no call makes or loses an item but a move onto its own slot; `hasRoom` keeps its promise in every reachable inventory |
| `stars_all_taken` | the same | `StarsAllTaken`, violated | section 6 |
| `drops` | three players, a party, two drops: one thrown by a player and wanted by the reactor, one NX card; one iron man | `GrantedOnce` | a drop is given away at most once |
| `drops_served` | two players, two `onlyOnePickup` drops, an NX card | `AllServed GrantedLeaves` | no request waits for ever; what was given away leaves the map |
| `only_one_pickup` | two players, two `onlyOnePickup` drops | `OnlyOneGranted`, violated | section 6 |
| `codec` | event loop and timer with two packets each; requests with bodies of 2 and 5 bytes, every fragmentation; packets of one and two bytes over eight edge values and one of 130 bytes, four IVs | `PeerInStep NoneRejected OutboundIsPipe InboundIsPipe OpenedIsPacket HeaderTellsLength` | both directions implement `PacketPipe`; the IVs stay in step; opening undoes sealing and a header tells its length |
| `hunt` | two players, a boss and its successor at a point with a `mobTime`, a rat at an ordinary point | `KilledOnce SinglesAlone CorpseLeaves Refilled` | one kill per monster, one living boss, corpses leave, the map fills again while its updates come as far as respawn |
| `hunt_unlocked` | two players, one monster that is poisoned, healed, caught and bursts | `NeverOvercounted` | with every unlocked write the respawn counter never exceeds the monsters there |
| `rides` | one traveller on any of the six rides; scripts loaded one, four or nine minutes before a departure, and once more at any moment | `OneTimetable NoneLeftBehind BoardsInTime RideTakesItsTime LandsWhereBound LeavingGoesBack WaitersLeave RidersLand` | the timetable neither stops nor doubles; nobody boards late, lands early or elsewhere, stays behind or waits for ever |
| `rooms` | two players, one of whom may be disconnected, two stays, one reload; a room without a timer, one with, one whose timer finds no function | `OneGuest GateShut GuestsKnow Reopens` | one guest behind a shut gate, who knows his stay; the room opens again |
| `talks` | one player and any of the 1039 scripts, every answer at every page, hanging up, forfeiting, starting again | `RewardMovesTheQuest OnlyForwardActs EvenTrades AlwaysAnswered DialogEnds` | apart from the scripts named in section 2: paid in the call that moves the quest, no effect of going back, even exchanges, always answered, comes to an end |

### The bounds, and why they are enough

- *EquipInventory*: every clash of the code involves two kinds; the instance has
  an item on either side of both clashes, and a limit that is reached, so the
  nested unequip meets a full bag, a bag with one slot and a bag that was
  enlarged. One ring and its two slots make a ring that changes places. `LastSlot`, 2,
  is one slot beyond the first limit, which is what an unequip over the limit needs;
  one copy, of the overall, meets its original on the body, in the bag and on the map.
  The theorems hold for any number of slots and copies.
- *StackInventory*: three slots are two stacks of one id and one of another, or a
  full inventory with a partly filled stack; a maximum of 3 with quantities to 4
  makes a request cross a stack's boundary, start and end on it.
- *Drops*: a race for a drop needs two players and one thread of the server; a
  third player is one who sees the result of the other two's race. Two drops make
  a player's `want` differ from another's and are a circle if there is one.
- *PacketCodec*: two senders and two packets each are every overtaking of two
  packets; bodies of 2 and 5 bytes are shorter and longer than a header, so that a
  fragment ends within a header, at its end, within a body, and spans two packets.
- *PacketCipher*: the edge bytes are 0, 1, the sign bit and its neighbours, and
  the constants of the rounds; 130 bytes are more than a signed byte counts. Longer
  packets, those that wrap the length counter at 256 among them, are covered by the
  theorems, which hold up to the 65535 bytes a header can tell.
- *MonsterLife*: one monster at two attackers is every race for a kill; two
  monsters of one point are an heir that appears while its predecessor is dying.
  `MaxDrift` bounds how far counters and hp go below zero: past it no new poison,
  healing or respawn of such a monster begins. `MaxHp` is 1 in `hunt` (every hit
  can kill) and 2 in `hunt_unlocked` (a hit may also leave one hp).

- *Transport*: all six scripts as they are. One traveller is enough for what happens
  to a traveller, since travellers meet only in the copied lists, which `Carry` takes
  one by one; the theorems hold for any number. A load one minute before the departure
  finds the gate shut at once, one four and nine minutes before it finds every order of
  closing and departing that the scripts' minutes allow. One reload is two managers.
- *EventRooms*: the three scripts stand for the three kinds of rooms; the other five
  differ from `DualSecret` in the numbers of their maps. Two stays are a stay and the
  next one, which a late thread of the first disturbs; two players, two guests or a
  guest and one who asks.
- *ScriptTalk*: every script; `MaxStatus` (12) only bounds how often a silent
  conversation is started over an engine whose counter nobody sets back, and the theorems
  hold for any. No conversation needs more than `Farthest` (30) answers to come wherever it
  comes: `Closed` would fail where the bound cut one off.

Deadlock is checked in all runs but three: in `codec` a connection ends, in `rooms`
the stays of a behaviour are used up and its players gone, and in `talks` a quest that
is completed offers nothing more.

The largest run is `rooms` with 815 000 distinct states (three minutes on two
workers), then `equip_clothes` with 802 000 and `codec` with 475 000; `rides` has 88 000, `talks` 13 500.

## 4. Fairness

- `Drops`: a thread that has entered the monitor goes on (weak fairness of
  `PickUpStep`); one that waits gets it when it is given back again and again
  (strong fairness of `Enter`: HotSpot queues the waiting threads). Nothing is
  assumed of players' requests, the clock, the update thread or the reactor.
- `PacketCodec`: an event loop serves its connection and its tasks; the network
  delivers while the connection is open. Nobody need announce, and anybody may
  disconnect at any time.
- `MonsterLife`: threads that have begun a handler go on; the update thread runs
  every 100 ms; a `mobTime` ends. Weak fairness only of the steps
  of `Goes`: `monsterLock` is an unfair `ReentrantLock`, and nothing depends on
  getting it. Nothing is assumed of `RespawnStart`: an update that meets a drop which
  is over and marked returns before it (`ScanReturns`, `server/maps/MapleMap.java:281`),
  and so does every later one while that drop lies there.

- `Transport`: `WF_vars(System)`: the clock goes on and the pool runs what is due and
  what it has begun. Nobody is obliged to travel, to answer an usher or to log in.
- `EventRooms`: `WF_vars(System)`: a handler that has begun goes on, timers fire.
  Nobody is obliged to come or to leave, and nobody is disconnected by obligation.
- `ScriptTalk`: `WF_vars(patient /\ Forward)`: a player is patient or not, which is
  chosen at the start; a patient one only goes forward, and does so in the end. Of
  the others nothing is assumed, and `DialogEnds` says nothing of them.

`Refilled` says that an empty map does not stay empty *if* its updates come as far as
respawn again and again, and while there are players on it, as the code asks too. What
it shows is that no counter, of the map or of a spawn point, forbids for ever to put a
monster there; that a marked drop keeps every update from respawn is section 7's.

## 5. The proofs

Each component's theorems are in `<module>_proofs.tla` (those of `PacketCipher` with the
codec's, in `PacketCodec_proofs`) and hold for all values of the
constants under the named assumptions. Most are of the shape `Spec => []Inv` and follow
from an inductive invariant `IInv` (theorem `Invariance`) by three facts:
`Init => IInv`, `IInv /\ [Next]_vars => IInv'`, `IInv => Inv`. The action properties of
`Transport` follow from the invariant and the step; the two refinements are of the shape
`Spec => Abstract!Init /\ [][Abstract!Next]_vars`; `OpenedIsSealed` and `TablesMatch` speak
of no state. What is proved by
induction over natural numbers uses the least element of a set, not the library's
induction theorem, whose operator parameter the provers cannot instantiate.

**EquipInventory** (`ConservedHolds`, `OnePlaceHolds`, `NoClashHolds`, `PositionIsSlotHolds`,
`SlotsFitHolds`, `WornRingsOnHolds`, `TypeCorrect`; under
`LimitAssumption`, `ItemAssumption`, `StartAssumption`: a limit no larger than its
maximum, any slots a request may name beyond it, any copies, a character who starts
dressed properly). The invariants need each other: a nested unequip stores an item under
its *position*, so `OnePlace` rests on `PositionIsSlot`; it goes to the next free slot,
which exists by a counting lemma (`FreeSlotExists`): a bag that holds fewer items than its
limit has a free slot within it, whatever it holds beyond; `NoClash` after an
exchange rests on `SlotsFit`, since only then does the code look for the clashing
item in the right slot. `ConservedHolds` is about steps from that invariant. For the sort,
an item is lost only if its rank is over the limit, and then each slot within the limit
has an item of that rank, so the bag is left full (`SortItemsStep`).

**Drops** (`GrantedOnceHolds`, `GivenGoneHolds`, `TypeCorrect`; under
`ConstantsAssumption`). `GrantedOnce` alone is not inductive. The invariant adds: a
player past `Enter` holds the drop's monitor and nobody else does (`BusyHolds`,
`HeldByBusy`); whoever is about to be given a drop is the first (`BeforeGrant`); a drop
that was given is marked, or its monitor is still held (`Given`). The last is what makes
the check inside the monitor enough: the mark may come late but never after the monitor
is left. It covers threads outside the monitor, because they only ever *set* `pickedUp`
(lemma `OnlyMarks`). `TypeCorrect` is a conjunct of it. `GivenGoneHolds` is the safety
half of `GrantedLeaves`: a drop that has been given lies on the map only while a thread
is still on its way to removing it. Points are removed before they are marked, which
needs an invariant of its own (`PointsGone`).

**PacketCodec** (`TypeCorrect`, `OutboundInStep`, `NoHeaderRefused`; under
`CodecAssumption`). Outbound: while the client attribute is set, the frames on the
wire carry consecutive IVs from the game client's to the encoder's (`WireInStep`);
before the hello nothing is under way (`Fresh`). Inbound: what the decoder holds
followed by what is on the net is one stretch of the game client's byte stream
(`Runs`), which starts where the decoder stands — at a header if it remembers no
length, at the body of the next packet if it does (`Starts`, `LengthKnown`) —
and ends with a whole packet (`Ends`). No fragmentation appears in the
invariant, which is why it holds for all.

`OutboundPipe` and `InboundPipe` are the two refinements as far as safety goes: every
step of the codec is a step or a stutter of `PacketPipe`. Outbound, `PipeInv` says that of
each thread the wire carries the packets that follow those shown, without a gap
(`InOrder`), the loop's queue later ones and none of the loop's own (`Behind`), and that
while the channel is open every packet announced is on one of the two (`Complete`); so the
next frame of a thread to be shown is its next packet. `NothingMissing` reads the same
invariant at the end: queue and wire empty, everything has been understood. Inbound, all
bytes under way belong to requests that were made (`AllSent`), and what the decoder hands
on is the next one.

**PacketCipher** (`OpenedIsSealed`, `OpenedIsPacketHolds`, `HeaderTellsLengthHolds`; under
`CipherAssumption`: bytes are bytes). For every packet of up to 65535 bytes, every IV and
*every* keystream. XOR is undone by itself since its bits are sums modulo two (`XorBit`,
`XorTwice`); the rotations undo each other by cases on the distance (`RollBack`,
`RollForth`); a round's byte depends on what became of the one before it, so what the
recursion computes is shown to exist first (`MixRunExists`, `MixedBytes`), then undone
byte by byte (`UnmixedMixed`); `ForthUndone` and `BackUndone` are the two kinds of rounds,
`CryptTwice` the keystream, `LengthTold` and `FitsOne` the header.

**StackInventory** (`LedgerAgreesHolds`, `StacksBoundedHolds`, `HasRoomIsSoundHolds`; under
`ConstantsAssumption`). The invariant is a well-formed inventory, a ledger of numbers,
`StacksBounded` and `LedgerAgrees`; they need each other, since without the bound the space
`hasRoom` counts could be negative and the sort find no room for what it took out. What
a loop computes is shown to exist (`RunExists`, `LoopRuns`), to keep what its body keeps
(`LoopKeeps`) and to reach what its body reaches at the stack it visits (`LoopReaches`). A
sum over the slots changes by what one slot changes (`TotalChange`, `CountChange`). A removal
takes what it lacks or empties every stack it visits (`LoopTakes`, `TookCounts`), and a
drop leaves something over only if every stack is full and no slot is free (`LoopFills`,
`LoopOpens`, `NothingLeft`), which is what `hasRoom` excludes (`HasRoomSound`), in whatever
order the hash map lists the stacks. The sort puts back one stack after the other, and
what is back and what is still to come is always all (`SortKeeps`).

**MonsterLife** (`TypeCorrect`, `KilledOnceHolds`, `SinglesAloneHolds`,
`NeverOvercountedHolds`, `UndertakenHolds`, `EmptyAllowsHolds`, `RefillsEmptyHolds`; under
`ConstantsAssumption` and `KindsAssumption`).
An attacker *claims* a kill from the moment he sees hp at or below zero under the
lock until `killBy` has run. Of an ordinary monster there is at most one claim
(`OneClaim`), it has not been paid out (`Unpaid`), a monster alive has none behind
it (`AliveUnpaid`), whoever works under the lock works on a living one
(`HitAlive`) and whoever finishes a kill on a dead one (`KilledDead`). Since no
thread raises the hp of an ordinary monster, the hp that died stays dead, though
nothing is locked any more when the kill is carried out.

The counters have an invariant on top of it (`CInv`). A point's counter is the number of
its monsters on the map that nobody has been paid for (`Counts`): respawn looks at it
before it spawns, hence `SinglesAlone`. The map's counter never exceeds the monsters whose
killer has not yet taken them off it (`Standing`, `Undercount`), hence `NeverOvercounted`,
for all the unlocked writes. `Undertaken` is the safety half of `CorpseLeaves`: an ordinary
monster that lies dead on the map has a player who is about to remove it. `EmptyAllows` and
`RefillsEmpty` are that of `Refilled`: once nothing is left on the map no counter is too high
to make another monster, and respawn goes through all points. (Of points of ordinary
monsters: a point does not hear of a monster that is caught.)

**Transport** (`TypeCorrect`, `OneTimetableHolds`, `GoesOnHolds`, `NoneLeftBehindHolds`,
`BoardsInTimeHolds`, `RideTakesItsTimeHolds`, `LandsWhereBoundHolds`,
`LeavingGoesBackHolds`, `TablesMatch`, `RidesGoWhereTheySay`; under `TransportAssumption`: lines of
the shape the six scripts have — lounges and vehicles are apart, warps go from
lounges to vehicles and from vehicles to the shore, nobody but an usher lets a player
into a lounge — and any set of players, any number of reloads). The invariant is
`Base /\ (torn \/ Order)`: once a reload has met a task nothing more is claimed than
types, and `GoesOn`, the safety half of `WaitersLeave` and `RidersLand`: the manager in use
has its next departure or an arrival before it, whatever replaced managers still do. `Base` adds what a task's record means: a task not under way is about nobody
(`TasksOK`), whoever is still to be moved was copied from the map before the next one
(`ListsOK`). `Order` says that only the manager in use does anything (`OnlyNow`) and
that it is in one of four phases, on the ground, taking off, in flight or landing
(`Phases`), each with its own timers, its own gate, and its bound on how long those on
board have been there: in flight `flown + due >= ride`, which makes `RideTakesItsTime`
inductive. `NoneLeftBehind` speaks of the moment a task is done; `Found` says on the
way there that whoever was found and stayed is copied by now or on a map still to be
copied, which survives a walk between deck and cabin since who moves is no longer
among those who stayed. `Apart` keeps a departure's and an arrival's passengers apart;
without it a plane's takeoff, which runs beside its landing, would spoil `Found`.

Where a passenger lands is a question of the tables too. `RoutesMatch(line)` says what the
departure, the arrival, the usher and the purser of a leg must agree on; `TablesMatch`
proves it of the six scripts, row by row. Under it `RouteInv` adds that whoever waits or
talks holds a ticket of the leg he is on (`Ticket`) and that whoever is on board, or was
copied by a task and not moved yet, is in the vehicle of his leg (`Berths`), so that the
row that moves him is the one of that leg. `RidesGoWhereTheySay` puts the two together.

**EventRooms** (`OneGuestHolds`, `GateShutHolds`, `GuestsKnowHolds`, `SomebodyOpensHolds`,
`TypeCorrect`; under `RoomsAssumption`: any scripts, players, stays and reloads). The
invariant is `Base`, the gate and, while `Calm`, what a guest knows. A gate is *held* by one stay from `setup` until
who ends the stay has opened it (`Holds`): by the player who is still to be registered, by
the guest, by the thread on its way to the gate. While nobody has deceived the gate there
is one such stay (`OneHolds`) and the gate is shut (`HeldShut`), and who has seen it open
finds it open (`AskedOpen`). `Base` has what makes a late thread harmless: a stay is fresh,
then its guest is in, then it is ended (`Courses`), and `ends` counts who ends it
(`Counted`). `Known` is about eventInstances: a guest has his, who ends the stay takes
it from him, who is let in has none, and who is astray is a guest of the second manager,
which is why it is claimed only until the second reload (`Calm`). `SomebodyOpens` is the
safety half of `Reopens`, and holds of deceived gates too: a shut gate whose guest was not
cut off is held (`GateHeld`), and whoever holds it can open it. The thread that made the
stay goes on, the one that ends it is on its way to the gate, a timed guest is watched by a
timer that is set or has gone off (`Watched`; a timer set after the stay was over is set
all the same), and a guest without a timer is online (`Present`). For each step it is shown
what it leaves to open the gates by (`Carries`).

**ScriptTalk** (`RewardMovesTheQuestHolds`, `OnlyForwardActsHolds`, `AlwaysAnsweredHolds`,
`EveryPageOnItsWalk`, `EveryAnswerIsNearer`, `TypeCorrect`; under `ScriptsAssumption` and
`TablesAssumption`: any tables that keep the rules when each is taken by itself, any
`MaxStatus`). A behaviour is more than one conversation: quests are begun again over an
engine nobody disposed of, given up and taken up again, npcs throw and stay registered. The
invariant says that none of it matters. A page is a page of the registered conversation's
own walk (`OnItsWalk`), and where no page is shown the engine is gone, except that of a
quest that falls silent (`LeftBehind`). Such an engine may stand at any counter;
`ClickIsExpected` shows that the next click starts a walk or finds no row. `CallKeeps` is
the step: a call made from a place of the walk takes a row the table was asked about.
`EveryAnswerIsNearer` is the safety half of `DialogEnds`: before a page a patient player
can only go forward (`PatientGoesForward`), and at the next page fewer answers are left, at
most `Farthest`; that he goes on at all is fairness and stays with TLC.

Only model-checked: the liveness properties (`AllServed`, `GrantedLeaves`, `CorpseLeaves`,
`Refilled`, `WaitersLeave`, `RidersLand`, `Reopens`, `DialogEnds`, and the liveness half of
the two refinements), since fairness and ENABLED are beyond the prover; of some of them the
safety half is proved (`GivenGone`, `Undertaken`, `RefillsEmpty`, `GoesOn`, `SomebodyOpens`,
`EveryAnswerIsNearer`): whatever is owed has somebody who owes it. And `EvenTrades`, which is about the order of effects within single rows: it holds of a table or not, the
managers have no part in it, and TLC goes through every row. Types are proved for every
module with state (`TypeCorrect`; in `StackInventory` the first conjuncts of `IInv`); no
run spends time on them.

## 6. Disagreements between the code and what it says

- `stars_all_taken`: `MapleInventoryManipulator.removeStarById` comments "We have no
  more stars, just take them all." (`server/MapleInventoryManipulator.java:340`)
  and takes those of the first stack only.
- `only_one_pickup`: the loop commented "expire all of the other only one pickup
  items" (`net/server/handlers/Player/SendDropPickUpRequest.java:328`) marks drops
  whose monitors it does not hold; a player who has already been asked is given a
  second one.

## 7. What is not modelled, and why

The components with status `not_modelled` in `PROJECT.json`, in three groups.

*The database or two processes decide.* Sessions and logins: `accounts.loggedin` is
read and written by three processes, and what two of them may do at once hangs on the
isolation of the database, which the code does not set. Parties, messengers, guilds,
alliances, buddies and families are synchronized lists in the world server, copied by
remote calls. Processes and their registry, timers and the database appear by their
effect: a timer is one more thread.

*Two handlers without a lock, and nothing said of them.* Trades, players' shops,
hired merchants, mini games: taken one request at a time a model would be a
transcript of the class, side by side next to nothing holds. Storage is a list with a
capacity between two inventories.

*Content and formatting.* Characters, buffs and stats, cash shop and npc shops,
reactors, scripts of portals, maps and items, commands, packet formats, game data.

Of the events, the rides and the rooms are modelled. The party quests cannot be begun
at this commit: their npcs (`npc/9020000.js`, `1012112.js`, `2040034.js`, `2094000.js`,
`2083001.js`, `9103001.js`, `2030008.js`, `9201113.js`) call methods that are not there
(`em.getEligibleParty`, `cm.isUsingOldPqNpcStyle`, `em.startInstance` with a party, a
map and a number), `9105003.js` reads a name that is not declared, `OrbisPQ.js` uses
`System`, which the engine does not have. That covers the Kerning, Henesys, Ludibrium,
pirate, Horntail, maze, Zakum and Crimsonwood quests. `DollHouse.js` has no `setup`;
`3rdjob`, `4jberserk`, `4jrush`, `HogProtect`, `VIPRockSpirit`, `MonsterDefense`,
`Dojo`, `BossPQ` and `SuperTransform` have no npc or portal that starts them. The
private rides (`KerningTrain.js`, `Hak.js`, which keeps the way back of all its
passengers in one variable) and `RockSpirit.js` are left out.

Scripts that are not in the tables: those whose file is not the number of an npc
(shared ones such as `gachapon`, old copies), `npc/9977777.js`, which does not parse, and
`npc/9270006.js`, whose loop never ends. The answers of the speed quiz are not
modelled.

Left out inside the modelled parts: the two kinds of maps where a pick-up takes no
lock (happyville, guild quest), the split of meso in a party, pets' rules (a
constant), requirements to wear an equip, bosses made of several monsters, monsters
on a timer or of an event, the kill of a whole map, mp, experience, the one
header in 65536 that passes `checkPacket` by chance, and equips of which one may be held.

Places where reading the code shows something wrong and no property speaks of it:

- `client/MapleCharacter.java:1850`: the expiration timer walks and removes from the
  inventories while a handler does; `MapleInventory` has no lock.
- `server/maps/MapleMap.java:281`: `update` returns when it meets a drop another thread
  has just marked; what it marked itself before stays on the map, and every later
  update returns at it, before it comes to respawn. `Drops` has the step (`ScanVisit`), and
  so has `MonsterLife` (`ScanReturns`).
- `server/MapleInventoryManipulator.java:543`: a drop of quantity 0 copies an equip; `:486`
  takes an equip off to a slot over the limit; `client/inventory/MapleInventory.java:101`
  merges a stack with itself. `EquipInventory` and `StackInventory` have the steps.
- `server/maps/MapleMap.java:236`: the id of a new object is incremented, tested and read in
  separate steps.
- `net/server/handlers/Player/SendDropPickUpRequest.java:109`: on the happyville and guild
  quest maps a pick-up neither locks nor asks `isPickedUp`; at `:276` the party is
  fetched twice, once to count who shares and once to pay.
- `net/server/handlers/Item/UseCatchItemHandler.java:37`: a capture skips `killBy`, so the
  spawn point counts the monster for ever (`Catch` in `MonsterLife`; `Refilled` is about
  monsters that players kill).
- `scripts/npc/1032008.js:24`: the usher of Ellinia lets travellers into map 101000301, the
  departure empties 104020111 (`scripts/event/Boats.js:17`); `WaitersLeave` is about the
  lounges the departure empties.
- `server/maps/objects/HiredMerchant.java:130`: the listing is fetched before the lock is
  taken; at `:160` price times quantity may wrap, as in `server/MaplePlayerShop.java:137`.
- `client/MapleClient.java:637`: `disconnecting` is tested and set without a lock; `:553` and
  `:290` read and write `loggedin` in two steps; `net/channel/ChannelServer.java:77`
  registers again without the players it has.
- `server/MapleMiniGame.java:243`: one array for a board of two dimensions;
  `net/server/channel/handlers/SendTrunkDlgRequest.java:64`: a fee is taken before the item
  is.

## 8. The plan and what is left of it

The core came first: what every player does all the time and several threads do at
once (`EquipInventory`, `StackInventory`, `Drops`, `PacketPipe` and `PacketCodec`,
`PacketCipher`, `MonsterLife`), then what the scripts make of the engine (`Transport`,
`EventRooms`, `ScriptTalk`), each with its runs, and proofs of every component: all
invariants but one, all action properties and the safety of both refinements.

Left, in the order of what they would add:

1. Compositions: `MonsterLife` with `Drops` (a kill becomes drops once), `Drops` with
   `StackInventory` (`canHoldItem` outside the monitor, `addFromDrop` inside).
2. The handlers of section 7 that take no lock, once the repository says what they
   promise.
