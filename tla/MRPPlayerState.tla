--------------------------- MODULE MRPPlayerState ---------------------------
(***************************************************************************)
(* What MRPPlayerState makes of the messages of an Apple TV: the registry  *)
(* of now-playing clients and their players, which of them are active, the *)
(* playback queue of each player, the order of its states by their time    *)
(* stamps, and the requests for artwork that a change of the current item  *)
(* sets off.  Every action is the handler of one kind of message; a        *)
(* message without a bundle identifier changes nothing and is left out.    *)
(* Names, supported commands and metadata other than artwork are left out. *)
(***************************************************************************)
EXTENDS Naturals, Sequences, FiniteSets

CONSTANTS Bundles,      \* bundle identifiers of clients
          Players,      \* identifiers of players
          DefaultId,    \* DEFAULT_PLAYER_ID, one of them
          ItemIds,      \* identifiers of content items
          Times,        \* time stamps of playback states
          Stamped,      \* bound: the players whose messages carry time stamps
          Queues,       \* playback queues the device reports
          Updates,      \* content items it sends on their own
          Locations,    \* positions in a queue, possibly behind its end
          MaxMessages,  \* bound on the messages of a behaviour
          None          \* undefined

\* A player without an identifier is kept under the key "".
NoId == ""
Keys == Players \cup {NoId}

\* What the device says of the artwork of an item: whether there is any, and
\* whether its data came along.
Items == [id : ItemIds, available : BOOLEAN, inline : BOOLEAN]
NoItem == [id |-> None, available |-> FALSE, inline |-> FALSE]

ASSUME KeyAssumption == /\ DefaultId \in Players
                        /\ NoId \notin Players
                        /\ None \notin Keys \cup Bundles \cup ItemIds
ASSUME TimeAssumption == Times \subseteq Nat \ {0}
ASSUME QueueAssumption == /\ \A q \in Queues : q \in Seq(Items)
                          /\ Updates \subseteq Items
                          /\ Locations \subseteq Nat
ASSUME BoundAssumption == MaxMessages \in Nat

VARIABLES
  clients,       \* bundle identifiers in the clients map
  players,       \* the players map of each client
  activeId,      \* _activePlayerId of each client
  activeBundle,  \* _activeClientBundleId
  requested,     \* additionalDataRequested
  cache,         \* items in the artwork cache, which outlives this object
  received       \* messages so far

registry == <<clients, players, activeId, activeBundle>>
playerVars == <<clients, players, activeId, activeBundle, requested, cache, received>>

\* A PlayerState: bound says that bindActiveItemChange listens to it, time is
\* _playbackStateTimestamp (0 for undefined), state tells the playback state
\* it shows by the time stamp it came with (0 for none), last is the item that
\* was announced last, as it was then.  The code does not keep seen, the time
\* stamps of all messages to this player, and fresh, those of the playback states
\* among them that no newer message had overtaken.
PlayerStates == [bound : BOOLEAN, time : Times \cup {0}, state : Times \cup {0},
                 items : Seq(Items), location : Nat,
                 last : Items \cup {NoItem}, seen : SUBSET Times, fresh : SUBSET Times]

NewPlayer == [bound |-> FALSE, time |-> 0, state |-> 0, items |-> <<>>,
              location |-> 0, last |-> NoItem, seen |-> {}, fresh |-> {}]

NoPlayers == [k \in {} |-> NewPlayer]

PlayerTypeOK == /\ clients \subseteq Bundles
                /\ \A b \in Bundles : /\ DOMAIN players[b] \subseteq Keys
                                      /\ \A k \in DOMAIN players[b] :
                                            players[b][k] \in PlayerStates
                /\ activeId \in [Bundles -> Players \cup {None}]
                /\ activeBundle \in Bundles \cup {None}
                /\ requested \subseteq ItemIds
                /\ cache \subseteq ItemIds
                /\ received \in 0..MaxMessages

PlayerInit == /\ clients = {}
              /\ players = [b \in Bundles |-> NoPlayers]
              /\ activeId = [b \in Bundles |-> None]
              /\ activeBundle = None
              /\ requested = {}
              /\ cache = {}
              /\ received = 0

-----------------------------------------------------------------------------
(* The registry *)

\* Every handler whose path names a client creates it if it is missing.
Message(b) == /\ received < MaxMessages
              /\ received' = received + 1
              /\ clients' = clients \cup {b}

\* getOrCreatePlayer
playerOf(b, k) == IF k \in DOMAIN players[b] THEN players[b][k] ELSE NewPlayer

withPlayer(b, k, p) ==
  [players EXCEPT ![b] = [j \in DOMAIN @ \cup {k} |-> IF j = k THEN p ELSE @[j]]]

\* The getter activePlayer: the selected player, or the default one.
selected(b) == IF activeId[b] # None THEN activeId[b] ELSE DefaultId
activePlayer(b) == IF selected(b) \in DOMAIN players[b] THEN selected(b) ELSE None

\* UPDATE_CLIENT, SET_DEFAULT_SUPPORTED_COMMANDS, PLAYER_CLIENT_PROPERTIES, and
\* a message about a player that names none.
UpdateClient(b) ==
  /\ Message(b)
  /\ UNCHANGED <<players, activeId, activeBundle, requested, cache>>

UpdatePlayer(b, k) ==
  /\ Message(b)
  /\ players' = withPlayer(b, k, playerOf(b, k))
  /\ UNCHANGED <<activeId, activeBundle, requested, cache>>

SetNowPlayingClient(b) ==
  /\ Message(b)
  /\ activeBundle' = b
  /\ UNCHANGED <<players, activeId, requested, cache>>

\* A player without an identifier is selected as no player: the default.
SetNowPlayingPlayer(b, k) ==
  /\ Message(b)
  /\ players' = withPlayer(b, k, playerOf(b, k))
  /\ activeId' = [activeId EXCEPT ![b] = IF k = NoId THEN None ELSE k]
  /\ UNCHANGED <<activeBundle, requested, cache>>

\* REMOVE_CLIENT, whether the client is known or not.
RemoveClient(b) ==
  /\ received < MaxMessages
  /\ received' = received + 1
  /\ clients' = clients \ {b}
  /\ players' = [players EXCEPT ![b] = NoPlayers]
  /\ activeId' = [activeId EXCEPT ![b] = None]
  /\ activeBundle' = IF activeBundle = b THEN None ELSE activeBundle
  /\ UNCHANGED <<requested, cache>>

RemovePlayer_KeepsSelection(b, k) ==
  /\ Message(b)
  /\ players' = [players EXCEPT ![b] = [j \in DOMAIN @ \ ({k} \ {NoId}) |-> @[j]]]
  /\ UNCHANGED <<activeId, activeBundle, requested, cache>>

\* REMOVE_PLAYER; one without an identifier stays.
RemovePlayer(b, k) ==
  /\ Message(b)
  /\ IF k = NoId THEN UNCHANGED <<players, activeId>>
     ELSE /\ players' = [players EXCEPT ![b] =
                           [j \in DOMAIN @ \ {k} |-> @[j]]]
          /\ activeId' = IF activePlayer(b) = k
                           THEN [activeId EXCEPT ![b] = None] ELSE activeId
  /\ UNCHANGED <<activeBundle, requested, cache>>

-----------------------------------------------------------------------------
(* The queue of a player and the artwork of its current item *)

currentItem(p) == IF p.location + 1 \in DOMAIN p.items
                  THEN p.items[p.location + 1] ELSE NoItem

announced_IfAny(p) == [p EXCEPT !.last =
                   IF currentItem(p).id \in {None, @.id} THEN @ ELSE currentItem(p)]

\* emitIfItemChanged: the item that is announced, and what the listener of
\* bindActiveItemChange does about its artwork.  It is asked for once.
announced(p) == [p EXCEPT !.last =
                   IF currentItem(p).id = @.id THEN @ ELSE currentItem(p)]

inlineArtwork(i) == IF i.available /\ i.inline THEN {i.id} ELSE {}

neededArtwork(i) == IF i.available /\ ~i.inline /\ i.id \notin cache
                    THEN {i.id} ELSE {}

Announce(old, new) ==
  IF new.last.id = old.last.id \/ ~new.bound
    THEN UNCHANGED <<requested, cache>>
    ELSE /\ cache' = cache \cup inlineArtwork(new.last)
         /\ requested' = requested \cup neededArtwork(new.last)

\* shouldApply: a state without a time stamp is always applied.
shouldApply(p, time) == time = 0 \/ p.time = 0 \/ time >= p.time

applied_TimeLost(p, time, plays, queue, location) ==
  IF ~shouldApply(p, time) THEN p
  ELSE announced([p EXCEPT !.state = IF plays THEN time ELSE @,
                           !.time = time,
                           !.items = IF queue = None THEN @ ELSE queue,
                           !.location = IF queue = None THEN @ ELSE location])

\* handleSetState: what the message carries, a playback state if it plays and a
\* queue, is applied together or not at all.  A message without a time stamp
\* leaves the stored one; one without a playback state moves it all the same.
applied(p, time, plays, queue, location) ==
  IF ~shouldApply(p, time) THEN p
  ELSE announced([p EXCEPT !.state = IF plays THEN time ELSE @,
                           !.time = IF time = 0 THEN @ ELSE time,
                           !.items = IF queue = None THEN @ ELSE queue,
                           !.location = IF queue = None THEN @ ELSE location])

\* The history of a player with one more message.
isFresh(p, time) == time # 0 /\ \A t \in p.seen : t <= time

told(p, time, plays) ==
  [p EXCEPT !.bound = TRUE,
            !.seen = @ \cup ({time} \ {0}),
            !.fresh = IF plays /\ isFresh(p, time) THEN @ \cup {time} ELSE @]

SetState_BindsAfter(b, k, time, plays, queue, location) ==
  LET p == [told(playerOf(b, k), time, plays) EXCEPT !.bound = playerOf(b, k).bound]
      new == applied(p, time, plays, queue, location)
  IN /\ Message(b)
     /\ players' = withPlayer(b, k, [new EXCEPT !.bound = TRUE])
     /\ Announce(p, new)
     /\ UNCHANGED <<activeId, activeBundle>>

\* SET_STATE for the player k of b, with a playback state if it plays, and with a
\* queue or without one.
SetState(b, k, time, plays, queue, location) ==
  LET p == told(playerOf(b, k), time, plays)
      new == applied(p, time, plays, queue, location)
  IN /\ Message(b)
     /\ players' = withPlayer(b, k, new)
     /\ Announce(p, new)
     /\ UNCHANGED <<activeId, activeBundle>>

\* What handleContentItemUpdate makes of a queue: the first item with that
\* identifier takes the fields that are present, and updates here always say
\* whether there is artwork.
isFirst(items, n, id) == items[n].id = id /\ \A m \in 1..n - 1 : items[m].id # id

merged(items, update) ==
  [n \in DOMAIN items |->
     IF isFirst(items, n, update.id)
       THEN [items[n] EXCEPT !.available = update.available,
                             !.inline = @ \/ update.inline]
       ELSE items[n]]

\* UPDATE_CONTENT_ITEM: the identifiers stay, so no change is announced.
UpdateContentItem(b, k, update) ==
  LET p == [playerOf(b, k) EXCEPT !.bound = TRUE]
      new == announced([p EXCEPT !.items = merged(@, update)])
  IN /\ Message(b)
     /\ players' = withPlayer(b, k, new)
     /\ Announce(p, new)
     /\ UNCHANGED <<activeId, activeBundle>>

\* The artwork cache evicts an entry or lets it expire.
CacheForgets(i) ==
  /\ i \in cache
  /\ cache' = cache \ {i}
  /\ UNCHANGED <<registry, requested, received>>

\* cleanup(); the handlers above stay on the protocol until it removes them.
cleanup ==
  /\ clients' = {}
  /\ players' = [b \in Bundles |-> NoPlayers]
  /\ activeId' = [b \in Bundles |-> None]
  /\ activeBundle' = None
  /\ requested' = {}
  /\ UNCHANGED <<cache, received>>

-----------------------------------------------------------------------------

\* The time stamps a message to the player k may have; 0 is none.
stamps(k) == {0} \cup (IF k \in Stamped THEN Times ELSE {})

PlayerNext == \/ \E b \in Bundles :
                   \/ UpdateClient(b) \/ SetNowPlayingClient(b) \/ RemoveClient(b)
                   \/ \E k \in Keys :
                        \/ UpdatePlayer(b, k)
                        \/ SetNowPlayingPlayer(b, k)
                        \/ RemovePlayer(b, k)
                        \/ \E t \in stamps(k), plays \in BOOLEAN :
                             \/ SetState(b, k, t, plays, None, 0)
                             \/ \E q \in Queues, l \in Locations :
                                  SetState(b, k, t, plays, q, l)
                        \/ \E i \in Updates : UpdateContentItem(b, k, i)
              \/ \E i \in ItemIds : CacheForgets(i)
              \/ cleanup

PlayerSpec == PlayerInit /\ [][PlayerNext]_playerVars

-----------------------------------------------------------------------------
(* Properties *)

\* What is marked active exists: the active client is in the clients map, and
\* the player selected in a client is one of its players, after any mixture of
\* removals, of messages that create a removed client again, and of cleanup().
ActiveExists ==
  /\ activeBundle # None => activeBundle \in clients
  /\ \A b \in Bundles : activeId[b] # None => activeId[b] \in DOMAIN players[b]
  /\ \A b \in Bundles : DOMAIN players[b] # {} => b \in clients

\* Messages overtake each other on the way here, some have no time stamp and some
\* no playback state.  A player that shows a timed state shows the latest of those
\* that came before anything newer did: no older one replaces it, and an untimed
\* one in between lets none through (handleSetState, shouldApply).  A state that a
\* newer message without one has overtaken is dropped, and never shown.
ShowsNewest ==
  \A b \in Bundles : \A k \in DOMAIN players[b] :
    LET p == players[b][k] IN
      /\ p.state # 0 => p.state \in p.fresh /\ \A t \in p.fresh : t <= p.state
      /\ p.seen # {} => p.time \in p.seen /\ \A t \in p.seen : t <= p.time

\* The item announced last is the current one: no listener is left with an
\* item that is over, whichever message moved the queue.
AnnouncedIsCurrent ==
  \A b \in Bundles : \A k \in DOMAIN players[b] :
    players[b][k].last.id = currentItem(players[b][k]).id

\* When an item with artwork becomes the current one, its artwork is at hand
\* or has been asked for when the handler ends.
ArtworkPursued ==
  [][\A b \in Bundles : \A k \in DOMAIN players'[b] :
       LET i == players'[b][k].last IN
         (i.available /\ i # playerOf(b, k).last) => i.id \in cache' \cup requested']_playerVars

=============================================================================
