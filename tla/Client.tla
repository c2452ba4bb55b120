------------------------------- MODULE Client -------------------------------
(***************************************************************************)
(* The client and the world: keys are bound to actions by a configuration, *)
(* callbacks of the window turn them into the state of the game view,      *)
(* every frame of the main loop sends that to the world, and the thread of *)
(* the world ticks, handles what has come and publishes its state.         *)
(***************************************************************************)
EXTENDS Integers, Sequences, FiniteSets, SequencesExt

CONSTANTS Scheme,          \* the entries of the key settings, in order: <<action, default tokens>>
          KeyboardKeys, MouseKeys,
          Settings,        \* bound: settings files, action -> tokens for some actions
          Devices,         \* bound: <<kind, key>> that are pressed
          MaxEvents,       \* bound: callbacks
          MaxLoops        \* bound: loops of the main loop; and ticks of the world

VARIABLES
  bound,       \* keyboardKeyToActionMap, mouseKeyToActionMap and scrollToActionMap
  held,        \* <<kind, key>> that are down, with the modifiers of their press and repeats
  mods,        \* modifiers that are down
  view,        \* GameView
  loose,       \* history: directions set by the wheel, or by a key that went up under other
               \* modifiers, and not ended since
  main,        \* where doMainLoop is: "poll", "update", "draw", "left"
  sent,        \* every PlayerStateMessage ever sent
  edits,       \* BlockEditMessages sent: <<position, block>>
  handled,     \* how many of the messages the world has handled
  world,       \* where the world thread is: "wait", "tick", "joined"; its next state
  lastState,   \* m_last_state_ptr
  seen,        \* last_state_ptr of the main loop
  stop,        \* m_thread_stop
  events, loops   \* bounds

clientVars == <<bound, held, mods, view, loose, main, sent, edits, handled, world, lastState, seen, stop,
                events, loops>>

Mods == {"SHIFT", "CTRL"}
Directions == {"forward", "backward"}
-----------------------------------------------------------------------------
(* The settings                                                            *)

Unknown == <<"unknown", "", {}>>
KindOf(s) == IF s \in KeyboardKeys THEN "keyboard" ELSE "mouse"

\* A token is its parts between plus signs; modifiers are parts, and of several keys the
\* last one counts.  Scrolling cannot be part of a combination, nor a modifier alone.
stringToMapkey(token) ==
  LET keys == SelectSeq(token, LAMBDA s : s \in KeyboardKeys \cup MouseKeys)
      parts == {token[i] : i \in DOMAIN token}
  IN  IF token \in {<<"ScrollUp">>, <<"ScrollDown">>} THEN <<"scroll", token[1], {}>>
      ELSE IF keys = <<>> \/ ~ parts \subseteq KeyboardKeys \cup MouseKeys \cup Mods THEN Unknown
      ELSE <<KindOf(Last(keys)), Last(keys), parts \cap Mods>>

\* A token that cannot be read stands for the default, which is then read as one token;
\* with assertions off, a default of several tokens binds nothing.
parseToken(token, default) ==
  IF stringToMapkey(token) # Unknown THEN stringToMapkey(token)
  ELSE IF Len(default) = 1 THEN stringToMapkey(default[1]) ELSE Unknown

\* init: of two actions with the same key the later one has it.
BoundBy(settings) ==
  LET Tokens(entry) == IF entry[1] \in DOMAIN settings THEN settings[entry[1]] ELSE entry[2]
      pairs == FlattenSeq([n \in DOMAIN Scheme |->
                 [i \in DOMAIN Tokens(Scheme[n]) |->
                    <<parseToken(Tokens(Scheme[n])[i], Scheme[n][2]), Scheme[n][1]>>]])
      keys == {pairs[i][1] : i \in DOMAIN pairs} \ {Unknown}
      LastOf(k) == CHOOSE i \in DOMAIN pairs :
                     pairs[i][1] = k /\ \A j \in DOMAIN pairs : pairs[j][1] = k => j <= i
  IN  [k \in keys |-> pairs[LastOf(k)][2]]
-----------------------------------------------------------------------------
(* Callbacks of the window                                                 *)

\* Items are chosen with digits and no modifier.
Digits == {"0", "1"}
ToPlayerEvent(key) ==
  IF key[1] = "keyboard" /\ key[2] \in Digits /\ key[3] = {} THEN key[2]
  ELSE IF key \in DOMAIN bound THEN bound[key] ELSE "none"

\* GameView::handleEvent
handleEvent(v, event, activate) ==
  IF event \in Directions THEN [v EXCEPT !.state[event] = activate]
  ELSE IF ~ activate THEN v
  ELSE CASE event = "pause" -> [v EXCEPT !.pause = ~ @]
         [] event = "lock" -> [v EXCEPT !.locked = ~ @]
         [] event = "modify" -> [v EXCEPT !.modify = TRUE]
         [] event \in Digits -> [v EXCEPT !.block = event]
         [] OTHER -> v

\* Callbacks run inside of pollEvents.
Callback == main = "poll" /\ events < MaxEvents /\ events' = events + 1
ClientRest == <<bound, main, sent, edits, handled, world, lastState, seen, stop, loops>>

Handle(device, activate) ==
  view' = handleEvent(view, ToPlayerEvent(<<device[1], device[2], mods>>), activate)

\* What the key was passed on as when it was pressed or repeated.
Meant(h) == ToPlayerEvent(<<h[1][1], h[1][2], h[2]>>)

Loosened(set) == loose' = {d \in Directions \cap (loose \cup set) : view'.state[d]}

Press(device) ==
  /\ Callback
  /\ \A h \in held : h[1] # device
  /\ held' = held \cup {<<device, mods>>}
  /\ Handle(device, TRUE) /\ Loosened({})
  /\ UNCHANGED <<mods, ClientRest>>

\* A key that is held repeats, a released one is released with the modifiers of now.
Repeat(h) ==
  /\ Callback
  /\ h[1][1] = "keyboard"
  /\ held' = held \cup {<<h[1], mods>>}
  /\ Handle(h[1], TRUE) /\ Loosened({})
  /\ UNCHANGED <<mods, ClientRest>>

Release(h) ==
  /\ Callback
  /\ held' = {g \in held : g[1] # h[1]}
  /\ Handle(h[1], FALSE)
  /\ Loosened({Meant(g) : g \in {g \in held : g[1] = h[1] /\ g[2] # mods}})
  /\ UNCHANGED <<mods, ClientRest>>

Scroll(way) ==
  /\ Callback
  /\ view' = handleEvent(view, ToPlayerEvent(<<"scroll", way, {}>>), TRUE)
  /\ Loosened({ToPlayerEvent(<<"scroll", way, {}>>)})
  /\ UNCHANGED <<held, mods, ClientRest>>

Modifier(m) ==
  /\ Callback
  /\ mods' = IF m \in mods THEN mods \ {m} ELSE mods \cup {m}
  /\ UNCHANGED <<held, view, loose, ClientRest>>
-----------------------------------------------------------------------------
(* The main loop                                                           *)

\* The window wants to close, or the latest state of the world is taken.
PollEvents ==
  /\ main = "poll"
  /\ main' = "update"
  /\ seen' = lastState
  /\ UNCHANGED <<bound, held, mods, view, loose, sent, edits, handled, world, lastState, stop, events, loops>>

\* GameView::update
Moved(v) == IF ~ v.pause /\ (v.state["forward"] # v.state["backward"])
            THEN v.position + (IF v.state["forward"] THEN 1 ELSE -1) ELSE v.position

Update ==
  /\ main = "update"
  /\ main' = "draw"
  /\ view' = [view EXCEPT !.position = Moved(view), !.modify = FALSE]
  /\ edits' = IF view.modify THEN Append(edits, <<Moved(view), view.block>>) ELSE edits
  /\ sent' = Append(sent, [position |-> Moved(view), locked |-> view.locked])
  /\ UNCHANGED <<bound, held, mods, loose, handled, world, lastState, seen, stop, events, loops>>

DrawFrame ==
  /\ main = "draw"
  /\ \/ loops < MaxLoops /\ main' = "poll"
     \/ main' = "left"
  /\ loops' = loops + 1
  /\ UNCHANGED <<bound, held, mods, view, loose, sent, edits, handled, world, lastState, seen, stop, events>>

\* ~World, run by the thread of the main loop
Stop ==
  /\ main = "left" /\ ~ stop
  /\ stop' = TRUE
  /\ UNCHANGED <<bound, held, mods, view, loose, main, sent, edits, handled, world, lastState, seen, events, loops>>
-----------------------------------------------------------------------------
(* The thread of the world                                                 *)

\* handlePlayerInputMessage
handlePlayerInputMessage(w, msg) ==
  [w EXCEPT !.position = msg.position, !.loading = IF msg.locked THEN @ ELSE msg.position]

\* (mutant) Only the newest of the messages is handled.
PollNewest ==
  /\ world.pc = "wait" /\ ~ stop
  /\ lastState.tick < MaxLoops
  /\ world' = IF handled = Len(sent) THEN [world EXCEPT !.pc = "tick", !.position = lastState.position]
              ELSE handlePlayerInputMessage([world EXCEPT !.pc = "tick"], Last(sent))
  /\ handled' = Len(sent)
  /\ UNCHANGED <<bound, held, mods, view, loose, main, sent, edits, lastState, seen, stop, events, loops>>

\* update until the messages are handled: it starts from the last state.
PollMessages ==
  /\ world.pc = "wait" /\ ~ stop
  /\ lastState.tick < MaxLoops
  /\ \E w \in {FoldLeft(handlePlayerInputMessage,
                        [world EXCEPT !.pc = "tick", !.position = lastState.position],
                        SubSeq(sent, handled + 1, Len(sent)))} : world' = w
  /\ handled' = Len(sent)
  /\ UNCHANGED <<bound, held, mods, view, loose, main, sent, edits, lastState, seen, stop, events, loops>>

\* The terrain and the land tick, and the state is published.
Publish ==
  /\ world.pc = "tick"
  /\ world' = [world EXCEPT !.pc = "wait"]
  /\ lastState' = [tick |-> lastState.tick + 1, position |-> world.position, loading |-> world.loading]
  /\ UNCHANGED <<bound, held, mods, view, loose, main, sent, edits, handled, seen, stop, events, loops>>

Join ==
  /\ world.pc = "wait" /\ stop
  /\ world' = [world EXCEPT !.pc = "joined"]
  /\ UNCHANGED <<bound, held, mods, view, loose, main, sent, edits, handled, lastState, seen, stop, events, loops>>
-----------------------------------------------------------------------------
START == 10     \* the position of a new player; the world starts to load at its origin, 0

ClientInit ==
  /\ \E settings \in Settings : bound = BoundBy(settings)
  /\ held = {} /\ mods = {} /\ loose = {}
  /\ view = [state |-> [d \in Directions |-> FALSE], pause |-> TRUE, locked |-> FALSE,
             modify |-> FALSE, block |-> "stone", position |-> START]
  /\ main = "poll" /\ sent = <<>> /\ edits = <<>> /\ handled = 0
  /\ world = [pc |-> "wait", position |-> START, loading |-> 0]
  /\ lastState = [tick |-> 0, position |-> START, loading |-> 0]
  /\ seen = lastState
  /\ stop = FALSE /\ events = 0 /\ loops = 0

ClientNext ==
  \/ \E device \in Devices : Press(device)
  \/ \E h \in held : Repeat(h) \/ Release(h)
  \/ \E way \in {"ScrollUp", "ScrollDown"} : Scroll(way)
  \/ \E m \in Mods : Modifier(m)
  \/ PollEvents \/ Update \/ DrawFrame \/ Stop
  \/ PollMessages \/ Publish \/ Join

ClientSpec == ClientInit /\ [][ClientNext]_clientVars
-----------------------------------------------------------------------------
(* Properties                                                              *)

\* The player moves only while a key bound to that direction is held, through pauses,
\* repeats, changes of modifiers and keys that share an action or have lost theirs to
\* another; or where the wheel has set the direction, or a key for it went up under other
\* modifiers than it was pressed with, until the next release for that direction.
HeldMoves ==
  \A d \in Directions : view.state[d] =>
    \/ \E h \in held : <<h[1][1], h[1][2], h[2]>> \in DOMAIN bound
                       /\ bound[<<h[1][1], h[1][2], h[2]>>] = d
    \/ d \in loose

\* The world has the player where it last heard of it and loads around the last place
\* that was not locked, whatever came between two of its ticks; what it publishes is
\* never ahead of that, and the main loop never draws a state of the future.
WorldFollows ==
  LET unlocked == {i \in 1 .. handled : ~ sent[i].locked}
      latest == IF unlocked = {} THEN 0 ELSE CHOOSE i \in unlocked : \A j \in unlocked : j <= i
  IN  /\ world.loading = IF latest = 0 THEN 0 ELSE sent[latest].position
      /\ world.position = IF handled = 0 THEN START ELSE sent[handled].position
      /\ world.pc # "tick" => lastState.position = world.position /\ lastState.loading = world.loading
      /\ seen.tick <= lastState.tick

\* The player moves as the keys that are held say (input_event_adapter.cpp, gameview.cpp),
\* and the world follows the newest message of the client.
ClientSound == HeldMoves /\ WorldFollows
=============================================================================
