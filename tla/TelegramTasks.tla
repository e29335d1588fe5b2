--------------------------- MODULE TelegramTasks ---------------------------
(***************************************************************************)
(* What the service does in Telegram by itself: the LIVE message of an     *)
(* open basket, edited in place and frozen when it closes; the pinned      *)
(* help message; and the poller that takes the owner's updates.            *)
(*                                                                         *)
(* A request is a step of its own, made by a worker thread: it may fail,   *)
(* or be carried out with its answer lost.  _apply_telegram replaces the   *)
(* client and the two tasks at any moment, but cannot stop a thread.       *)
(***************************************************************************)
EXTENDS Naturals, Sequences, FiniteSets

CONSTANTS
    Linked,          \* a channel is linked
    MaxUpdates, MaxCycles, MaxTelegramTrouble \* bounds of the run

ASSUME TelegramAssumption == /\ Linked \in BOOLEAN
                             /\ {MaxUpdates, MaxCycles, MaxTelegramTrouble} \subseteq Nat

VARIABLES
    (* Telegram *)
    posts,        \* messages in the order of sending: [kind, chat, live]
    confirmed,    \* updates up to here are not delivered again
    arrived,      \* updates of the owner so far
    (* kv *)
    savedIds,     \* [owner, channel]: the ids of the LIVE messages, 0 when empty
    pinned,       \* [id, version]: pinned_message_id and pinned_help_version
    (* the service *)
    client,       \* the chat of the client
    helpVersion,  \* PINNED_HELP_VERSION of the code that runs
    ids,          \* TickerState
    tick,         \* [pc, chat]: ticker_tick in its thread
    pinner,       \* [pc, chat, id]: pinned_tick of the present task
    orphan,       \* the same, left behind by a task that was replaced
    poller,       \* [pc, offset, batch]
    (* the chart and history *)
    exposed,      \* positions in the heartbeat
    handled,      \* how often each update was carried out
    strays,       \* [live, pin]: what may have left a message behind
    stops,        \* restarts of the service and of its tasks
    tgLeft        \* cycles and troubles still to come

telegramVars == <<posts, confirmed, arrived, savedIds, pinned, client, helpVersion, ids, tick,
                  pinner, orphan, poller, exposed, handled, strays, stops, tgLeft>>
tickerSide == <<savedIds, ids, tick>>
pinSide == <<pinned, pinner, orphan>>
pollSide == <<confirmed, arrived, poller, handled>>
processSide == <<client, helpVersion, stops>>

NoIds == [owner |-> 0, channel |-> 0]
NoTick == [pc |-> "idle", chat |-> 0]
NoPin == [pc |-> "idle", chat |-> 0, id |-> 0]
FreshPoller == [pc |-> "ask", offset |-> 1, batch |-> <<>>]

TelegramInit ==
    /\ posts = <<>> /\ confirmed = 0 /\ arrived = 0
    /\ savedIds = NoIds /\ pinned = [id |-> 0, version |-> 0]
    /\ client = 1 /\ helpVersion = 1 /\ ids = NoIds /\ tick = NoTick
    /\ pinner = NoPin /\ orphan = NoPin /\ poller = FreshPoller
    /\ exposed = FALSE /\ handled = [u \in 1..MaxUpdates |-> 0]
    /\ strays = [live |-> 0, pin |-> 0] /\ stops = 0
    /\ tgLeft = [cycles |-> MaxCycles, trouble |-> MaxTelegramTrouble]

Fails == /\ tgLeft.trouble > 0
         /\ tgLeft' = [tgLeft EXCEPT !.trouble = @ - 1]
Works == UNCHANGED tgLeft
Stray(kind) == strays' = [strays EXCEPT ![kind] = @ + 1]
NoStray == UNCHANGED strays

Sent(kind, chat) == posts' = Append(posts, [kind |-> kind, chat |-> chat, live |-> TRUE])
NewId == Len(posts) + 1
Exists(id, chat) == id \in DOMAIN posts /\ posts[id].chat = chat

-----------------------------------------------------------------------------
(* The LIVE message: ticker_tick, at most one at a time for a symbol *)

TickGoto(pc) == tick' = [tick EXCEPT !.pc = pc]
TickEnds == tick' = NoTick
Ticking(pc) == tick.pc = pc
OnlyTicker == UNCHANGED <<pinSide, pollSide, processSide, exposed>>

\* A heartbeat while no tick of its symbol runs; an edit only after
\* TICKER_MIN_EDIT_S and when the text has changed.
TickStarts ==
    /\ Ticking("idle")
    /\ \/ exposed /\ ids.owner = 0 /\ tick' = [pc |-> "post", chat |-> client]
       \/ exposed /\ ids.owner # 0 /\ tick' = [pc |-> "edit", chat |-> client]
       \/ ~exposed /\ ids.owner # 0 /\ tick' = [pc |-> "freeze", chat |-> client]
    /\ UNCHANGED <<posts, savedIds, ids>> /\ OnlyTicker /\ Works /\ NoStray

\* Without an answer nothing is remembered: the next heartbeat posts again.
TickPosts ==
    /\ Ticking("post")
    /\ \/ /\ Sent("owner", tick.chat) /\ ids' = [ids EXCEPT !.owner = NewId]
          /\ TickGoto("postChannel") /\ Works /\ NoStray
       \/ Sent("owner", tick.chat) /\ TickEnds /\ Fails /\ Stray("live") /\ UNCHANGED ids
       \/ TickEnds /\ Fails /\ NoStray /\ UNCHANGED <<posts, ids>>
    /\ UNCHANGED savedIds /\ OnlyTicker

TickPostsChannel ==
    /\ Ticking("postChannel") /\ TickGoto("persist")
    /\ \/ /\ Linked /\ Sent("channel", 0) /\ ids' = [ids EXCEPT !.channel = NewId]
          /\ Works
       \/ ~Linked /\ Works /\ UNCHANGED <<posts, ids>>
       \/ Linked /\ Fails /\ UNCHANGED <<posts, ids>>
    /\ UNCHANGED savedIds /\ OnlyTicker /\ NoStray

\* _kv_write is fail-open.
TickPersists ==
    /\ Ticking("persist") /\ TickEnds
    /\ \/ savedIds' = ids /\ Works
       \/ Fails /\ UNCHANGED savedIds
    /\ UNCHANGED <<posts, ids>> /\ OnlyTicker /\ NoStray

Edited(id, live) == posts' = [posts EXCEPT ![id].live = live]
\* No answer and an edit of what is not there look the same: the transport makes
\* None of every status but 200, so that the branch that forgets a message "not
\* found" is not reached, and the next heartbeat tries again.
TickEdits ==
    /\ Ticking("edit")
    /\ \/ /\ Exists(ids.owner, tick.chat) /\ Edited(ids.owner, TRUE) /\ TickGoto("editChannel")
          /\ Works
       \/ ~Exists(ids.owner, tick.chat) /\ Works /\ TickEnds /\ UNCHANGED posts
       \/ Exists(ids.owner, tick.chat) /\ Fails /\ TickEnds /\ UNCHANGED posts
    /\ UNCHANGED <<ids, savedIds>> /\ OnlyTicker /\ NoStray

TickEditsChannel ==
    /\ Ticking("editChannel") /\ TickGoto("persist")
    /\ \/ Linked /\ ids.channel # 0 /\ Edited(ids.channel, TRUE) /\ Works
       \/ ~(Linked /\ ids.channel # 0) /\ Works /\ UNCHANGED posts
       \/ Linked /\ ids.channel # 0 /\ Fails /\ UNCHANGED posts
    /\ UNCHANGED <<ids, savedIds>> /\ OnlyTicker /\ NoStray

\* The CLOSED edit is tried once, and everything is forgotten either way.
TickFreezes ==
    /\ Ticking("freeze") /\ TickGoto("freezeChannel")
    /\ \/ /\ Exists(ids.owner, tick.chat) /\ Edited(ids.owner, FALSE) /\ Works /\ NoStray
       \/ ~Exists(ids.owner, tick.chat) /\ Works /\ NoStray /\ UNCHANGED posts
       \/ Exists(ids.owner, tick.chat) /\ Fails /\ Stray("live") /\ UNCHANGED posts
    /\ UNCHANGED <<ids, savedIds>> /\ OnlyTicker

TickFreezesChannel ==
    /\ Ticking("freezeChannel") /\ TickGoto("clear")
    /\ \/ Linked /\ ids.channel # 0 /\ Edited(ids.channel, FALSE) /\ Works
       \/ ~(Linked /\ ids.channel # 0) /\ Works /\ UNCHANGED posts
       \/ Linked /\ ids.channel # 0 /\ Fails /\ UNCHANGED posts
    /\ UNCHANGED <<ids, savedIds>> /\ OnlyTicker /\ NoStray

\* _clear_persisted is fail-open as well.
TickClears ==
    /\ Ticking("clear") /\ ids' = NoIds /\ TickEnds
    /\ \/ savedIds' = NoIds /\ Works
       \/ Fails /\ UNCHANGED savedIds
    /\ UNCHANGED posts /\ OnlyTicker /\ NoStray

-----------------------------------------------------------------------------
(* The pinned message: pinned_tick, by the editor or by a thread that was   *)
(* left behind.  PinStep takes what `p` holds to <<its next, pinned'>>.     *)

OnlyPin == UNCHANGED <<tickerSide, pollSide, processSide, exposed>>

\* Nothing to do while the saved version is the present one.
PinStarts ==
    /\ pinner.pc = "idle"
    /\ \/ pinned.id = 0 /\ pinner' = [pc |-> "send", chat |-> client, id |-> 0]
       \/ /\ pinned.id # 0 /\ pinned.version # helpVersion
          /\ pinner' = [pc |-> "edit", chat |-> client, id |-> pinned.id]
    /\ UNCHANGED <<posts, pinned, orphan>> /\ OnlyPin /\ Works /\ NoStray

PinSends(p, next) ==
    /\ p.pc = "send"
    /\ \/ Sent("pinned", p.chat) /\ next = [p EXCEPT !.pc = "save", !.id = NewId]
          /\ Works /\ NoStray
       \/ Sent("pinned", p.chat) /\ next = NoPin /\ Fails /\ Stray("pin")
       \/ next = NoPin /\ Fails /\ NoStray /\ UNCHANGED posts
    /\ UNCHANGED pinned

\* A failed edit, of whatever kind, forgets the message.
PinEdits(p, next) ==
    /\ p.pc = "edit"
    /\ \/ Exists(p.id, p.chat) /\ next = [p EXCEPT !.pc = "version"]
          /\ Works /\ NoStray /\ UNCHANGED pinned
       \/ ~Exists(p.id, p.chat) /\ next = NoPin
          /\ Works /\ NoStray /\ pinned' = [pinned EXCEPT !.id = 0]
       \/ Exists(p.id, p.chat) /\ next = NoPin
          /\ Fails /\ Stray("pin") /\ pinned' = [pinned EXCEPT !.id = 0]
    /\ UNCHANGED posts

\* The id of a new message, and after it the version: two writes of kv, of which
\* an edit makes the second only.  A write that fails ends the tick.
PinSaves(p, next) ==
    /\ p.pc = "save" /\ UNCHANGED posts
    /\ \/ /\ next = [p EXCEPT !.pc = "version"] /\ pinned' = [pinned EXCEPT !.id = p.id]
          /\ Works /\ NoStray
       \/ next = NoPin /\ Fails /\ Stray("pin") /\ UNCHANGED pinned
PinVersion(p, next) ==
    /\ p.pc = "version" /\ next = NoPin /\ UNCHANGED posts /\ NoStray
    /\ \/ pinned' = [pinned EXCEPT !.version = helpVersion] /\ Works
       \/ Fails /\ UNCHANGED pinned

PinStep(p, next) == PinSends(p, next) \/ PinEdits(p, next) \/ PinSaves(p, next)
                    \/ PinVersion(p, next)
EditorPins == \E next \in {NoPin, [pinner EXCEPT !.pc = "version"],
                           [pinner EXCEPT !.pc = "save", !.id = NewId]} :
                 PinStep(pinner, next) /\ pinner' = next /\ UNCHANGED orphan /\ OnlyPin
OrphanPins == \E next \in {NoPin, [orphan EXCEPT !.pc = "version"],
                           [orphan EXCEPT !.pc = "save", !.id = NewId]} :
                 PinStep(orphan, next) /\ orphan' = next /\ UNCHANGED pinner /\ OnlyPin

-----------------------------------------------------------------------------
(* The poller *)

OnlyPoller == UNCHANGED <<posts, tickerSide, pinSide, processSide, exposed>> /\ NoStray
Range1(a, b) == [n \in 1..(IF a <= b THEN b - a + 1 ELSE 0) |-> a + n - 1]
Below(offset) == IF offset - 1 > confirmed THEN offset - 1 ELSE confirmed

\* getUpdates confirms what lies below the offset and returns the rest.
PollAsks ==
    /\ poller.pc = "ask"
    /\ \/ /\ confirmed' = Below(poller.offset)
          /\ Below(poller.offset) < arrived
          /\ poller' = [poller EXCEPT !.pc = "handle",
                                      !.batch = Range1(Below(poller.offset) + 1, arrived)]
          /\ Works
       \/ /\ confirmed' = Below(poller.offset) /\ Fails /\ UNCHANGED poller
    /\ UNCHANGED <<arrived, handled>> /\ OnlyPoller

\* The offset moves before the update is carried out.  Carrying it out may raise:
\* the rest of the batch is dropped, and asked for again.
Carried(u) == handled' = [handled EXCEPT ![u] = @ + 1]
Past(u) == [poller EXCEPT !.offset = u + 1, !.batch = Tail(@)]
\* Mutant: the offset moves after the update is carried out.
PollHandles_Late ==
    /\ poller.pc = "handle" /\ poller.batch # <<>>
    /\ Carried(Head(poller.batch))
    /\ \/ poller' = Past(Head(poller.batch)) /\ Works
       \/ poller' = [poller EXCEPT !.pc = "ask", !.batch = <<>>] /\ Fails
    /\ UNCHANGED <<confirmed, arrived>> /\ OnlyPoller
PollHandles ==
    /\ poller.pc = "handle" /\ poller.batch # <<>>
    /\ Carried(Head(poller.batch))
    /\ \/ poller' = Past(Head(poller.batch)) /\ Works
       \/ /\ poller' = [Past(Head(poller.batch)) EXCEPT !.pc = "ask", !.batch = <<>>]
          /\ Fails
    /\ UNCHANGED <<confirmed, arrived>> /\ OnlyPoller
BatchEnds ==
    /\ poller.pc = "handle" /\ poller.batch = <<>>
    /\ poller' = [poller EXCEPT !.pc = "ask"]
    /\ UNCHANGED <<confirmed, arrived, handled>> /\ OnlyPoller /\ Works

-----------------------------------------------------------------------------
(* The client and the process *)

InHand(p) == p.pc = "save" /\ pinned.id # p.id

\* A profile with new credentials: new tasks, the threads go on.  The messages
\* of the old chat stay as they are.
ApplyTelegram ==
    /\ Fails
    /\ client' \in {client, client + 1}
    /\ poller' = FreshPoller
    /\ orphan.pc = "idle" /\ orphan' = pinner /\ pinner' = NoPin
    /\ strays' = [live |-> strays.live + (IF client' # client THEN 1 ELSE 0),
                  pin |-> strays.pin + (IF client' # client THEN 1 ELSE 0)
                          + (IF pinner.pc # "idle" THEN 1 ELSE 0)]
    /\ stops' = stops + 1
    /\ UNCHANGED <<posts, tickerSide, pinned, confirmed, arrived, handled, helpVersion, exposed>>

\* lifespan: the ids are read back; a deploy may bring a new text of the help.
TelegramRestart ==
    /\ Fails
    /\ helpVersion' \in {helpVersion, helpVersion + 1}
    /\ ids' = IF savedIds.owner = 0 THEN NoIds ELSE savedIds
    /\ tick' = NoTick /\ pinner' = NoPin /\ orphan' = NoPin /\ poller' = FreshPoller
    /\ strays' = [live |-> strays.live + (IF ids'.owner # ids.owner THEN 1 ELSE 0),
                  pin |-> strays.pin + Cardinality({p \in {1, 2} :
                              InHand(IF p = 1 THEN pinner ELSE orphan)})]
    /\ stops' = stops + 1
    /\ UNCHANGED <<posts, savedIds, pinned, confirmed, arrived, handled, client, exposed>>

BasketOpensOrCloses ==
    /\ tgLeft.cycles > 0 /\ tgLeft' = [tgLeft EXCEPT !.cycles = @ - 1]
    /\ exposed' = ~exposed
    /\ UNCHANGED <<posts, tickerSide, pinSide, pollSide, processSide, strays>>

UpdateArrives ==
    /\ arrived < MaxUpdates /\ arrived' = arrived + 1
    /\ UNCHANGED <<confirmed, poller, handled>> /\ OnlyPoller /\ Works

TickerStep == TickStarts \/ TickPosts \/ TickPostsChannel \/ TickPersists \/ TickEdits
              \/ TickEditsChannel \/ TickFreezes \/ TickFreezesChannel \/ TickClears
PinnedStep == PinStarts \/ EditorPins \/ OrphanPins
PollerStep == PollAsks \/ PollHandles \/ BatchEnds
TelegramNext == \/ TickerStep \/ PinnedStep \/ PollerStep \/ ApplyTelegram \/ TelegramRestart
                \/ BasketOpensOrCloses \/ UpdateArrives

\* Heartbeats go on, a request ends within its timeout, the loop of the poller
\* survives every exception.
TelegramFairness == WF_telegramVars(TickerStep) /\ WF_telegramVars(PollerStep)
TelegramSpec == TelegramInit /\ [][TelegramNext]_telegramVars /\ TelegramFairness

-----------------------------------------------------------------------------
(* Properties *)

TelegramTypeOK ==
    /\ {ids.owner, ids.channel, savedIds.owner, savedIds.channel, pinned.id}
          \subseteq 0..Len(posts)
    /\ \A u \in DOMAIN poller.batch : poller.batch[u] \in 1..arrived
    /\ poller.offset \in 1..(arrived + 1) /\ confirmed <= arrived
    /\ ids.owner # 0 => posts[ids.owner].kind = "owner"
    /\ ids.channel # 0 => posts[ids.channel].kind = "channel"

\* "a service restart mid-trade RESUMES editing the same Telegram message instead
\* of posting a second one", and the pinned help is "create-pin-once": there is
\* one of each, but for answers that were lost, edits that failed, a change of
\* the chat, and restarts between a message and its id in the store.  An update is
\* carried out again only by a restart of the service or of its tasks.
LiveOnes == {m \in DOMAIN posts : posts[m].kind = "owner" /\ posts[m].live}
OneLive == Cardinality(LiveOnes) <= 1 + strays.live
OnePinned == Cardinality({m \in DOMAIN posts : posts[m].kind = "pinned"}) <= 1 + strays.pin
CarriedOutOnce == \A u \in DOMAIN handled : handled[u] <= 1 + stops

\* One message, one pin, one run of each update.
NothingTwice == OneLive /\ OnePinned /\ CarriedOutOnce
=============================================================================
