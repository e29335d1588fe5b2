------------------------------- MODULE Viewers -------------------------------
(***************************************************************************)
(* Who may look at the mini app: its owner, and the members of the channel *)
(* that is linked.  Every request is checked on a worker thread, against   *)
(* two caches: the credentials and the linked channel, read from the data  *)
(* base of the service, and what Telegram said about a membership.         *)
(***************************************************************************)
EXTENDS Naturals

CONSTANTS
    Channels,            \* channels the owner links
    Checks,              \* worker threads
    CredTtl, MemberTtl,  \* _CRED_CACHE_TTL_S and _CACHE_TTL_S, in ticks
    MaxViewerTicks, MaxViewerEvents \* bounds of the run

ASSUME ViewersAssumption ==
    /\ {CredTtl, MemberTtl} \subseteq Nat \ {0}
    /\ {MaxViewerTicks, MaxViewerEvents} \subseteq Nat
    /\ 0 \notin Channels

VARIABLES
    linkedChannel, \* kv channel_id, 0 when none
    memberOf,      \* channels the viewer is a member of, as Telegram knows it
    credCache,     \* _cred_cache: [channel, left]; left is the ticks it still counts
    memberCache,   \* _membership_cache of this viewer: channel -> [allowed, left]
    checks,        \* thread -> [pc, channel, allowed, left]
    sinceLinked,   \* channel -> ticks since it was linked, Never at most
    sinceMember,   \* channel -> ticks since the viewer was a member
    admissions,    \* the channels of the admissions of the last step
    vwLeft         \* ticks and events still to come

viewersVars == <<linkedChannel, memberOf, credCache, memberCache, checks, sinceLinked,
                 sinceMember, admissions, vwLeft>>

Never == MaxViewerTicks + 1
Absent == [allowed |-> FALSE, left |-> 0]
NoCheck == [pc |-> "idle", channel |-> 0, allowed |-> FALSE, left |-> 0]
Minus(n) == IF n = 0 THEN 0 ELSE n - 1
Older(n) == IF n = Never THEN n ELSE n + 1

ViewersInit ==
    /\ linkedChannel \in Channels /\ memberOf \in SUBSET {linkedChannel}
    /\ credCache = [channel |-> 0, left |-> 0]
    /\ memberCache = [c \in Channels |-> Absent]
    /\ checks = [t \in Checks |-> NoCheck]
    /\ sinceLinked = [c \in Channels |-> IF c = linkedChannel THEN 0 ELSE Never]
    /\ sinceMember = [c \in Channels |-> IF c \in memberOf THEN 0 ELSE Never]
    /\ admissions = {}
    /\ vwLeft = [ticks |-> MaxViewerTicks, events |-> MaxViewerEvents]

Quiet == UNCHANGED <<linkedChannel, memberOf, sinceLinked, sinceMember, vwLeft>>
Admit(c) == admissions' = {c}
Nobody == admissions' = {}

-----------------------------------------------------------------------------
(* viewer_ok, past the dev bypass.  The signature of initData is checked     *)
(* with the token of the same credentials; a check that fails ends here.     *)

\* _resolve_credentials: without a hit the data base is read, and a failing
\* read gives that no channel is linked.  What was read counts from before the
\* read, and is cached after it.
CredentialsRead(t) ==
    /\ checks[t] = NoCheck /\ credCache.left = 0
    /\ \E c \in {linkedChannel, 0} :
          checks' = [checks EXCEPT ![t] = [pc |-> "keep", channel |-> c,
                                           allowed |-> FALSE, left |-> CredTtl]]
    /\ Nobody /\ UNCHANGED <<credCache, memberCache>> /\ Quiet
ResolvedTo(t, c) ==
    \/ /\ checks[t] = NoCheck /\ credCache.left > 0
       /\ c = credCache.channel /\ UNCHANGED credCache
    \/ /\ checks[t].pc = "keep" /\ c = checks[t].channel
       /\ credCache' = [channel |-> c, left |-> checks[t].left]

\* _check_membership: a hit answers; otherwise the moment of the check is kept
\* while Telegram is asked.
ViewerArrives(t) ==
    /\ \E c \in Channels \union {0} :
          /\ ResolvedTo(t, c)
          /\ \/ c = 0 /\ Nobody /\ checks' = [checks EXCEPT ![t] = NoCheck]
             \/ /\ c # 0 /\ memberCache[c].left > 0
                /\ IF memberCache[c].allowed THEN Admit(c) ELSE Nobody
                /\ checks' = [checks EXCEPT ![t] = NoCheck]
             \/ /\ c # 0 /\ memberCache[c].left = 0
                /\ checks' = [checks EXCEPT ![t] = [pc |-> "ask", channel |-> c,
                                                    allowed |-> FALSE, left |-> MemberTtl]]
                /\ Nobody
    /\ UNCHANGED memberCache /\ Quiet

\* getChatMember: what Telegram knows now, or a denial when the call fails.
TelegramSays(t) ==
    /\ checks[t].pc = "ask"
    /\ \E says \in {checks[t].channel \in memberOf, FALSE} :
          checks' = [checks EXCEPT ![t].pc = "store", ![t].allowed = says]
    /\ Nobody /\ UNCHANGED <<credCache, memberCache>> /\ Quiet

\* Mutant: the answer is kept for the viewer alone, whatever the channel.
ViewerAnswered_AnyChannel(t) ==
    /\ checks[t].pc = "store"
    /\ memberCache' = [c \in Channels |-> [allowed |-> checks[t].allowed, left |-> checks[t].left]]
    /\ IF checks[t].allowed THEN Admit(checks[t].channel) ELSE Nobody
    /\ checks' = [checks EXCEPT ![t] = NoCheck]
    /\ UNCHANGED credCache /\ Quiet
ViewerAnswered(t) ==
    /\ checks[t].pc = "store"
    /\ memberCache' = [memberCache EXCEPT ![checks[t].channel] =
                          [allowed |-> checks[t].allowed, left |-> checks[t].left]]
    /\ IF checks[t].allowed THEN Admit(checks[t].channel) ELSE Nobody
    /\ checks' = [checks EXCEPT ![t] = NoCheck]
    /\ UNCHANGED credCache /\ Quiet

-----------------------------------------------------------------------------
(* The owner, Telegram and the clock *)

OnEvent == /\ vwLeft.events > 0 /\ vwLeft' = [vwLeft EXCEPT !.events = @ - 1]
           /\ Nobody /\ UNCHANGED <<credCache, memberCache, checks>>

\* /channel: linked, or unlinked.
OwnerLinks(c) ==
    /\ c # linkedChannel /\ OnEvent
    /\ linkedChannel' = c
    /\ sinceLinked' = [d \in Channels |-> IF d = c THEN 0 ELSE sinceLinked[d]]
    /\ UNCHANGED <<memberOf, sinceMember>>

MembershipChanges(c) ==
    /\ OnEvent
    /\ memberOf' = IF c \in memberOf THEN memberOf \ {c} ELSE memberOf \union {c}
    /\ sinceMember' = [sinceMember EXCEPT ![c] = 0]
    /\ UNCHANGED <<linkedChannel, sinceLinked>>

\* The call to Telegram ends within 5 s and the read within one, less than a tick
\* of either cache.
Awaited(t) == \/ checks[t].pc = "keep" /\ checks[t].left < CredTtl
              \/ checks[t].pc \in {"ask", "store"} /\ checks[t].left < MemberTtl
ViewerTick ==
    /\ vwLeft.ticks > 0 /\ vwLeft' = [vwLeft EXCEPT !.ticks = @ - 1]
    /\ \A t \in Checks : ~Awaited(t)
    /\ credCache' = [credCache EXCEPT !.left = Minus(@)]
    /\ memberCache' = [c \in Channels |-> [memberCache[c] EXCEPT !.left = Minus(@)]]
    /\ checks' = [t \in Checks |-> [checks[t] EXCEPT !.left = Minus(@)]]
    /\ sinceLinked' = [c \in Channels |-> IF c = linkedChannel THEN 0 ELSE Older(sinceLinked[c])]
    /\ sinceMember' = [c \in Channels |-> IF c \in memberOf THEN 0 ELSE Older(sinceMember[c])]
    /\ Nobody /\ UNCHANGED <<linkedChannel, memberOf>>

ViewersNext ==
    \/ \E t \in Checks : \/ CredentialsRead(t) \/ ViewerArrives(t)
                         \/ TelegramSays(t) \/ ViewerAnswered(t)
    \/ \E c \in Channels \union {0} : OwnerLinks(c)
    \/ \E c \in Channels : MembershipChanges(c)
    \/ ViewerTick
ViewersSpec == ViewersInit /\ [][ViewersNext]_viewersVars

-----------------------------------------------------------------------------
(* Properties *)

ViewersTypeOK ==
    /\ linkedChannel \in Channels \union {0} /\ memberOf \subseteq Channels
    /\ credCache.channel \in Channels \union {0} /\ credCache.left \in 0..CredTtl
    /\ \A c \in Channels : memberCache[c].left \in 0..MemberTtl
    /\ \A t \in Checks : checks[t].channel \in Channels \union {0}
    /\ sinceLinked \in [Channels -> 0..Never] /\ sinceMember \in [Channels -> 0..Never]

\* "a /channel unlink+relink ... can't have a stale grant served back for the new
\* channel": who is admitted was a member of that very channel no longer ago than
\* an answer of Telegram is kept, and the channel was linked no longer ago than
\* the credentials are, with the time of one check added; also when two checks of
\* one viewer overtake each other.
AdmissionIsRecent ==
    \A c \in admissions : /\ sinceMember[c] <= MemberTtl
                          /\ sinceLinked[c] <= CredTtl + 1
=============================================================================
