----------------------------- MODULE HookSession -----------------------------
(***************************************************************************)
(* hook/hooksession.go and hook/hookmanager.go: the fan-out of one stream. *)
(*                                                                         *)
(* lal creates a hook session when a publisher takes a stream name, calls  *)
(* OnMsg for every message and OnStop when the publisher leaves, one call  *)
(* after another under the lock of its group.  Subscribers (WHEP, SRT,     *)
(* fMP4, Jessibuca) live in goroutines of their own: they look the session *)
(* up by stream name, add themselves to its consumers and remove           *)
(* themselves, at any moment.                                              *)
(*                                                                         *)
(* OnMsg and OnStop walk the consumers with sync.Map.Range, one consumer   *)
(* per step here.  Range visits exactly once every key that is in the map  *)
(* from its beginning to its end; a key that is stored or deleted          *)
(* meanwhile may be visited or not.                                        *)
(***************************************************************************)
EXTENDS RtmpMsg, Sequences, FiniteSets

CONSTANTS
  Subscribers,          \* subscribers, each with a consumer id of its own
  GopCacheNum,          \* hook_config.gop_cache_num
  SingleGopMaxFrameNum, \* hook_config.single_gop_max_frame_num
  Kinds,                \* the kinds of message the stream carries
  MaxMsgs,              \* bound: messages of one publisher
  MaxSessions           \* bound: publishers, one after another

ASSUME HookSessionAssumption ==
  /\ GopCacheNum \in Int
  /\ SingleGopMaxFrameNum \in Nat
  /\ Kinds \subseteq MsgKinds
  /\ MaxMsgs \in Nat
  /\ MaxSessions \in Nat

VARIABLES
  videoheader, audioheader, data, first, last, fed, hist, \* the GOP cache
  session,   \* number of the hook session lal created last, 0 for none
  registry,  \* the session stored under the stream name, 0 for none
  at,        \* what lal's goroutine is doing
  msg,       \* the message OnMsg is walking the consumers with
  hasVideo,  \* HookSession.hasVideo
  owed,      \* consumers in the map since the walk began, not visited yet
  reachable, \* consumers in the map at some point of the walk, not visited yet
  sub,       \* what a subscriber has done so far
  home,      \* the session a subscriber found in the registry
  hasSendVideo, \* consumerInfo.hasSendVideo
  got,       \* history: what a subscriber's OnMsg was called with
  stops      \* history: how often a subscriber's OnStop was called

Cache == INSTANCE GopCache

cacheVars == <<videoheader, audioheader, data, first, last, fed, hist>>
walkVars  == <<at, msg, owed, reachable>>
subVars   == <<sub, home, hasSendVideo, got, stops>>
vars      == <<cacheVars, session, registry, hasVideo, walkVars, subVars>>

\* The consumers in the map of the session that lal drives.
Consumers == {c \in Subscribers : sub[c] = "added" /\ home[c] = session}

Init ==
  /\ Cache!Init
  /\ session = 0
  /\ registry = 0
  /\ at = "gone"
  /\ msg = NoMsg
  /\ hasVideo = FALSE
  /\ owed = {} /\ reachable = {}
  /\ sub = [c \in Subscribers |-> "idle"]
  /\ home = [c \in Subscribers |-> 0]
  /\ hasSendVideo = [c \in Subscribers |-> FALSE]
  /\ got = [c \in Subscribers |-> << >>]
  /\ stops = [c \in Subscribers |-> 0]

-----------------------------------------------------------------------------
(***************************************************************************)
(* lal's goroutine.                                                        *)
(***************************************************************************)

NewHookSession ==
  /\ at = "gone" /\ session < MaxSessions
  /\ session' = session + 1
  /\ registry' = session + 1
  /\ Cache!Renew
  /\ hasVideo' = FALSE
  /\ at' = "live"
  /\ UNCHANGED <<msg, owed, reachable, subVars>>

\* A walk over the consumers begins.
BeginWalk(why, m) ==
  /\ at = "live"
  /\ at' = why
  /\ msg' = m
  /\ owed' = Consumers /\ reachable' = Consumers

OnMsg(m) ==
  /\ fed < MaxMsgs
  /\ BeginWalk("OnMsg", m)
  /\ UNCHANGED <<cacheVars, session, registry, hasVideo, subVars>>

\* What a consumer's OnMsg is called with, and how it came to be sent.
Entry(m, via)    == [kind |-> m.kind, seq |-> m.seq, via |-> via]
Entries(ms, via) == [i \in DOMAIN ms |-> Entry(ms[i], via)]

SeqHeaders ==
  (IF videoheader = NoMsg THEN << >> ELSE <<Entry(videoheader, "header")>>)
  \o (IF audioheader = NoMsg THEN << >> ELSE <<Entry(audioheader, "header")>>)

CachedFrames == Entries(Concatenation(Cache!CachedGops), "cache")

\* Mutants: the cache is replayed on every message; without the headers.
ReplayDueAlways(c) == Cache!GetGopCount > 0
ReplayFramesOnly(c) ==
  IF ~hasSendVideo[c] /\ Cache!GetGopCount > 0 THEN CachedFrames ELSE << >>

\* A consumer that has had no video yet first gets the headers and all the
\* cached GOPs.
ReplayDue(c) == ~hasSendVideo[c] /\ Cache!GetGopCount > 0
Replay(c)    == IF ReplayDue(c) THEN SeqHeaders \o CachedFrames ELSE << >>

\* Whether the consumer has had video when the message itself is looked at.
Started(c) == hasSendVideo[c] \/ ReplayDue(c)

\* Mutants: video starts anywhere; the replay ends the visit.
LiveFromAnyFrame(c) ==
  IF IsVideo(msg) \/ (IsAudio(msg) /\ (~hasVideo \/ Started(c)))
  THEN <<Entry(msg, "live")>> ELSE << >>

LiveUnlessReplayed(c) ==
  IF ReplayDue(c) THEN << >>
  ELSE IF IsVideo(msg) /\ ~Started(c)
       THEN IF IsVideoKeyNalu(msg) THEN SeqHeaders \o <<Entry(msg, "live")>> ELSE << >>
       ELSE LiveFromAnyFrame(c)

\* The message itself: video starts with a key frame, after the headers; audio
\* waits for the video of a stream that has any.
Live(c) ==
  CASE IsVideo(msg) /\ Started(c)  -> <<Entry(msg, "live")>>
    [] IsVideo(msg) /\ ~Started(c) ->
         IF IsVideoKeyNalu(msg) THEN SeqHeaders \o <<Entry(msg, "live")>> ELSE << >>
    [] IsAudio(msg) ->
         IF ~hasVideo \/ Started(c) THEN <<Entry(msg, "live")>> ELSE << >>
    [] OTHER -> << >>

Deliver(c) ==
  /\ at = "OnMsg" /\ c \in reachable
  /\ got' = [got EXCEPT ![c] = @ \o Replay(c) \o Live(c)]
  /\ hasSendVideo' = [hasSendVideo EXCEPT ![c] = Started(c) \/ IsVideoKeyNalu(msg)]
  /\ owed' = owed \ {c} /\ reachable' = reachable \ {c}
  /\ UNCHANGED <<cacheVars, session, registry, hasVideo, at, msg, sub, home, stops>>

\* Only after the walk does the message enter the cache.
EndOnMsg ==
  /\ at = "OnMsg" /\ owed = {}
  /\ hasVideo' = (hasVideo \/ IsVideoKeyNalu(msg))
  /\ Cache!Feed(msg)
  /\ at' = "live" /\ msg' = NoMsg /\ reachable' = {}
  /\ UNCHANGED <<session, registry, owed, subVars>>

OnStop ==
  /\ BeginWalk("OnStop", NoMsg)
  /\ UNCHANGED <<cacheVars, session, registry, hasVideo, subVars>>

\* Mutant: a visited consumer can be visited again.
StopConsumerAgain(c) ==
  /\ at = "OnStop" /\ c \in reachable
  /\ stops' = [stops EXCEPT ![c] = @ + 1]
  /\ owed' = owed \ {c}
  /\ UNCHANGED <<cacheVars, session, registry, hasVideo, at, msg, reachable,
                 sub, home, hasSendVideo, got>>

StopConsumer(c) ==
  /\ at = "OnStop" /\ c \in reachable
  /\ stops' = [stops EXCEPT ![c] = @ + 1]
  /\ owed' = owed \ {c} /\ reachable' = reachable \ {c}
  /\ UNCHANGED <<cacheVars, session, registry, hasVideo, at, msg,
                 sub, home, hasSendVideo, got>>

\* RemoveHookSession deletes whatever is stored under the stream name; the
\* consumers stay in the map of the abandoned session.
EndOnStop ==
  /\ at = "OnStop" /\ owed = {}
  /\ registry' = 0
  /\ at' = "gone" /\ reachable' = {}
  /\ UNCHANGED <<cacheVars, session, hasVideo, msg, owed, subVars>>

-----------------------------------------------------------------------------
(***************************************************************************)
(* Subscribers.                                                            *)
(***************************************************************************)

GetHookSession(c) ==
  /\ sub[c] = "idle" /\ registry # 0
  /\ sub' = [sub EXCEPT ![c] = "found"]
  /\ home' = [home EXCEPT ![c] = registry]
  /\ UNCHANGED <<cacheVars, session, registry, hasVideo, walkVars,
                 hasSendVideo, got, stops>>

\* The session a subscriber found may have stopped by the time it joins.
AddConsumer(c) ==
  /\ sub[c] = "found"
  /\ sub' = [sub EXCEPT ![c] = "added"]
  /\ reachable' = IF at \in {"OnMsg", "OnStop"} /\ home[c] = session
                  THEN reachable \cup {c} ELSE reachable
  /\ UNCHANGED <<cacheVars, session, registry, hasVideo, at, msg, owed,
                 home, hasSendVideo, got, stops>>

RemoveConsumer(c) ==
  /\ sub[c] = "added"
  /\ sub' = [sub EXCEPT ![c] = "removed"]
  /\ owed' = owed \ {c}
  /\ UNCHANGED <<cacheVars, session, registry, hasVideo, at, msg, reachable,
                 home, hasSendVideo, got, stops>>

-----------------------------------------------------------------------------
Publisher ==
  \/ NewHookSession
  \/ \E k \in Kinds : OnMsg([kind |-> k, seq |-> fed + 1])
  \/ EndOnMsg
  \/ OnStop
  \/ EndOnStop
  \/ \E c \in Subscribers : Deliver(c) \/ StopConsumer(c)

Next ==
  \/ Publisher
  \/ \E c \in Subscribers : GetHookSession(c) \/ AddConsumer(c) \/ RemoveConsumer(c)

Spec == Init /\ [][Next]_vars
-----------------------------------------------------------------------------
(***************************************************************************)
(* Properties.  "hist" is the stream of the current session, so what a     *)
(* subscriber got is compared with the stream while its session lasts.     *)
(***************************************************************************)

EntryType == [kind : MsgKinds, seq : Nat, via : {"header", "cache", "live"}]

\* Types; a walk owes a visit only to consumers it can reach.
TypeOK ==
  /\ Cache!TypeOK
  /\ session \in 0 .. MaxSessions
  /\ registry \in {0, session}
  /\ at \in {"gone", "live", "OnMsg", "OnStop"}
  /\ msg \in Message \cup {NoMsg}
  /\ hasVideo \in BOOLEAN
  /\ owed \subseteq reachable /\ reachable \subseteq Subscribers
  /\ sub \in [Subscribers -> {"idle", "found", "added", "removed"}]
  /\ home \in [Subscribers -> 0 .. session]
  /\ hasSendVideo \in [Subscribers -> BOOLEAN]
  /\ got \in [Subscribers -> Seq(EntryType)]
  /\ stops \in [Subscribers -> 0 .. 1]

\* The subscribers whose record can be compared with hist.
Watching == {c \in Subscribers : home[c] = session}

IsPicture(e)   == e.kind \in {"key", "inter"}
Pictures(c)    == {i \in DOMAIN got[c] : IsPicture(got[c][i])}
FirstPicture(c) == CHOOSE i \in Pictures(c) : \A j \in Pictures(c) : i <= j

\* The first picture a subscriber gets is a key frame, however it races with
\* the publisher: a decoder cannot start on any other.
StartsOnKeyFrame ==
  \A c \in Watching : Pictures(c) # {} => got[c][FirstPicture(c)].kind = "key"

\* The number of the last message of the given kind before message n of the
\* stream, 0 when there is none; and of the last one before entry i of c.
InForce(kind, n) ==
  LET before == {p \in DOMAIN hist : hist[p].kind = kind /\ hist[p].seq < n}
  IN  IF before = {} THEN 0 ELSE hist[CHOOSE p \in before : \A q \in before : q <= p].seq

Announced(c, kind, i) ==
  LET before == {p \in 1 .. i - 1 : got[c][p].kind = kind}
  IN  IF before = {} THEN 0
      ELSE got[c][CHOOSE p \in before : \A q \in before : q <= p].seq

HeaderKind(e) == IF IsPicture(e) THEN "videoHeader" ELSE "aacHeader"

\* From its first picture on, a subscriber decodes no picture and no AAC frame
\* with a header older than the one that was in force when the frame was
\* published, and a frame sent live with exactly that one.  (Cached frames may
\* come after a newer header: the cache keeps only the last one.)
HeadersInForce ==
  \A c \in Watching : Pictures(c) # {} =>
    \A i \in FirstPicture(c) .. Len(got[c]) :
      LET e == got[c][i]
          announced == Announced(c, HeaderKind(e), i)
          inForce   == InForce(HeaderKind(e), e.seq)
      IN  e.kind \in {"key", "inter", "aac"} =>
            IF e.via = "live" THEN announced = inForce ELSE announced >= inForce

\* Apart from the headers that introduce it, a subscriber's stream never
\* repeats a message and never goes back, although part of it comes from the
\* cache and part from the publisher.
InOrderOnce ==
  \A c \in Watching : \A i, j \in DOMAIN got[c] :
    i < j /\ got[c][i].via # "header" /\ got[c][j].via # "header"
      => got[c][i].seq < got[c][j].seq

\* Without a frame limit, a subscriber that stays has every frame from its
\* first picture to the newest one whenever the publisher is between two
\* messages: nothing falls between the cache and the live messages.
NoGapWhileAttached ==
  SingleGopMaxFrameNum = 0 /\ at = "live" =>
    \A c \in Consumers : Pictures(c) # {} =>
      LET start == got[c][FirstPicture(c)].seq
          had   == {got[c][i].seq : i \in {j \in DOMAIN got[c] : got[c][j].via # "header"}}
      IN  \A p \in DOMAIN hist :
            Cache!IsFrame(hist[p]) /\ hist[p].seq >= start => hist[p].seq \in had
=============================================================================
