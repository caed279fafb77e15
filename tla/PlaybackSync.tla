---------------------------- MODULE PlaybackSync ----------------------------
(* One channel's playback in several browsers: the owner's tabs, operators    *)
(* with remote control, viewers that accept sync. A command is shown at once   *)
(* and posted on two routes, the playlist's (saved, then told through the      *)
(* broker) and the player's (saved, then told directly); a browser follows     *)
(* what it is told. Positions are left out, and so is what depends on them.    *)
EXTENDS Integers, Sequences, FiniteSets, Bags

CONSTANTS Clients, Tracks, None,
          Casts,            \* who may be there: a role and a channel for each client
          MaxMoves,         \* bound: commands, clients that join, requests lost
          MaxOverlaps       \* bound: those that do not wait until all is quiet

Roles == {"owner", "operator", "viewer"}
ASSUME SyncAssumption ==
  /\ None \notin Clients \cup Tracks /\ {MaxMoves, MaxOverlaps} \subseteq Nat
  /\ None \notin [step : {"sent", "answered"}, had : Tracks \cup {None}, track : Tracks \cup {None}]
  /\ Casts \subseteq [role : [Clients -> Roles], tuned : SUBSET Clients]

VARIABLES
  role, tuned,          \* who a client is; those with this channel selected
  follow,               \* viewers that accept sync, operators in control mode
  me,                   \* per client: its slot's track, feed.playing
  asked,                \* per client: the state it asked the server for, or was answered
  inbox,                \* per client: socket messages, in order
  player, playback,     \* Redis: of the channel's player, of the playlist
  net, fanout,          \* requests under way; events of the playlist, not told yet
  want,                 \* history: what the last command asked for, if nothing overlapped it
  moves, overlaps

cast == <<role, tuned, follow>>
server == <<player, playback, fanout>>
count == <<moves, overlaps>>
vars == <<cast, me, asked, inbox, server, net, want, count>>

Msg(kind, c, t, paused) == [kind |-> kind, from |-> c, track |-> t, paused |-> paused]
Post(msgs) == net' = net (+) SetToBag(msgs)
(* had: the track at the click, which the answer is compared with.             *)
Asked(c) == [step |-> "sent", had |-> me[c].track, track |-> None]
Route(m) == IF m.kind \in {"play", "hold"} THEN "player" ELSE "playlist"

Follows(c) == role[c] = "owner" \/ c \in follow
Announces(c) == role[c] = "owner" \/ (role[c] = "operator" /\ c \in follow)
Quiet ==
  /\ net = EmptyBag /\ fanout = EmptyBag
  /\ \A c \in Clients : inbox[c] = <<>> /\ asked[c] = None

-----------------------------------------------------------------------------
(* What a player does with a track or a state (usePlaybackFeed, Player).       *)
(* A new track plays, whatever was paused.                                     *)
StaysPaused(c, t) == [me[c] EXCEPT !.track = t]
Shows(c, t) ==
  IF t = me[c].track THEN me[c] ELSE [track |-> t, playing |-> TRUE]

Plays(c, p) == [me[c] EXCEPT !.playing = p]

(* playTrack posts on both routes; the player's goes to the selected channel.  *)
Announcement(c, t) ==
  IF ~Announces(c) THEN {}
  ELSE {Msg("playnow", c, t, FALSE)} \cup IF c \in tuned THEN {Msg("play", c, t, FALSE)} ELSE {}

State(c, p) ==
  IF ~Announces(c) \/ me[c].track = None THEN {}
  ELSE {Msg("pause", c, me[c].track, ~p)} \cup IF c \in tuned THEN {Msg("hold", c, None, ~p)} ELSE {}

(* What a client makes of a message: nothing unless it follows; a pause or a   *)
(* seek for another track switches to that track, and says so.                 *)
Reaction(s, send) == [s |-> s, send |-> send]
AnnounceAll(c, m) ==
  IF ~Follows(c) THEN Reaction(me[c], {})
  ELSE IF m.kind # "hold" /\ m.track # me[c].track THEN Reaction(Shows(c, m.track), Announcement(c, m.track))
  ELSE IF m.kind \in {"pause", "hold"} THEN Reaction(Plays(c, ~m.paused), {})
  ELSE Reaction(me[c], {})
Handle(c, m) ==
  IF ~Follows(c) THEN Reaction(me[c], {})
  ELSE IF m.kind \in {"playnow", "play"} THEN Reaction(Shows(c, m.track), {})
  ELSE IF m.kind \in {"pause", "seek"} /\ m.track # me[c].track
  THEN Reaction(Shows(c, m.track), Announcement(c, m.track))
  ELSE IF m.kind \in {"pause", "hold"} THEN Reaction(Plays(c, ~m.paused), {})
  ELSE Reaction(me[c], {})

-----------------------------------------------------------------------------
(* History: a command given while everything is quiet, to players that can     *)
(* take it up, says what all of them have to end with, over the routes left.   *)
Routes(c) == {"playlist"} \cup IF c \in tuned THEN {"player"} ELSE {}
Want(c, t, p, started) == [track |-> t, playing |-> p, via |-> Routes(c), started |-> started]
AllOn(t) == \A f \in Clients : Follows(f) => me[f].track = t
Calm(ok, w) == want' = IF Quiet /\ ok THEN w ELSE None
Local(c) == want' = IF Follows(c) THEN None ELSE want
Move ==
  /\ moves < MaxMoves /\ moves' = moves + 1
  /\ overlaps' = IF Quiet THEN overlaps ELSE overlaps + 1
  /\ overlaps' <= MaxOverlaps

Init ==
  /\ \E k \in Casts : role = k.role /\ tuned = k.tuned
  /\ follow = {c \in Clients : role[c] = "operator"}
  /\ me = [c \in Clients |-> [track |-> None, playing |-> FALSE]]
  /\ asked = [c \in Clients |-> None] /\ inbox = [c \in Clients |-> <<>>]
  /\ player = [track |-> None, paused |-> TRUE] /\ playback = player
  /\ net = EmptyBag /\ fanout = EmptyBag /\ want = None /\ moves = 0 /\ overlaps = 0

-----------------------------------------------------------------------------
(* Commands.                                                                   *)
Play(c, t) ==
  /\ Move /\ me' = [me EXCEPT ![c] = Shows(c, t)] /\ Post(Announcement(c, t))
  /\ IF Announces(c) THEN Calm(\A f \in Clients : Follows(f) => me[f].track # t, Want(c, t, TRUE, TRUE))
     ELSE Local(c)
  /\ UNCHANGED <<cast, asked, inbox, server>>

Toggle(c) ==
  LET p == ~me[c].playing IN
  /\ Move /\ me[c].track # None
  /\ me' = [me EXCEPT ![c] = Plays(c, p)] /\ Post(State(c, p))
  /\ IF Announces(c)
     THEN Calm(AllOn(me[c].track),
               Want(c, me[c].track, p, want # None /\ want.started /\ "player" \in want.via))
     ELSE Local(c)
  /\ UNCHANGED <<cast, asked, inbox, server>>

(* stop pauses the others; the null track of its playnow is told to nobody.    *)
Stop(c) ==
  /\ Move /\ me[c].track # None /\ role[c] # "viewer"
  /\ me' = [me EXCEPT ![c] = [track |-> None, playing |-> FALSE]]
  /\ Post(State(c, FALSE) \cup IF Announces(c) THEN {Msg("playnow", c, None, FALSE)} ELSE {})
  /\ IF Announces(c) THEN Calm(AllOn(me[c].track), Want(c, None, FALSE, FALSE)) ELSE Local(c)
  /\ UNCHANGED <<cast, asked, inbox, server>>

Seek(c) ==
  /\ Move /\ me[c].track # None /\ Announces(c)
  /\ Post({Msg("seek", c, me[c].track, FALSE)}) /\ Calm(AllOn(me[c].track), want)
  /\ UNCHANGED <<cast, me, asked, inbox, server>>

(* The video's own play event, late: a player paused meanwhile plays again,    *)
(* and says so.                                                                *)
LatePlay(c) ==
  /\ Move /\ me[c].track # None /\ ~me[c].playing /\ (role[c] = "operator" => c \notin follow)
  /\ me' = [me EXCEPT ![c] = Plays(c, TRUE)] /\ Post(State(c, TRUE)) /\ want' = None
  /\ UNCHANGED <<cast, asked, inbox, server>>

(* setPlayerMode, setAcceptSync: nothing is fetched.                           *)
Follow(c) ==
  /\ Move /\ role[c] # "owner" /\ c \notin follow
  /\ follow' = follow \cup {c} /\ want' = None
  /\ UNCHANGED <<role, tuned, me, asked, inbox, server, net>>

Unfollow(c) ==
  /\ Move /\ c \in follow /\ follow' = follow \ {c}
  /\ UNCHANGED <<role, tuned, me, asked, inbox, server, net, want>>

(* requestSync: follow, and take the playlist's state as it is; "paused" is    *)
(* read from a text the server never sends.                                    *)
RequestSync(c) ==
  /\ Move /\ role[c] = "viewer" /\ asked[c] = None
  /\ follow' = follow \cup {c} /\ asked' = [asked EXCEPT ![c] = Asked(c)]
  /\ Calm(want # None /\ want.playing /\ "playlist" \in want.via, want)
  /\ UNCHANGED <<role, tuned, me, inbox, server, net>>

(* setActiveChannel: into the player's room, then its state is fetched.        *)
Tune(c) ==
  /\ Move /\ role[c] = "operator" /\ c \in follow \ tuned /\ asked[c] = None
  /\ tuned' = tuned \cup {c} /\ asked' = [asked EXCEPT ![c] = Asked(c)]
  /\ Calm(want # None /\ want.started /\ want.playing /\ want.via = {"playlist", "player"}, want)
  /\ UNCHANGED <<role, follow, me, inbox, server, net>>

-----------------------------------------------------------------------------
(* To the clients in the room; a client ignores its own, but a playnow does    *)
(* not say whose it is.                                                        *)
Audience(m) ==
  {c \in Clients : (Route(m) = "player" => c \in tuned) /\ (m.kind = "playnow" \/ c # m.from)}
Tell(m) == inbox' = [c \in Clients |-> IF c \in Audience(m) THEN Append(inbox[c], m) ELSE inbox[c]]

(* Server. A request of the player's route is saved and told.                  *)
KeepsPause(m) == m.kind = "play" /\ player' = [player EXCEPT !.track = m.track]
PlayTrack(m) == m.kind = "play" /\ player' = [track |-> m.track, paused |-> FALSE]
PauseTrack(m) == m.kind = "hold" /\ player' = [player EXCEPT !.paused = m.paused]

ServePlayer(m) ==
  /\ BagIn(m, net) /\ net' = net (-) SetToBag({m}) /\ Tell(m) /\ (PlayTrack(m) \/ PauseTrack(m))
  /\ UNCHANGED <<cast, me, asked, playback, fanout, want, count>>

(* One of the playlist's route is saved and published; a play-now of no track  *)
(* is told to nobody.                                                          *)
SavesText(m) ==
  m.kind = "playnow" /\ playback' = [playback EXCEPT !.track = IF m.track = None THEN "None" ELSE m.track]
SetPlayNow(m) == m.kind = "playnow" /\ playback' = [playback EXCEPT !.track = m.track]
PostPause(m) == m.kind = "pause" /\ playback' = [track |-> m.track, paused |-> m.paused]
PostSeek(m) == m.kind = "seek" /\ playback' = [playback EXCEPT !.track = m.track]

ServePlaylist(m) ==
  /\ BagIn(m, net) /\ net' = net (-) SetToBag({m}) /\ (SetPlayNow(m) \/ PostPause(m) \/ PostSeek(m))
  /\ fanout' = IF m.track = None THEN fanout ELSE fanout (+) SetToBag({m})
  /\ UNCHANGED <<cast, me, asked, inbox, player, want, count>>

Emit(m) ==
  /\ BagIn(m, fanout) /\ fanout' = fanout (-) SetToBag({m}) /\ Tell(m)
  /\ UNCHANGED <<cast, me, asked, player, playback, net, want, count>>

(* A request that fails is logged in the browser and not sent again.           *)
RequestFails(m) ==
  /\ moves < MaxMoves /\ moves' = moves + 1 /\ BagIn(m, net) /\ net' = net (-) SetToBag({m})
  /\ want' = IF want = None THEN None ELSE [want EXCEPT !.via = @ \ {Route(m)}]
  /\ UNCHANGED <<cast, me, asked, inbox, server, overlaps>>

Answer(c) ==
  /\ asked[c] # None /\ asked[c].step = "sent"
  /\ asked' = [asked EXCEPT ![c].step = "answered",
                             ![c].track = IF role[c] = "operator" THEN player.track ELSE playback.track]
  /\ UNCHANGED <<cast, me, inbox, server, net, want, count>>

-----------------------------------------------------------------------------
(* Client: a socket message, and the answer it asked for, whenever it comes.   *)
Receive(c) ==
  /\ inbox[c] # <<>> /\ inbox' = [inbox EXCEPT ![c] = Tail(@)]
  /\ LET r == Handle(c, Head(inbox[c])) IN me' = [me EXCEPT ![c] = r.s] /\ Post(r.send)
  /\ UNCHANGED <<cast, asked, server, want, count>>

Answered(c) == asked[c] # None /\ asked[c].step = "answered"
Joined(c) ==
  /\ Answered(c) /\ role[c] = "operator" /\ asked' = [asked EXCEPT ![c] = None]
  /\ me' = IF asked[c].track = None THEN me ELSE [me EXCEPT ![c] = Shows(c, asked[c].track)]
  /\ UNCHANGED <<cast, inbox, server, net, want, count>>

Synced(c) ==
  LET t == IF asked[c].track \in {None, asked[c].had} THEN me[c].track ELSE asked[c].track IN
  /\ Answered(c) /\ role[c] = "viewer" /\ asked' = [asked EXCEPT ![c] = None]
  /\ me' = [me EXCEPT ![c] = [track |-> t, playing |-> TRUE]]
  /\ UNCHANGED <<cast, inbox, server, net, want, count>>

System ==
  \/ \E m \in BagToSet(net) : ServePlayer(m) \/ ServePlaylist(m)
  \/ \E m \in BagToSet(fanout) : Emit(m)
  \/ \E c \in Clients : Answer(c) \/ Receive(c) \/ Joined(c) \/ Synced(c)

Next ==
  \/ System
  \/ \E c \in Clients : \/ Toggle(c) \/ Stop(c) \/ Seek(c) \/ LatePlay(c)
                        \/ Follow(c) \/ Unfollow(c) \/ RequestSync(c) \/ Tune(c)
  \/ \E c \in Clients, t \in Tracks : Play(c, t)
  \/ \E m \in BagToSet(net) : RequestFails(m)

(* Requests are answered, messages told and handled.                           *)
Spec == Init /\ [][Next]_vars /\ WF_vars(System)

-----------------------------------------------------------------------------
Opt == Tracks \cup {None}
Msgs == [kind : {"playnow", "play", "pause", "hold", "seek"}, from : Clients,
         track : Opt, paused : BOOLEAN]
States == [track : Opt, paused : BOOLEAN]

(* The variables keep their types.                                             *)
TypeOK ==
  /\ role \in [Clients -> Roles] /\ tuned \subseteq Clients /\ follow \subseteq Clients
  /\ me \in [Clients -> [track : Opt, playing : BOOLEAN]]
  /\ asked \in [Clients -> {None} \cup [step : {"sent", "answered"}, had : Opt, track : Opt]]
  /\ inbox \in [Clients -> Seq(Msgs)] /\ player \in States /\ playback \in States
  /\ BagToSet(net) \subseteq Msgs /\ BagToSet(fanout) \subseteq Msgs
  /\ moves \in 0 .. MaxMoves /\ overlaps \in 0 .. MaxOverlaps
  /\ want \in {None} \cup [track : Opt, playing : BOOLEAN,
                           via : SUBSET {"playlist", "player"}, started : BOOLEAN]

(* However commands overlapped before: once one is given in quiet, and it has  *)
(* settled, every player that follows shows what it asked for, even if one of  *)
(* the two routes lost it, as long as the other one reaches that player.       *)
SettledAgree == Quiet /\ want # None => \A c \in Clients :
  Follows(c) /\ ("playlist" \in want.via \/ (c \in tuned /\ "player" \in want.via)) =>
    /\ want.track # None => me[c].track = want.track
    /\ (me[c].playing /\ me[c].track # None) = want.playing

(* Then, with nothing lost, the two records the server keeps of it agree with  *)
(* the players and with each other about the track.                            *)
ServerMatches == Quiet /\ want # None /\ want.via = {"playlist", "player"} =>
  /\ player.paused = ~want.playing
  /\ want.track # None => playback.track = want.track
  /\ want.started => player.track = want.track

(* Liveness: players that react to each other's announcements fall silent.     *)
Settles == <>[]Quiet
=============================================================================
