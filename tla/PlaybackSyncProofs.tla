------------------------- MODULE PlaybackSyncProofs -------------------------
(* What holds of the synchronised players for any clients, tracks and casts,   *)
(* and any number of commands and overlaps.                                    *)
EXTENDS PlaybackSync, SequenceTheorems, TLAPS

-----------------------------------------------------------------------------
(* Types.                                                                      *)

(* What is posted is added to the bag.                                         *)
LEMMA BagAdd ==
  ASSUME NEW B, IsABag(B), NEW S
  PROVE  /\ IsABag(B (+) SetToBag(S))
         /\ BagToSet(B (+) SetToBag(S)) = BagToSet(B) \cup S
<1> DEFINE C == B (+) SetToBag(S)
<1>1. DOMAIN C = DOMAIN B \cup S
  BY DEF (+), SetToBag
<1>2. ASSUME NEW e \in DOMAIN C PROVE C[e] \in {n \in Nat : n > 0}
  BY <1>1, <1>2 DEF (+), SetToBag, IsABag
<1>3. C = [e \in DOMAIN C |-> C[e]]
  BY DEF (+)
<1>4. IsABag(C)
  BY <1>2, <1>3 DEF IsABag
<1> QED BY <1>1, <1>4 DEF BagToSet

(* One copy of what is served, or lost, is taken out; the rest stays.          *)
LEMMA BagTake ==
  ASSUME NEW B, IsABag(B), NEW m
  PROVE  /\ IsABag(B (-) SetToBag({m}))
         /\ BagToSet(B (-) SetToBag({m})) \subseteq BagToSet(B)
         /\ BagToSet(B) \ {m} \subseteq BagToSet(B (-) SetToBag({m}))
<1> DEFINE C == B (-) SetToBag({m})
           D == [e \in DOMAIN B |-> IF e \in {m} THEN B[e] - 1 ELSE B[e]]
<1>1. C = [e \in {d \in DOMAIN D : D[d] > 0} |-> D[e]]
  BY DEF (-), SetToBag
<1>2. \A e \in DOMAIN B : B[e] \in Nat /\ B[e] > 0
  BY DEF IsABag
<1>3. DOMAIN C = {d \in DOMAIN B : D[d] > 0} /\ \A e \in DOMAIN C : C[e] = D[e]
  BY <1>1
<1>4. ASSUME NEW e \in DOMAIN C PROVE C[e] \in {n \in Nat : n > 0}
  <2>1. e \in DOMAIN B /\ D[e] > 0 /\ C[e] = D[e]
    BY <1>3, <1>4
  <2>2. D[e] \in Int
    BY <1>2, <2>1
  <2> QED BY <2>1, <2>2
<1>5. IsABag(C)
  BY <1>1, <1>4 DEF IsABag
<1>6. DOMAIN B \ {m} \subseteq DOMAIN C
  BY <1>2, <1>3
<1> QED BY <1>3, <1>5, <1>6 DEF BagToSet

LEMMA BagNone == IsABag(EmptyBag) /\ BagToSet(EmptyBag) = {}
BY DEF EmptyBag, SetToBag, IsABag, BagToSet

BagsOK == IsABag(net) /\ IsABag(fanout)
TypeInv == TypeOK /\ BagsOK
Slots == [track : Opt, playing : BOOLEAN]
Wants == [track : Opt, playing : BOOLEAN, via : SUBSET {"playlist", "player"}, started : BOOLEAN]
Answers == [step : {"sent", "answered"}, had : Opt, track : Opt]

(* What a client posts, and what it becomes, is of the right kind.             *)
LEMMA MsgsPosted ==
  ASSUME TypeOK, NEW c \in Clients
  PROVE  /\ \A t \in Opt : Announcement(c, t) \subseteq Msgs /\ Shows(c, t) \in Slots
         /\ \A p \in BOOLEAN : State(c, p) \subseteq Msgs /\ Plays(c, p) \in Slots
         /\ \A m \in Msgs : Handle(c, m).s \in Slots /\ Handle(c, m).send \subseteq Msgs
<1>0. me[c] \in Slots
  BY DEF TypeOK, Slots
<1>1. ASSUME NEW t \in Opt PROVE Announcement(c, t) \subseteq Msgs /\ Shows(c, t) \in Slots
  <2>1. Msg("playnow", c, t, FALSE) \in Msgs /\ Msg("play", c, t, FALSE) \in Msgs
    BY DEF Msg, Msgs
  <2>2. Announcement(c, t) \subseteq {Msg("playnow", c, t, FALSE), Msg("play", c, t, FALSE)}
    BY DEF Announcement
  <2>3. Shows(c, t) \in Slots
    BY <1>0 DEF Shows, Slots
  <2> QED BY <2>1, <2>2, <2>3
<1>2. ASSUME NEW p \in BOOLEAN PROVE State(c, p) \subseteq Msgs
  <2>0. (~p) \in BOOLEAN
    OBVIOUS
  <2>1. me[c].track \in Opt /\ None \in Opt
    BY <1>0 DEF Slots, Opt
  <2>2. Msg("pause", c, me[c].track, ~p) \in Msgs /\ Msg("hold", c, None, ~p) \in Msgs
    BY <2>0, <2>1 DEF Msg, Msgs
  <2>3. State(c, p) \subseteq {Msg("pause", c, me[c].track, ~p), Msg("hold", c, None, ~p)}
    BY DEF State
  <2> QED BY <2>2, <2>3
<1>3. ASSUME NEW p \in BOOLEAN PROVE Plays(c, p) \in Slots
  BY <1>0 DEF Plays, Slots
<1>4. ASSUME NEW m \in Msgs PROVE Handle(c, m).s \in Slots /\ Handle(c, m).send \subseteq Msgs
  <2>0. m.track \in Opt /\ m.paused \in BOOLEAN
    BY DEF Msgs
  <2> DEFINE p == ~m.paused
  <2>2. p \in BOOLEAN
    BY <2>0
  <2> HIDE DEF p, Slots
  <2>3. Plays(c, p) \in Slots /\ Shows(c, m.track) \in Slots /\ Announcement(c, m.track) \subseteq Msgs
    BY <1>1, <1>3, <2>0, <2>2
  <2>4. \/ Handle(c, m).s = me[c] /\ Handle(c, m).send = {}
        \/ Handle(c, m).s = Shows(c, m.track) /\ Handle(c, m).send = {}
        \/ Handle(c, m).s = Plays(c, p) /\ Handle(c, m).send = {}
        \/ Handle(c, m).s = Shows(c, m.track) /\ Handle(c, m).send = Announcement(c, m.track)
    BY DEF Handle, Reaction, p
  <2> QED BY <1>0, <2>3, <2>4
<1> QED BY <1>1, <1>2, <1>3, <1>4

LEMMA PostTyped ==
  ASSUME TypeInv, NEW S \in SUBSET Msgs, Post(S)
  PROVE  IsABag(net') /\ BagToSet(net') \subseteq Msgs /\ BagToSet(net') = BagToSet(net) \cup S
BY BagAdd DEF Post, TypeInv, BagsOK, TypeOK

(* A socket that is told something has it at the end of its inbox.             *)
Has(c, m) == \E i \in DOMAIN inbox[c] : inbox[c][i] = m

LEMMA Told ==
  ASSUME TypeOK, NEW m \in Msgs, Tell(m)
  PROVE  /\ inbox' \in [Clients -> Seq(Msgs)]
         /\ \A c \in Clients, n \in Msgs : Has(c, n)' <=> Has(c, n) \/ (n = m /\ c \in Audience(m))
<1> DEFINE s(c) == inbox[c]
<1>1. \A c \in Clients : inbox[c] \in Seq(Msgs)
  BY DEF TypeOK
<1>2. inbox' \in [Clients -> Seq(Msgs)]
  BY <1>1 DEF Tell
<1>3. ASSUME NEW c \in Clients, NEW n \in Msgs, c \in Audience(m)
      PROVE  Has(c, n)' <=> Has(c, n) \/ n = m
  <2>1. inbox'[c] = Append(inbox[c], m)
    BY <1>3 DEF Tell
  <2>2. /\ DOMAIN inbox[c] = 1 .. Len(inbox[c]) /\ Len(inbox[c]) \in Nat
        /\ DOMAIN inbox'[c] = 1 .. Len(inbox[c]) + 1
        /\ inbox'[c][Len(inbox[c]) + 1] = m
        /\ \A i \in 1 .. Len(inbox[c]) : inbox'[c][i] = inbox[c][i]
    BY <1>1, <2>1
  <2> QED BY <2>2 DEF Has
<1>4. ASSUME NEW c \in Clients, NEW n \in Msgs, c \notin Audience(m)
      PROVE  Has(c, n)' <=> Has(c, n)
  <2>1. inbox'[c] = inbox[c]
    BY <1>4 DEF Tell
  <2> QED BY <2>1 DEF Has
<1> QED BY <1>2, <1>3, <1>4

(* A message that is taken up leaves its socket, the others stay where they    *)
(* are.                                                                        *)
LEMMA Heard ==
  ASSUME TypeOK, NEW c \in Clients, inbox[c] # <<>>, inbox' = [inbox EXCEPT ![c] = Tail(@)]
  PROVE  /\ inbox' \in [Clients -> Seq(Msgs)]
         /\ Head(inbox[c]) \in Msgs /\ Has(c, Head(inbox[c]))
         /\ \A d \in Clients, n \in Msgs : Has(d, n)' => Has(d, n)
         /\ \A d \in Clients, n \in Msgs : Has(d, n) => Has(d, n)' \/ (d = c /\ n = Head(inbox[c]))
<1>1. inbox[c] \in Seq(Msgs) /\ inbox'[c] = Tail(inbox[c]) /\ \A d \in Clients \ {c} : inbox'[d] = inbox[d]
  BY DEF TypeOK
<1>2. /\ Head(inbox[c]) \in Msgs /\ Tail(inbox[c]) \in Seq(Msgs)
      /\ Len(inbox[c]) \in Nat \ {0} /\ DOMAIN inbox[c] = 1 .. Len(inbox[c])
      /\ DOMAIN inbox'[c] = 1 .. Len(inbox[c]) - 1
      /\ Head(inbox[c]) = inbox[c][1]
      /\ \A i \in 1 .. Len(inbox[c]) - 1 : inbox'[c][i] = inbox[c][i + 1]
  <2>1. Len(inbox[c]) \in Nat \ {0} /\ DOMAIN inbox[c] = 1 .. Len(inbox[c])
    BY <1>1, EmptySeq, LenProperties
  <2>2. /\ Head(inbox[c]) \in Msgs /\ Tail(inbox[c]) \in Seq(Msgs)
        /\ Len(Tail(inbox[c])) = Len(inbox[c]) - 1
        /\ \A i \in 1 .. Len(Tail(inbox[c])) : Tail(inbox[c])[i] = inbox[c][i + 1]
    BY <1>1, HeadTailProperties
  <2>3. DOMAIN Tail(inbox[c]) = 1 .. Len(inbox[c]) - 1
    BY <2>2, LenProperties
  <2>4. Head(inbox[c]) = inbox[c][1]
    BY <2>1
  <2> QED BY <1>1, <2>1, <2>2, <2>3, <2>4
<1>3. inbox' \in [Clients -> Seq(Msgs)]
  BY <1>2 DEF TypeOK
<1>4. Has(c, Head(inbox[c]))
  BY <1>2 DEF Has
<1>5. ASSUME NEW n \in Msgs PROVE Has(c, n)' => Has(c, n)
  <2>1. ASSUME NEW i \in DOMAIN inbox'[c], inbox'[c][i] = n PROVE Has(c, n)
    <3>1. i + 1 \in DOMAIN inbox[c] /\ inbox[c][i + 1] = n
      BY <1>2, <2>1
    <3> QED BY <3>1 DEF Has
  <2> QED BY <2>1 DEF Has
<1>6. ASSUME NEW n \in Msgs, Has(c, n), n # Head(inbox[c]) PROVE Has(c, n)'
  <2>1. PICK i \in DOMAIN inbox[c] : inbox[c][i] = n
    BY <1>6 DEF Has
  <2>2. i - 1 \in DOMAIN inbox'[c] /\ inbox'[c][i - 1] = n
    BY <1>2, <1>6, <2>1
  <2> QED BY <2>2 DEF Has
<1>7. ASSUME NEW d \in Clients \ {c}, NEW n \in Msgs PROVE Has(d, n)' <=> Has(d, n)
  BY <1>1 DEF Has
<1> QED BY <1>2, <1>3, <1>4, <1>5, <1>6, <1>7

(* A command is counted.                                                       *)
LEMMA MoveTyped ==
  TypeOK /\ Move => moves' \in 0 .. MaxMoves /\ overlaps' \in 0 .. MaxOverlaps
BY SyncAssumption DEF TypeOK, Move

LEMMA WantTyped ==
  ASSUME NEW c \in Clients, NEW t \in Opt, NEW p \in BOOLEAN, NEW started \in BOOLEAN
  PROVE  /\ Want(c, t, p, started) \in Wants
         /\ Want(c, t, p, started).track = t /\ Want(c, t, p, started).playing = p
         /\ Want(c, t, p, started).started = started /\ Want(c, t, p, started).via = Routes(c)
BY DEF Want, Wants, Routes

LEMMA TypeInit == Init => TypeInv
<1> SUFFICES ASSUME Init PROVE TypeInv
  OBVIOUS
<1>1. role \in [Clients -> Roles] /\ tuned \subseteq Clients /\ follow \subseteq Clients
  BY SyncAssumption DEF Init
<1>2. None \in Opt
  BY DEF Opt
<1>3. me \in [Clients -> [track : Opt, playing : BOOLEAN]] /\ player \in States /\ playback \in States
  BY <1>2 DEF Init, States
<1>4. inbox \in [Clients -> Seq(Msgs)]
  BY EmptySeq DEF Init
<1>5. moves \in 0 .. MaxMoves /\ overlaps \in 0 .. MaxOverlaps
  BY SyncAssumption DEF Init
<1>6. /\ BagToSet(net) \subseteq Msgs /\ BagToSet(fanout) \subseteq Msgs
      /\ IsABag(net) /\ IsABag(fanout)
  BY BagNone DEF Init
<1>7. /\ asked \in [Clients -> {None} \cup [step : {"sent", "answered"}, had : Opt, track : Opt]]
      /\ want \in {None} \cup Wants
  BY DEF Init
<1> QED BY <1>1, <1>3, <1>4, <1>5, <1>6, <1>7 DEF TypeInv, TypeOK, BagsOK, Wants

(* Commands.                                                                   *)
LEMMA PlayTyped ==
  ASSUME TypeInv, NEW c \in Clients, NEW t \in Tracks, Play(c, t)
  PROVE  TypeInv'
<1>1. t \in Opt
  BY DEF Opt
<1>2. Shows(c, t) \in Slots /\ Announcement(c, t) \in SUBSET Msgs
  BY <1>1, MsgsPosted DEF TypeInv
<1>3. me' \in [Clients -> Slots]
  BY <1>2 DEF Play, TypeInv, TypeOK, Slots
<1>4. IsABag(net') /\ BagToSet(net') \subseteq Msgs
  BY <1>2, PostTyped DEF Play
<1>5. moves' \in 0 .. MaxMoves /\ overlaps' \in 0 .. MaxOverlaps
  BY MoveTyped DEF Play, TypeInv
<1>6. want' \in {None} \cup Wants
  <2>1. Want(c, t, TRUE, TRUE) \in Wants
    BY <1>1, WantTyped
  <2> QED BY <2>1 DEF Play, Calm, Local, TypeInv, TypeOK, Wants
<1> QED BY <1>3, <1>4, <1>5, <1>6 DEF Play, cast, server, TypeInv, TypeOK, BagsOK, Slots, Wants

LEMMA ToggleTyped ==
  ASSUME TypeInv, NEW c \in Clients, Toggle(c)
  PROVE  TypeInv'
<1> DEFINE p == ~me[c].playing
           st == want # None /\ want.started /\ "player" \in want.via
<1>1. p \in BOOLEAN /\ st \in BOOLEAN /\ me[c].track \in Opt
  BY DEF TypeInv, TypeOK
<1>2. /\ Move /\ me' = [me EXCEPT ![c] = Plays(c, p)] /\ Post(State(c, p))
      /\ want' \in {None, want, Want(c, me[c].track, p, st)}
      /\ UNCHANGED <<cast, asked, inbox, server>>
  BY DEF Toggle, Calm, Local
<1> HIDE DEF p, st
<1>3. Plays(c, p) \in Slots /\ State(c, p) \in SUBSET Msgs
  BY <1>1, MsgsPosted DEF TypeInv
<1>4. me' \in [Clients -> Slots]
  BY <1>2, <1>3 DEF TypeInv, TypeOK, Slots
<1>5. IsABag(net') /\ BagToSet(net') \subseteq Msgs
  BY <1>2, <1>3, PostTyped
<1>6. moves' \in 0 .. MaxMoves /\ overlaps' \in 0 .. MaxOverlaps
  BY <1>2, MoveTyped DEF TypeInv
<1>7. want' \in {None} \cup Wants
  BY <1>1, <1>2, WantTyped DEF TypeInv, TypeOK, Wants
<1> QED BY <1>2, <1>4, <1>5, <1>6, <1>7 DEF cast, server, TypeInv, TypeOK, BagsOK, Slots, Wants

LEMMA StopTyped ==
  ASSUME TypeInv, NEW c \in Clients, Stop(c)
  PROVE  TypeInv'
<1> DEFINE S == State(c, FALSE) \cup IF Announces(c) THEN {Msg("playnow", c, None, FALSE)} ELSE {}
<1>1. None \in Opt
  BY DEF Opt
<1>2. S \in SUBSET Msgs
  <2>1. State(c, FALSE) \subseteq Msgs
    BY MsgsPosted DEF TypeInv
  <2>2. Msg("playnow", c, None, FALSE) \in Msgs
    BY <1>1 DEF Msg, Msgs
  <2> QED BY <2>1, <2>2
<1>3. me' \in [Clients -> Slots]
  BY <1>1 DEF Stop, TypeInv, TypeOK, Slots
<1>4. IsABag(net') /\ BagToSet(net') \subseteq Msgs
  <2>1. Post(S)
    BY DEF Stop
  <2> HIDE DEF S
  <2> QED BY <1>2, <2>1, PostTyped
<1>5. moves' \in 0 .. MaxMoves /\ overlaps' \in 0 .. MaxOverlaps
  BY MoveTyped DEF Stop, TypeInv
<1>6. want' \in {None} \cup Wants
  <2>1. Want(c, None, FALSE, FALSE) \in Wants
    BY <1>1, WantTyped
  <2> QED BY <2>1 DEF Stop, Calm, Local, TypeInv, TypeOK, Wants
<1> QED BY <1>3, <1>4, <1>5, <1>6 DEF Stop, cast, server, TypeInv, TypeOK, BagsOK, Slots, Wants

LEMMA SeekTyped ==
  ASSUME TypeInv, NEW c \in Clients, Seek(c)
  PROVE  TypeInv'
<1>1. {Msg("seek", c, me[c].track, FALSE)} \in SUBSET Msgs
  BY DEF Msg, Msgs, TypeInv, TypeOK
<1>2. IsABag(net') /\ BagToSet(net') \subseteq Msgs
  BY <1>1, PostTyped DEF Seek
<1>3. moves' \in 0 .. MaxMoves /\ overlaps' \in 0 .. MaxOverlaps
  BY MoveTyped DEF Seek, TypeInv
<1>4. want' \in {None, want}
  BY DEF Seek, Calm
<1> QED BY <1>2, <1>3, <1>4 DEF Seek, cast, server, TypeInv, TypeOK, BagsOK

LEMMA LatePlayTyped ==
  ASSUME TypeInv, NEW c \in Clients, LatePlay(c)
  PROVE  TypeInv'
<1>1. Plays(c, TRUE) \in Slots /\ State(c, TRUE) \in SUBSET Msgs
  BY MsgsPosted DEF TypeInv
<1>2. me' \in [Clients -> Slots]
  BY <1>1 DEF LatePlay, TypeInv, TypeOK, Slots
<1>3. IsABag(net') /\ BagToSet(net') \subseteq Msgs
  BY <1>1, PostTyped DEF LatePlay
<1>4. moves' \in 0 .. MaxMoves /\ overlaps' \in 0 .. MaxOverlaps
  BY MoveTyped DEF LatePlay, TypeInv
<1> QED BY <1>2, <1>3, <1>4 DEF LatePlay, cast, server, TypeInv, TypeOK, BagsOK, Slots

LEMMA FollowsTyped ==
  ASSUME TypeInv, NEW c \in Clients,
         Follow(c) \/ Unfollow(c) \/ RequestSync(c) \/ Tune(c)
  PROVE  TypeInv'
<1>1. Asked(c) \in [step : {"sent", "answered"}, had : Opt, track : Opt]
  BY DEF Asked, TypeInv, TypeOK, Opt
<1>2. moves' \in 0 .. MaxMoves /\ overlaps' \in 0 .. MaxOverlaps
  BY MoveTyped DEF Follow, Unfollow, RequestSync, Tune, TypeInv
<1>3. want' \in {None, want}
  BY DEF Follow, Unfollow, RequestSync, Tune, Calm
<1>4. follow' \subseteq Clients /\ tuned' \subseteq Clients
  BY DEF Follow, Unfollow, RequestSync, Tune, TypeInv, TypeOK
<1>5. asked' = asked \/ asked' = [asked EXCEPT ![c] = Asked(c)]
  BY DEF Follow, Unfollow, RequestSync, Tune
<1>6. asked' \in [Clients -> {None} \cup [step : {"sent", "answered"}, had : Opt, track : Opt]]
  BY <1>1, <1>5 DEF TypeInv, TypeOK
<1>7. UNCHANGED <<role, me, inbox, server, net>>
  BY DEF Follow, Unfollow, RequestSync, Tune
<1> QED BY <1>2, <1>3, <1>4, <1>6, <1>7 DEF server, TypeInv, TypeOK, BagsOK

(* Servers.                                                                    *)
LEMMA TakeTyped ==
  ASSUME TypeInv, NEW m
  PROVE  /\ net' = net (-) SetToBag({m}) => IsABag(net') /\ BagToSet(net') \subseteq Msgs
         /\ fanout' = fanout (-) SetToBag({m}) => IsABag(fanout') /\ BagToSet(fanout') \subseteq Msgs
<1>1. IsABag(net) /\ IsABag(fanout) /\ BagToSet(net) \subseteq Msgs /\ BagToSet(fanout) \subseteq Msgs
  BY DEF TypeInv, TypeOK, BagsOK
<1>2. IsABag(net (-) SetToBag({m})) /\ BagToSet(net (-) SetToBag({m})) \subseteq BagToSet(net)
  BY <1>1, BagTake
<1>3. IsABag(fanout (-) SetToBag({m})) /\ BagToSet(fanout (-) SetToBag({m})) \subseteq BagToSet(fanout)
  BY <1>1, BagTake
<1> QED BY <1>1, <1>2, <1>3

LEMMA ServePlayerTyped ==
  ASSUME TypeInv, NEW m \in BagToSet(net), ServePlayer(m)
  PROVE  TypeInv'
<1>1. m \in Msgs
  BY DEF TypeInv, TypeOK
<1>2. player' \in States
  <2>1. player \in States /\ m.track \in Opt /\ m.paused \in BOOLEAN
    BY <1>1 DEF Msgs, TypeInv, TypeOK
  <2>2. CASE PlayTrack(m)
    BY <2>1, <2>2 DEF PlayTrack, States
  <2>3. CASE PauseTrack(m)
    BY <2>1, <2>3 DEF PauseTrack, States
  <2> QED BY <2>2, <2>3 DEF ServePlayer
<1>3. inbox' \in [Clients -> Seq(Msgs)]
  BY <1>1, Told DEF ServePlayer, TypeInv
<1>4. IsABag(net') /\ BagToSet(net') \subseteq Msgs
  BY TakeTyped DEF ServePlayer
<1> QED BY <1>2, <1>3, <1>4 DEF ServePlayer, cast, count, TypeInv, TypeOK, BagsOK

LEMMA ServePlaylistTyped ==
  ASSUME TypeInv, NEW m \in BagToSet(net), ServePlaylist(m)
  PROVE  TypeInv'
<1>1. m \in Msgs
  BY DEF TypeInv, TypeOK
<1>2. playback' \in States
  <2>1. playback \in States /\ m.track \in Opt /\ m.paused \in BOOLEAN
    BY <1>1 DEF Msgs, TypeInv, TypeOK
  <2>2. CASE SetPlayNow(m) \/ PostSeek(m)
    BY <2>1, <2>2 DEF SetPlayNow, PostSeek, States
  <2>3. CASE PostPause(m)
    BY <2>1, <2>3 DEF PostPause, States
  <2> QED BY <2>2, <2>3 DEF ServePlaylist
<1>3. IsABag(fanout') /\ BagToSet(fanout') \subseteq Msgs
  BY <1>1, BagAdd DEF ServePlaylist, TypeInv, TypeOK, BagsOK
<1>4. IsABag(net') /\ BagToSet(net') \subseteq Msgs
  BY TakeTyped DEF ServePlaylist
<1> QED BY <1>2, <1>3, <1>4 DEF ServePlaylist, cast, count, TypeInv, TypeOK, BagsOK

LEMMA EmitTyped ==
  ASSUME TypeInv, NEW m \in BagToSet(fanout), Emit(m)
  PROVE  TypeInv'
<1>1. m \in Msgs
  BY DEF TypeInv, TypeOK
<1>2. inbox' \in [Clients -> Seq(Msgs)]
  BY <1>1, Told DEF Emit, TypeInv
<1>3. IsABag(fanout') /\ BagToSet(fanout') \subseteq Msgs
  BY TakeTyped DEF Emit
<1> QED BY <1>2, <1>3 DEF Emit, cast, count, TypeInv, TypeOK, BagsOK

LEMMA RequestFailsTyped ==
  ASSUME TypeInv, NEW m \in BagToSet(net), RequestFails(m)
  PROVE  TypeInv'
<1>1. moves' \in 0 .. MaxMoves
  BY SyncAssumption DEF RequestFails, TypeInv, TypeOK
<1>2. want' \in {None} \cup Wants
  BY DEF RequestFails, TypeInv, TypeOK, Wants
<1>3. IsABag(net') /\ BagToSet(net') \subseteq Msgs
  BY TakeTyped DEF RequestFails
<1> QED BY <1>1, <1>2, <1>3 DEF RequestFails, cast, server, TypeInv, TypeOK, BagsOK, Wants

LEMMA AnswerTyped ==
  ASSUME TypeInv, NEW c \in Clients, Answer(c)
  PROVE  TypeInv'
<1>1. asked[c] \in Answers /\ player.track \in Opt /\ playback.track \in Opt
  BY DEF Answer, TypeInv, TypeOK, Answers, States
<1>2. asked' \in [Clients -> {None} \cup Answers]
  BY <1>1 DEF Answer, TypeInv, TypeOK, Answers
<1> QED BY <1>2 DEF Answer, cast, server, count, TypeInv, TypeOK, BagsOK, Answers

(* Browsers.                                                                   *)
LEMMA ReceiveTyped ==
  ASSUME TypeInv, NEW c \in Clients, Receive(c)
  PROVE  TypeInv'
<1> DEFINE m == Head(inbox[c])
<1>1. inbox' \in [Clients -> Seq(Msgs)] /\ m \in Msgs
  BY Heard DEF Receive, TypeInv
<1>2. Handle(c, m).s \in Slots /\ Handle(c, m).send \in SUBSET Msgs
  BY <1>1, MsgsPosted DEF TypeInv
<1>3. me' = [me EXCEPT ![c] = Handle(c, m).s] /\ Post(Handle(c, m).send)
  BY DEF Receive
<1> HIDE DEF m
<1>4. IsABag(net') /\ BagToSet(net') \subseteq Msgs
  BY <1>2, <1>3, PostTyped
<1>5. me' \in [Clients -> Slots]
  BY <1>2, <1>3 DEF TypeInv, TypeOK, Slots
<1> QED BY <1>1, <1>4, <1>5 DEF Receive, cast, server, count, TypeInv, TypeOK, BagsOK, Slots

LEMMA AnsweredTyped ==
  ASSUME TypeInv, NEW c \in Clients, Joined(c) \/ Synced(c)
  PROVE  TypeInv'
<1>1. asked[c] \in Answers
  BY DEF Joined, Synced, Answered, TypeInv, TypeOK, Answers
<1>2. asked[c].track \in Opt /\ me[c].track \in Opt
  BY <1>1 DEF TypeInv, TypeOK, Answers
<1>3. Shows(c, asked[c].track) \in Slots
  BY <1>2, MsgsPosted DEF TypeInv
<1>4. me' \in [Clients -> Slots]
  <2>1. CASE Joined(c)
    BY <1>3, <2>1 DEF Joined, TypeInv, TypeOK, Slots
  <2>2. CASE Synced(c)
    <3>1. \E t \in Opt : me' = [me EXCEPT ![c] = [track |-> t, playing |-> TRUE]]
      BY <1>2, <2>2 DEF Synced
    <3> QED BY <3>1 DEF TypeInv, TypeOK, Slots
  <2> QED BY <2>1, <2>2
<1>5. asked' \in [Clients -> {None} \cup Answers]
  BY DEF Joined, Synced, TypeInv, TypeOK, Answers
<1>6. UNCHANGED <<cast, inbox, server, net, want, count>>
  BY DEF Joined, Synced
<1> QED BY <1>4, <1>5, <1>6 DEF cast, server, count, TypeInv, TypeOK, BagsOK, Slots, Answers

LEMMA TypeStep == TypeInv /\ [Next]_vars => TypeInv'
<1> SUFFICES ASSUME TypeInv, [Next]_vars PROVE TypeInv'
  OBVIOUS
<1>1. CASE System
  BY <1>1, ServePlayerTyped, ServePlaylistTyped, EmitTyped, AnswerTyped, ReceiveTyped, AnsweredTyped DEF System
<1>2. ASSUME NEW c \in Clients,
             \/ Toggle(c) \/ Stop(c) \/ Seek(c) \/ LatePlay(c)
             \/ Follow(c) \/ Unfollow(c) \/ RequestSync(c) \/ Tune(c)
      PROVE  TypeInv'
  BY <1>2, ToggleTyped, StopTyped, SeekTyped, LatePlayTyped, FollowsTyped
<1>3. ASSUME NEW c \in Clients, NEW t \in Tracks, Play(c, t) PROVE TypeInv'
  BY <1>3, PlayTyped
<1>4. ASSUME NEW m \in BagToSet(net), RequestFails(m) PROVE TypeInv'
  BY <1>4, RequestFailsTyped
<1>5. CASE UNCHANGED vars
  BY <1>5 DEF vars, cast, server, count, TypeInv, TypeOK, BagsOK
<1> QED BY <1>1, <1>2, <1>3, <1>4, <1>5 DEF Next

LEMMA Types == Spec => []TypeInv
BY TypeInit, TypeStep, PTL DEF Spec

(* The variables of PlaybackSync keep their types.                             *)
THEOREM SyncTypeCorrect == Spec => []TypeOK
<1>1. TypeInv => TypeOK
  BY DEF TypeInv
<1> QED BY <1>1, Types, PTL

-----------------------------------------------------------------------------
(* What is under way.                                                          *)
UnderWay(m) == BagIn(m, net) \/ BagIn(m, fanout) \/ \E c \in Clients : Has(c, m)

(* A message that says which track it is about; who is told of what.           *)
Meant(m) == m.kind \in {"play", "pause", "seek"} => m.track # None
Addressed ==
  /\ \A m \in Msgs : UnderWay(m) => Meant(m)
  /\ \A m \in Msgs : BagIn(m, fanout) => Route(m) = "playlist" /\ m.track # None
  /\ \A c \in Clients, m \in Msgs :
       Has(c, m) => c \in Audience(m) /\ (m.kind = "playnow" => m.track # None)

AddrInv == TypeInv /\ Addressed

LEMMA PostMoves ==
  ASSUME TypeInv, NEW S \in SUBSET Msgs, Post(S), UNCHANGED <<fanout, inbox>>
  PROVE  /\ \A m : BagIn(m, net)' <=> BagIn(m, net) \/ m \in S
         /\ \A m : BagIn(m, fanout)' <=> BagIn(m, fanout)
         /\ \A c \in Clients, m \in Msgs : Has(c, m)' <=> Has(c, m)
         /\ \A m \in Msgs : UnderWay(m)' <=> UnderWay(m) \/ m \in S
BY PostTyped DEF BagIn, Has, UnderWay

(* A request on the player's route goes from the net to the sockets.           *)
LEMMA ServePlayerMoves ==
  ASSUME TypeInv, NEW m \in BagToSet(net), ServePlayer(m)
  PROVE  /\ m \in Msgs /\ m.kind \in {"play", "hold"}
         /\ \A n : BagIn(n, net)' => BagIn(n, net)
         /\ \A n : BagIn(n, net) => BagIn(n, net)' \/ n = m
         /\ \A n : BagIn(n, fanout)' <=> BagIn(n, fanout)
         /\ \A c \in Clients, n \in Msgs : Has(c, n)' <=> Has(c, n) \/ (n = m /\ c \in Audience(m))
         /\ \A n \in Msgs : UnderWay(n)' => UnderWay(n)
<1>1. m \in Msgs /\ m.kind \in {"play", "hold"} /\ Tell(m) /\ fanout' = fanout
  BY DEF ServePlayer, PlayTrack, PauseTrack, TypeInv, TypeOK
<1>2. \A n : BagIn(n, net)' => BagIn(n, net)
  BY BagTake DEF ServePlayer, BagIn, TypeInv, BagsOK
<1>3. \A n : BagIn(n, net) => BagIn(n, net)' \/ n = m
  BY BagTake DEF ServePlayer, BagIn, TypeInv, BagsOK
<1>4. \A c \in Clients, n \in Msgs : Has(c, n)' <=> Has(c, n) \/ (n = m /\ c \in Audience(m))
  BY <1>1, Told DEF TypeInv
<1>5. \A n : BagIn(n, fanout)' <=> BagIn(n, fanout)
  BY <1>1 DEF BagIn
<1>6. BagIn(m, net)
  BY DEF BagIn
<1> QED BY <1>1, <1>2, <1>3, <1>4, <1>5, <1>6 DEF UnderWay

(* One on the playlist's goes from the net to the consumers, if at all.        *)
LEMMA ServePlaylistMoves ==
  ASSUME TypeInv, NEW m \in BagToSet(net), ServePlaylist(m)
  PROVE  /\ m \in Msgs /\ m.kind \in {"playnow", "pause", "seek"}
         /\ \A n : BagIn(n, net)' => BagIn(n, net)
         /\ \A n : BagIn(n, net) => BagIn(n, net)' \/ n = m
         /\ \A n : BagIn(n, fanout)' <=> BagIn(n, fanout) \/ (n = m /\ m.track # None)
         /\ \A c \in Clients, n \in Msgs : Has(c, n)' <=> Has(c, n)
         /\ \A n \in Msgs : UnderWay(n)' => UnderWay(n)
<1>1. m \in Msgs /\ m.kind \in {"playnow", "pause", "seek"} /\ inbox' = inbox
  BY DEF ServePlaylist, SetPlayNow, PostPause, PostSeek, TypeInv, TypeOK
<1>2. \A n : BagIn(n, net)' => BagIn(n, net)
  BY BagTake DEF ServePlaylist, BagIn, TypeInv, BagsOK
<1>3. \A n : BagIn(n, net) => BagIn(n, net)' \/ n = m
  BY BagTake DEF ServePlaylist, BagIn, TypeInv, BagsOK
<1>4. \A n : BagIn(n, fanout)' <=> BagIn(n, fanout) \/ (n = m /\ m.track # None)
  <2>1. CASE m.track = None
    BY <2>1 DEF ServePlaylist, BagIn
  <2>2. CASE m.track # None
    <3>1. BagToSet(fanout') = BagToSet(fanout) \cup {m}
      BY <2>2, BagAdd DEF ServePlaylist, TypeInv, BagsOK
    <3> QED BY <2>2, <3>1 DEF BagIn
  <2> QED BY <2>1, <2>2
<1>5. \A c \in Clients, n \in Msgs : Has(c, n)' <=> Has(c, n)
  BY <1>1 DEF Has
<1>6. BagIn(m, net)
  BY DEF BagIn
<1> QED BY <1>1, <1>2, <1>3, <1>4, <1>5, <1>6 DEF UnderWay

(* An event goes from the consumers to the sockets.                            *)
LEMMA EmitMoves ==
  ASSUME TypeInv, NEW m \in BagToSet(fanout), Emit(m)
  PROVE  /\ m \in Msgs
         /\ \A n : BagIn(n, net)' <=> BagIn(n, net)
         /\ \A n : BagIn(n, fanout)' => BagIn(n, fanout)
         /\ \A n : BagIn(n, fanout) => BagIn(n, fanout)' \/ n = m
         /\ \A c \in Clients, n \in Msgs : Has(c, n)' <=> Has(c, n) \/ (n = m /\ c \in Audience(m))
         /\ \A n \in Msgs : UnderWay(n)' => UnderWay(n)
<1>1. m \in Msgs /\ Tell(m) /\ net' = net
  BY DEF Emit, TypeInv, TypeOK
<1>2. \A n : BagIn(n, fanout)' => BagIn(n, fanout)
  BY BagTake DEF Emit, BagIn, TypeInv, BagsOK
<1>3. \A n : BagIn(n, fanout) => BagIn(n, fanout)' \/ n = m
  BY BagTake DEF Emit, BagIn, TypeInv, BagsOK
<1>4. \A c \in Clients, n \in Msgs : Has(c, n)' <=> Has(c, n) \/ (n = m /\ c \in Audience(m))
  BY <1>1, Told DEF TypeInv
<1>5. \A n : BagIn(n, net)' <=> BagIn(n, net)
  BY <1>1 DEF BagIn
<1>6. BagIn(m, fanout)
  BY DEF BagIn
<1> QED BY <1>1, <1>2, <1>3, <1>4, <1>5, <1>6 DEF UnderWay

(* A request that fails leaves the net.                                        *)
LEMMA FailMoves ==
  ASSUME TypeInv, NEW m \in BagToSet(net), RequestFails(m)
  PROVE  /\ m \in Msgs
         /\ \A n : BagIn(n, net)' => BagIn(n, net)
         /\ \A n : BagIn(n, net) => BagIn(n, net)' \/ n = m
         /\ \A n : BagIn(n, fanout)' <=> BagIn(n, fanout)
         /\ \A c \in Clients, n \in Msgs : Has(c, n)' <=> Has(c, n)
         /\ \A n \in Msgs : UnderWay(n)' => UnderWay(n)
<1>1. m \in Msgs /\ fanout' = fanout /\ inbox' = inbox
  BY DEF RequestFails, server, TypeInv, TypeOK
<1>2. \A n : BagIn(n, net)' => BagIn(n, net)
  BY BagTake DEF RequestFails, BagIn, TypeInv, BagsOK
<1>3. \A n : BagIn(n, net) => BagIn(n, net)' \/ n = m
  BY BagTake DEF RequestFails, BagIn, TypeInv, BagsOK
<1> QED BY <1>1, <1>2, <1>3 DEF UnderWay, Has, BagIn

(* Who takes a message up posts what it says to that.                          *)
LEMMA ReceiveMoves ==
  ASSUME TypeInv, NEW c \in Clients, Receive(c),
         NEW m, m = Head(inbox[c]), NEW S, S = Handle(c, m).send
  PROVE  /\ m \in Msgs /\ S \in SUBSET Msgs /\ Has(c, m)
         /\ \A n : BagIn(n, net)' <=> BagIn(n, net) \/ n \in S
         /\ \A n : BagIn(n, fanout)' <=> BagIn(n, fanout)
         /\ \A d \in Clients, n \in Msgs : Has(d, n)' => Has(d, n)
         /\ \A d \in Clients, n \in Msgs : Has(d, n) => Has(d, n)' \/ (d = c /\ n = m)
         /\ \A n \in Msgs : UnderWay(n)' => UnderWay(n) \/ n \in S
<1>1. inbox[c] # <<>> /\ inbox' = [inbox EXCEPT ![c] = Tail(@)] /\ Post(S) /\ fanout' = fanout
  BY DEF Receive, server
<1>2. /\ m \in Msgs /\ Has(c, m)
      /\ \A d \in Clients, n \in Msgs : Has(d, n)' => Has(d, n)
      /\ \A d \in Clients, n \in Msgs : Has(d, n) => Has(d, n)' \/ (d = c /\ n = m)
  BY <1>1, Heard DEF TypeInv
<1>3. S \in SUBSET Msgs
  BY <1>2, MsgsPosted DEF TypeInv
<1>4. \A n : BagIn(n, net)' <=> BagIn(n, net) \/ n \in S
  BY <1>1, <1>3, PostTyped DEF BagIn
<1>5. \A n : BagIn(n, fanout)' <=> BagIn(n, fanout)
  BY <1>1 DEF BagIn
<1> QED BY <1>2, <1>3, <1>4, <1>5 DEF UnderWay

(* The other steps move nothing.                                               *)
LEMMA StillMoves ==
  ASSUME UNCHANGED <<net, fanout, inbox>>
  PROVE  /\ \A n : BagIn(n, net)' <=> BagIn(n, net)
         /\ \A n : BagIn(n, fanout)' <=> BagIn(n, fanout)
         /\ \A c \in Clients, n \in Msgs : Has(c, n)' <=> Has(c, n)
         /\ \A n \in Msgs : UnderWay(n)' <=> UnderWay(n)
BY DEF BagIn, Has, UnderWay

(* Nobody says anything of a track that is not there.                          *)
LEMMA MeantPosted ==
  ASSUME TypeOK, NEW c \in Clients
  PROVE  /\ \A t \in Opt \ {None} : \A n \in Announcement(c, t) : Meant(n)
         /\ \A p \in BOOLEAN : \A n \in State(c, p) : Meant(n)
         /\ \A m \in Msgs : Meant(m) => \A n \in Handle(c, m).send : Meant(n)
<1>1. ASSUME NEW t \in Opt \ {None}, NEW n \in Announcement(c, t) PROVE Meant(n)
  BY <1>1 DEF Announcement, Msg, Meant
<1>2. ASSUME NEW p \in BOOLEAN, NEW n \in State(c, p) PROVE Meant(n)
  BY <1>2 DEF State, Msg, Meant
<1>3. ASSUME NEW m \in Msgs, Meant(m), NEW n \in Handle(c, m).send PROVE Meant(n)
  <2>1. /\ Handle(c, m).send = Announcement(c, m.track)
        /\ m.kind \in {"pause", "seek"}
    BY <1>3 DEF Handle, Reaction
  <2>2. m.track \in Opt \ {None}
    BY <1>3, <2>1 DEF Meant, Msgs
  <2> QED BY <1>1, <1>3, <2>1, <2>2
<1> QED BY <1>1, <1>2, <1>3

(* Posting what is meant, moving nothing else.                                 *)
LEMMA AddressedPost ==
  ASSUME AddrInv, NEW S \in SUBSET Msgs, Post(S), \A n \in S : Meant(n),
         UNCHANGED <<fanout, inbox, tuned>>
  PROVE  Addressed'
<1>1. \A m : Route(m)' = Route(m) /\ Audience(m)' = Audience(m) /\ Meant(m)' = Meant(m)
  BY DEF Route, Audience, Meant
<1> QED BY <1>1, PostMoves DEF AddrInv, Addressed

LEMMA AddressedStep == AddrInv /\ [Next]_vars => Addressed'
<1> SUFFICES ASSUME AddrInv, [Next]_vars PROVE Addressed'
  OBVIOUS
<1> USE DEF AddrInv
<1>0. /\ \A m : Route(m)' = Route(m) /\ Meant(m)' = Meant(m)
      /\ tuned \subseteq tuned' => \A m : Audience(m) \subseteq Audience(m)'
  BY DEF Route, Audience, Meant
<1>1. ASSUME NEW m \in BagToSet(net), ServePlayer(m) PROVE Addressed'
  <2>1. tuned' = tuned
    BY <1>1 DEF ServePlayer, cast
  <2> QED BY <1>0, <1>1, <2>1, ServePlayerMoves DEF Addressed
<1>2. ASSUME NEW m \in BagToSet(net), ServePlaylist(m) PROVE Addressed'
  <2>1. tuned' = tuned
    BY <1>2 DEF ServePlaylist, cast
  <2>2. Route(m) = "playlist"
    BY <1>2, ServePlaylistMoves DEF Route
  <2> QED BY <1>0, <1>2, <2>1, <2>2, ServePlaylistMoves DEF Addressed
<1>3. ASSUME NEW m \in BagToSet(fanout), Emit(m) PROVE Addressed'
  <2>1. tuned' = tuned
    BY <1>3 DEF Emit, cast
  <2>2. BagIn(m, fanout)
    BY DEF BagIn
  <2> QED BY <1>0, <1>3, <2>1, <2>2, EmitMoves DEF Addressed
<1>4. ASSUME NEW m \in BagToSet(net), RequestFails(m) PROVE Addressed'
  <2>1. tuned' = tuned
    BY <1>4 DEF RequestFails, cast
  <2> QED BY <1>0, <1>4, <2>1, FailMoves DEF Addressed
<1>5. ASSUME NEW c \in Clients, Receive(c) PROVE Addressed'
  <2> DEFINE m == Head(inbox[c])
             S == Handle(c, m).send
  <2>1. /\ m \in Msgs /\ S \in SUBSET Msgs /\ Has(c, m)
        /\ \A n : BagIn(n, fanout)' <=> BagIn(n, fanout)
        /\ \A d \in Clients, n \in Msgs : Has(d, n)' => Has(d, n)
        /\ \A n \in Msgs : UnderWay(n)' => UnderWay(n) \/ n \in S
    BY <1>5, ReceiveMoves
  <2>2. Meant(m)
    BY <2>1 DEF Addressed, UnderWay
  <2>3. \A n \in S : Meant(n)
    BY <2>1, <2>2, MeantPosted DEF TypeInv
  <2>4. tuned' = tuned
    BY <1>5 DEF Receive, cast
  <2> HIDE DEF m, S
  <2> QED BY <1>0, <2>1, <2>3, <2>4 DEF Addressed
<1>6. ASSUME NEW c \in Clients, \/ Answer(c) \/ Joined(c) \/ Synced(c)
                                \/ Follow(c) \/ Unfollow(c) \/ RequestSync(c) \/ Tune(c)
      PROVE  Addressed'
  <2>1. UNCHANGED <<net, fanout, inbox>> /\ tuned \subseteq tuned'
    BY <1>6 DEF Answer, Joined, Synced, Follow, Unfollow, RequestSync, Tune, cast, server
  <2> QED BY <1>0, <2>1, StillMoves DEF Addressed
<1>7. ASSUME NEW c \in Clients, NEW t \in Tracks, Play(c, t) PROVE Addressed'
  <2>1. t \in Opt \ {None}
    BY SyncAssumption DEF Opt
  <2>2. Announcement(c, t) \in SUBSET Msgs /\ \A n \in Announcement(c, t) : Meant(n)
    BY <2>1, MsgsPosted, MeantPosted DEF TypeInv
  <2> QED BY <1>7, <2>2, AddressedPost DEF Play, cast, server
<1>8. ASSUME NEW c \in Clients, Toggle(c) PROVE Addressed'
  <2> DEFINE p == ~me[c].playing
  <2>1. p \in BOOLEAN /\ Post(State(c, p)) /\ UNCHANGED <<fanout, inbox, tuned>>
    BY <1>8 DEF Toggle, cast, server
  <2> HIDE DEF p
  <2>2. State(c, p) \in SUBSET Msgs /\ \A n \in State(c, p) : Meant(n)
    BY <2>1, MsgsPosted, MeantPosted DEF TypeInv
  <2> QED BY <2>1, <2>2, AddressedPost
<1>9. ASSUME NEW c \in Clients, Stop(c) PROVE Addressed'
  <2> DEFINE S == State(c, FALSE) \cup IF Announces(c) THEN {Msg("playnow", c, None, FALSE)} ELSE {}
  <2>1. Post(S) /\ UNCHANGED <<fanout, inbox, tuned>>
    BY <1>9 DEF Stop, cast, server
  <2>2. State(c, FALSE) \in SUBSET Msgs /\ \A n \in State(c, FALSE) : Meant(n)
    BY MsgsPosted, MeantPosted DEF TypeInv
  <2>3. Msg("playnow", c, None, FALSE) \in Msgs /\ Meant(Msg("playnow", c, None, FALSE))
    BY DEF Msg, Msgs, Meant, Opt
  <2>4. S \in SUBSET Msgs /\ \A n \in S : Meant(n)
    BY <2>2, <2>3
  <2> HIDE DEF S
  <2> QED BY <2>1, <2>4, AddressedPost
<1>10. ASSUME NEW c \in Clients, Seek(c) PROVE Addressed'
  <2> DEFINE S == {Msg("seek", c, me[c].track, FALSE)}
  <2>1. Post(S) /\ UNCHANGED <<fanout, inbox, tuned>> /\ me[c].track # None
    BY <1>10 DEF Seek, cast, server
  <2>2. S \in SUBSET Msgs /\ \A n \in S : Meant(n)
    BY <2>1 DEF Msg, Msgs, Meant, TypeInv, TypeOK
  <2> HIDE DEF S
  <2> QED BY <2>1, <2>2, AddressedPost
<1>11. ASSUME NEW c \in Clients, LatePlay(c) PROVE Addressed'
  <2>1. State(c, TRUE) \in SUBSET Msgs /\ \A n \in State(c, TRUE) : Meant(n)
    BY MsgsPosted, MeantPosted DEF TypeInv
  <2> QED BY <1>11, <2>1, AddressedPost DEF LatePlay, cast, server
<1>12. CASE UNCHANGED vars
  <2>1. UNCHANGED <<net, fanout, inbox>> /\ tuned \subseteq tuned'
    BY <1>12 DEF vars, cast, server
  <2> QED BY <1>0, <2>1, StillMoves DEF Addressed
<1> QED BY <1>1, <1>2, <1>3, <1>4, <1>5, <1>6, <1>7, <1>8, <1>9, <1>10, <1>11, <1>12 DEF Next, System

LEMMA AddressedInit == Init => Addressed
<1> SUFFICES ASSUME Init PROVE Addressed
  OBVIOUS
<1>1. \A m : ~BagIn(m, net) /\ ~BagIn(m, fanout)
  BY BagNone DEF Init, BagIn
<1>2. \A c \in Clients, m \in Msgs : ~Has(c, m)
  BY DEF Init, Has
<1> QED BY <1>1, <1>2 DEF Addressed, UnderWay

LEMMA Addresses == Spec => []AddrInv
<1>1. Init => AddrInv
  BY TypeInit, AddressedInit DEF AddrInv
<1>2. AddrInv /\ [Next]_vars => AddrInv'
  BY TypeStep, AddressedStep DEF AddrInv
<1> QED BY <1>1, <1>2, PTL DEF Spec

-----------------------------------------------------------------------------
(* The last command that was given in quiet is on its way to whoever it        *)
(* reaches and does not show it yet.                                           *)
ByRoute(c, r) == Follows(c) /\ (r = "player" => c \in tuned)
Carries(m) == m.kind \in {"pause", "hold"} \/ (m.kind \in {"playnow", "play"} /\ m.track # None)
Agrees(c) ==
  /\ want.track # None => me[c].track = want.track
  /\ want.playing <=> (me[c].playing /\ me[c].track # None)
Coming(c, r) == \E m \in Msgs :
  /\ BagIn(m, net) \/ BagIn(m, fanout) \/ Has(c, m)
  /\ Route(m) = r /\ c \in Audience(m) /\ Carries(m)
Syncing(c) == asked[c] # None /\ role[c] = "viewer"
Reaching ==
  \A c \in Clients, r \in want.via : ByRoute(c, r) => Agrees(c) \/ Coming(c, r) \/ Syncing(c)

(* Whatever is under way is of that command: a player that takes it up does    *)
(* what was asked for, and has nothing to announce.                            *)
FitsPlay(m) ==
  /\ m.track = want.track
  /\ m.track # None =>
       want.playing /\ \A c \in Clients : Follows(c) /\ me[c].track = m.track => me[c].playing
FitsPause(m) ==
  /\ m.paused <=> ~want.playing
  /\ m.kind = "pause" /\ want.track # None => m.track = want.track
  /\ \A c \in Clients \ {m.from} : Follows(c) =>
       /\ m.kind = "pause" => me[c].track = m.track
       /\ want.track # None => me[c].track = want.track
FitsSeek(m) ==
  /\ \A c \in Clients : Follows(c) => me[c].track = m.track
  /\ "playlist" \in want.via /\ want.track # None => m.track = want.track
Fits(m) ==
  /\ m.kind \in {"playnow", "play"} => FitsPlay(m)
  /\ m.kind \in {"pause", "hold"} => FitsPause(m)
  /\ m.kind = "seek" => FitsSeek(m)
Fitting == \A m \in Msgs : UnderWay(m) => Fits(m)
SeekAlone == \A m, n \in Msgs : UnderWay(m) /\ UnderWay(n) /\ m.kind = "seek" => n.kind = "seek"

(* The server has it, or will be told.                                         *)
KeptPlaylist == "playlist" \in want.via /\ want.track # None =>
  \/ playback.track = want.track
  \/ \E m \in Msgs : BagIn(m, net) /\ Route(m) = "playlist" /\ Carries(m)
KeptPause == "player" \in want.via =>
  \/ player.paused <=> ~want.playing
  \/ \E m \in Msgs : BagIn(m, net) /\ Route(m) = "player"
KeptPlayer == "player" \in want.via /\ want.started =>
  \/ player.track = want.track
  \/ \E m \in Msgs : BagIn(m, net) /\ m.kind = "play"
Kept == KeptPlaylist /\ KeptPause /\ KeptPlayer

(* Who asks the server does so in quiet, and is answered with the same.        *)
AskedRight(c) ==
  /\ want.playing /\ "playlist" \in want.via
  /\ role[c] = "operator" => want.started /\ "player" \in want.via
  /\ role[c] = "viewer" => me[c].track = asked[c].had
  /\ asked[c].step = "answered" => asked[c].track = want.track
Asking == \A c \in Clients : asked[c] # None =>
  /\ \A m \in Msgs : ~UnderWay(m)
  /\ Follows(c) /\ role[c] \in {"viewer", "operator"} => AskedRight(c)
Started == want.playing \/ want.started => want.track # None

Explained == want # None =>
  Fitting /\ SeekAlone /\ Reaching /\ Kept /\ Asking /\ Started
SyncInv == AddrInv /\ Explained

-----------------------------------------------------------------------------
(* Then what has settled agrees.                                               *)
LEMMA QuietNothing ==
  ASSUME TypeInv, Quiet
  PROVE  /\ \A m : ~BagIn(m, net) /\ ~BagIn(m, fanout)
         /\ \A c \in Clients, m \in Msgs : ~Has(c, m)
         /\ \A m \in Msgs : ~UnderWay(m)
         /\ \A c \in Clients : asked[c] = None
<1>1. \A m : ~BagIn(m, net) /\ ~BagIn(m, fanout)
  BY BagNone DEF Quiet, BagIn
<1>2. \A c \in Clients, m \in Msgs : ~Has(c, m)
  BY DEF Quiet, Has
<1> QED BY <1>1, <1>2 DEF Quiet, UnderWay

LEMMA QuietAgrees ==
  ASSUME SyncInv, Quiet, want # None
  PROVE  /\ \A c \in Clients, r \in want.via : ByRoute(c, r) => Agrees(c)
         /\ "playlist" \in want.via /\ want.track # None => playback.track = want.track
         /\ "player" \in want.via => (player.paused <=> ~want.playing)
         /\ "player" \in want.via /\ want.started => player.track = want.track
BY QuietNothing DEF SyncInv, AddrInv, Explained, Reaching, Coming, Syncing, Kept, KeptPlaylist, KeptPause, KeptPlayer

LEMMA SyncSettled == SyncInv => SettledAgree
<1> SUFFICES ASSUME SyncInv, Quiet, want # None, NEW c \in Clients, Follows(c),
                    "playlist" \in want.via \/ (c \in tuned /\ "player" \in want.via)
             PROVE  /\ want.track # None => me[c].track = want.track
                    /\ (me[c].playing /\ me[c].track # None) = want.playing
  BY DEF SettledAgree
<1>1. \E r \in want.via : ByRoute(c, r)
  BY DEF ByRoute
<1>2. Agrees(c)
  BY <1>1, QuietAgrees
<1>3. want.playing \in BOOLEAN
  BY DEF SyncInv, AddrInv, TypeInv, TypeOK
<1> QED BY <1>2, <1>3 DEF Agrees

LEMMA SyncMatches == SyncInv => ServerMatches
<1> SUFFICES ASSUME SyncInv, Quiet, want # None, want.via = {"playlist", "player"}
             PROVE  /\ player.paused = ~want.playing
                    /\ want.track # None => playback.track = want.track
                    /\ want.started => player.track = want.track
  BY DEF ServerMatches
<1>1. /\ player.paused <=> ~want.playing
      /\ want.track # None => playback.track = want.track
      /\ want.started => player.track = want.track
  BY QuietAgrees
<1>2. player.paused \in BOOLEAN /\ want.playing \in BOOLEAN
  BY DEF SyncInv, AddrInv, TypeInv, TypeOK, States
<1>3. player.paused = ~want.playing
  BY <1>1, <1>2
<1> QED BY <1>1, <1>3

LEMMA SyncInit == Init => SyncInv
<1>1. Init => AddrInv
  BY TypeInit, AddressedInit DEF AddrInv
<1> QED BY <1>1 DEF Init, SyncInv, Explained

-----------------------------------------------------------------------------
(* Commands given in quiet.                                                    *)
LEMMA PlayExplains ==
  ASSUME SyncInv, NEW c \in Clients, NEW t \in Tracks, Play(c, t), Announces(c), want' # None
  PROVE  Explained'
<1> DEFINE S == Announcement(c, t)
<1>0. AddrInv /\ TypeInv /\ t \in Opt /\ t # None
  BY SyncAssumption DEF SyncInv, AddrInv, Opt
<1>1. /\ Quiet /\ (\A f \in Clients : Follows(f) => me[f].track # t)
      /\ want' = Want(c, t, TRUE, TRUE)
      /\ UNCHANGED <<cast, asked, inbox, server>>
      /\ me' = [me EXCEPT ![c] = Shows(c, t)] /\ Post(S)
  BY DEF Play, Calm
<1>2. want'.track = t /\ want'.playing = TRUE /\ want'.started = TRUE /\ want'.via = Routes(c)
  BY <1>0, <1>1, WantTyped
<1>3. Follows(c) /\ \A f : Follows(f)' = Follows(f)
  BY <1>1 DEF Announces, Follows, cast
<1>4. me'[c].track = t /\ me'[c].playing = TRUE /\ \A f \in Clients \ {c} : me'[f] = me[f]
  BY <1>0, <1>1, <1>3 DEF Shows, TypeInv, TypeOK
<1>5. S \in SUBSET Msgs /\ \A n \in S : n.kind \in {"playnow", "play"} /\ n.track = t /\ n.from = c
  <2>1. S \in SUBSET Msgs
    BY <1>0, MsgsPosted DEF TypeInv
  <2>2. \A n \in S : n.kind \in {"playnow", "play"} /\ n.track = t /\ n.from = c
    BY DEF Announcement, Msg
  <2> QED BY <2>1, <2>2
<1>6. (\A m : BagIn(m, net)' <=> m \in S) /\ (\A m \in Msgs : UnderWay(m)' <=> m \in S)
  BY <1>0, <1>1, <1>5, QuietNothing, PostMoves DEF server
<1>7. Fitting' /\ SeekAlone'
  <2>1. ASSUME NEW m \in Msgs, UnderWay(m)' PROVE Fits(m)'
    BY <1>0, <1>1, <1>2, <1>3, <1>4, <1>5, <1>6, <2>1 DEF Fits, FitsPlay
  <2>2. ASSUME NEW m \in Msgs, UnderWay(m)' PROVE m.kind # "seek"
    BY <1>5, <1>6, <2>2
  <2> QED BY <2>1, <2>2 DEF Fitting, SeekAlone
<1>8. ASSUME NEW r \in Routes(c)
      PROVE  \E m \in S : /\ Route(m) = r /\ Carries(m)
                          /\ r = "player" => m.kind = "play"
                          /\ \A f \in Clients \ {c} : (r = "player" => f \in tuned) => f \in Audience(m)
  <2>1. CASE r = "playlist"
    <3> DEFINE m == Msg("playnow", c, t, FALSE)
    <3>1. m \in S /\ m.kind = "playnow" /\ m.track = t
      BY DEF Announcement, Msg
    <3> HIDE DEF m
    <3> QED BY <1>0, <2>1, <3>1 DEF Route, Carries, Audience
  <2>2. CASE r = "player"
    <3> DEFINE m == Msg("play", c, t, FALSE)
    <3>1. c \in tuned
      BY <2>2 DEF Routes
    <3>2. m \in S /\ m.kind = "play" /\ m.track = t /\ m.from = c
      BY <3>1 DEF Announcement, Msg
    <3> HIDE DEF m
    <3> QED BY <1>0, <2>2, <3>2 DEF Route, Carries, Audience
  <2> QED BY <1>8, <2>1, <2>2 DEF Routes
<1>9. Reaching'
  <2>1. Agrees(c)'
    BY <1>0, <1>2, <1>4 DEF Agrees
  <2>2. ASSUME NEW f \in Clients \ {c}, NEW r \in Routes(c), ByRoute(f, r)' PROVE Coming(f, r)'
    <3>1. PICK m \in S : Route(m) = r /\ Carries(m) /\ f \in Audience(m)
      BY <1>1, <1>8, <2>2 DEF ByRoute, cast
    <3>2. m \in Msgs /\ BagIn(m, net)' /\ Route(m)' = r /\ Carries(m)' /\ f \in Audience(m)'
      BY <1>1, <1>5, <1>6, <3>1 DEF Route, Carries, Audience, cast
    <3> QED BY <3>2 DEF Coming
  <2> QED BY <1>2, <2>1, <2>2 DEF Reaching
<1>10. Kept'
  <2>1. KeptPlaylist'
    <3>1. "playlist" \in Routes(c)
      BY DEF Routes
    <3>2. PICK m \in S : Route(m) = "playlist" /\ Carries(m)
      BY <1>8, <3>1
    <3>3. m \in Msgs /\ BagIn(m, net)' /\ Route(m)' = "playlist" /\ Carries(m)'
      BY <1>5, <1>6, <3>2 DEF Route, Carries
    <3> QED BY <3>3 DEF KeptPlaylist
  <2>2. ASSUME "player" \in Routes(c)
        PROVE  \E m \in Msgs : BagIn(m, net)' /\ m.kind = "play" /\ Route(m)' = "player"
    <3>1. PICK m \in S : Route(m) = "player" /\ m.kind = "play"
      BY <1>8, <2>2
    <3>2. m \in Msgs /\ BagIn(m, net)' /\ Route(m)' = "player"
      BY <1>5, <1>6, <3>1 DEF Route
    <3> QED BY <3>1, <3>2
  <2> QED BY <1>2, <2>1, <2>2 DEF Kept, KeptPause, KeptPlayer
<1>11. Asking' /\ Started'
  BY <1>0, <1>1, <1>2, QuietNothing DEF Asking, Started
<1> QED BY <1>7, <1>9, <1>10, <1>11 DEF Explained

(* A player that is paused, resumed or stopped where all play the same track.  *)
LEMMA StateExplains ==
  ASSUME SyncInv, Quiet, NEW c \in Clients, Announces(c), NEW p \in BOOLEAN,
         me[c].track # None, AllOn(me[c].track),
         NEW S \in SUBSET Msgs, Post(S), State(c, p) \subseteq S,
         \A n \in S \ State(c, p) : n.kind = "playnow" /\ n.track = None /\ want'.track = None,
         want'.playing = p, want'.via = Routes(c), want'.track \in {None, me[c].track},
         want'.track = None => p = FALSE /\ want'.started = FALSE,
         "player" \in Routes(c) /\ want'.started => player.track = want'.track,
         UNCHANGED <<cast, asked, inbox, server>>,
         \A f \in Clients \ {c} : me'[f] = me[f],
         me'[c].track = want'.track, me'[c].playing = p
  PROVE  Explained'
<1> DEFINE t == me[c].track
<1>0. AddrInv /\ TypeInv
  BY DEF SyncInv, AddrInv
<1>1. t \in Opt /\ t # None
  BY <1>0 DEF TypeInv, TypeOK
<1>2. Follows(c) /\ (\A f : Follows(f)' = Follows(f)) /\ \A f \in Clients : Follows(f) => me[f].track = t
  BY DEF Announces, Follows, AllOn, cast
<1>3. \A n \in State(c, p) : /\ n.kind \in {"pause", "hold"} /\ n.from = c /\ (n.paused <=> ~p)
                             /\ n.kind = "pause" => n.track = t
  <2> DEFINE q == ~p
  <2>1. State(c, p) \subseteq {Msg("pause", c, t, q), Msg("hold", c, None, q)}
    BY DEF State
  <2>2. q <=> ~p
    OBVIOUS
  <2> HIDE DEF q, t
  <2> QED BY <2>1, <2>2 DEF Msg
<1>4. (\A m : BagIn(m, net)' <=> m \in S) /\ (\A m \in Msgs : UnderWay(m)' <=> m \in S)
  BY <1>0, QuietNothing, PostMoves DEF server
<1> HIDE DEF t
<1>5. Fitting' /\ SeekAlone'
  <2>1. ASSUME NEW m \in State(c, p) PROVE Fits(m)'
    <3>1. m.kind \in {"pause", "hold"} /\ m.from = c /\ (m.paused <=> ~p) /\ (m.kind = "pause" => m.track = t)
      BY <1>3
    <3>2. \A f \in Clients \ {c} : Follows(f)' => me'[f].track = t
      BY <1>2
    <3>3. want'.track \in {None, t}
      BY DEF t
    <3> QED BY <3>1, <3>2, <3>3 DEF Fits, FitsPause
  <2>2. ASSUME NEW m \in S \ State(c, p) PROVE Fits(m)'
    <3>1. m.kind = "playnow" /\ m.track = None /\ want'.track = None
      BY <2>2
    <3> QED BY <3>1 DEF Fits, FitsPlay
  <2>3. \A m \in S : m.kind # "seek"
    BY <1>3
  <2> QED BY <1>4, <2>1, <2>2, <2>3 DEF Fitting, SeekAlone
<1>6. ASSUME NEW r \in Routes(c)
      PROVE  \E m \in S : /\ Route(m) = r /\ Carries(m)
                          /\ \A f \in Clients \ {c} : (r = "player" => f \in tuned) => f \in Audience(m)
  <2>1. CASE r = "playlist"
    <3> DEFINE m == Msg("pause", c, t, ~p)
    <3>1. m \in S /\ m.kind = "pause" /\ m.from = c
      BY DEF State, Msg, t
    <3> HIDE DEF m
    <3> QED BY <2>1, <3>1 DEF Route, Carries, Audience
  <2>2. CASE r = "player"
    <3> DEFINE m == Msg("hold", c, None, ~p)
    <3>1. c \in tuned
      BY <2>2 DEF Routes
    <3>2. m \in S /\ m.kind = "hold" /\ m.from = c
      BY <3>1 DEF State, Msg
    <3> HIDE DEF m
    <3> QED BY <2>2, <3>2 DEF Route, Carries, Audience
  <2> QED BY <1>6, <2>1, <2>2 DEF Routes
<1>7. ASSUME NEW r \in Routes(c)
      PROVE  \E m \in Msgs : /\ BagIn(m, net)' /\ Route(m)' = r /\ Carries(m)'
                             /\ \A f \in Clients \ {c} : ByRoute(f, r)' => f \in Audience(m)'
  <2>1. PICK m \in S : /\ Route(m) = r /\ Carries(m)
                       /\ \A f \in Clients \ {c} : (r = "player" => f \in tuned) => f \in Audience(m)
    BY <1>6
  <2>2. m \in Msgs /\ BagIn(m, net)' /\ Route(m)' = r /\ Carries(m)'
    BY <1>4, <2>1 DEF Route, Carries
  <2>3. \A f \in Clients \ {c} : ByRoute(f, r)' => f \in Audience(m)'
    BY <2>1 DEF ByRoute, Audience, Route, cast
  <2> QED BY <2>2, <2>3
<1>8. Reaching'
  <2>1. Agrees(c)'
    BY <1>1 DEF Agrees, t
  <2>2. ASSUME NEW f \in Clients \ {c}, NEW r \in Routes(c), ByRoute(f, r)' PROVE Coming(f, r)'
    BY <1>7, <2>2 DEF Coming
  <2> QED BY <2>1, <2>2 DEF Reaching
<1>9. Kept'
  <2>1. "playlist" \in Routes(c)
    BY DEF Routes
  <2>2. player' = player
    BY DEF server
  <2> QED BY <1>7, <2>1, <2>2 DEF Kept, KeptPlaylist, KeptPause, KeptPlayer
<1>10. Asking' /\ Started'
  BY <1>0, <1>1, QuietNothing DEF Asking, Started, t
<1> QED BY <1>5, <1>8, <1>9, <1>10 DEF Explained

LEMMA ToggleExplains ==
  ASSUME SyncInv, NEW c \in Clients, Toggle(c), Announces(c), want' # None
  PROVE  Explained'
<1> DEFINE p == ~me[c].playing
           t == me[c].track
           st == want # None /\ want.started /\ "player" \in want.via
<1>0. TypeInv /\ me[c] \in Slots /\ t \in Opt
  BY DEF SyncInv, AddrInv, TypeInv, TypeOK, Slots
<1>1. p \in BOOLEAN /\ st \in BOOLEAN
  BY <1>0 DEF TypeInv, TypeOK, Slots
<1>2. /\ Quiet /\ AllOn(t) /\ t # None /\ want' = Want(c, t, p, st)
      /\ me' = [me EXCEPT ![c] = Plays(c, p)] /\ Post(State(c, p))
      /\ UNCHANGED <<cast, asked, inbox, server>>
  BY DEF Toggle, Calm
<1>3. "player" \in Routes(c) /\ st => player.track = t
  <2> SUFFICES ASSUME "player" \in Routes(c), st PROVE player.track = t
    OBVIOUS
  <2>1. ByRoute(c, "player")
    BY DEF ByRoute, Routes, Announces, Follows
  <2>2. Agrees(c) /\ player.track = want.track
    BY <1>2, <2>1, QuietAgrees
  <2>3. want.track # None
    BY DEF SyncInv, Explained, Started
  <2> QED BY <2>2, <2>3 DEF Agrees
<1> HIDE DEF p, st
<1>4. /\ want'.track = t /\ want'.playing = p /\ want'.started = st /\ want'.via = Routes(c)
  BY <1>0, <1>1, <1>2, WantTyped
<1>5. State(c, p) \in SUBSET Msgs
  BY <1>0, <1>1, MsgsPosted DEF TypeInv
<1>6. /\ \A f \in Clients \ {c} : me'[f] = me[f]
      /\ me'[c].track = t /\ me'[c].playing = p
  BY <1>0, <1>2 DEF Plays, Slots, TypeInv, TypeOK
<1> QED BY <1>1, <1>2, <1>3, <1>4, <1>5, <1>6, StateExplains

LEMMA StopExplains ==
  ASSUME SyncInv, NEW c \in Clients, Stop(c), Announces(c), want' # None
  PROVE  Explained'
<1> DEFINE S == State(c, FALSE) \cup {Msg("playnow", c, None, FALSE)}
<1>0. TypeInv /\ None \in Opt
  BY DEF SyncInv, AddrInv, Opt
<1>1. /\ Quiet /\ AllOn(me[c].track) /\ me[c].track # None /\ want' = Want(c, None, FALSE, FALSE)
      /\ me' = [me EXCEPT ![c] = [track |-> None, playing |-> FALSE]] /\ Post(S)
      /\ UNCHANGED <<cast, asked, inbox, server>>
  BY DEF Stop, Calm
<1>2. S \in SUBSET Msgs /\ \A n \in S \ State(c, FALSE) : n.kind = "playnow" /\ n.track = None
  <2>1. State(c, FALSE) \in SUBSET Msgs
    BY <1>0, MsgsPosted DEF TypeInv
  <2>2. Msg("playnow", c, None, FALSE) \in Msgs
    BY <1>0 DEF Msg, Msgs
  <2>3. \A n \in S \ State(c, FALSE) : n = Msg("playnow", c, None, FALSE)
    OBVIOUS
  <2>4. S \in SUBSET Msgs
    BY <2>1, <2>2
  <2>5. Msg("playnow", c, None, FALSE).kind = "playnow" /\ Msg("playnow", c, None, FALSE).track = None
    BY DEF Msg
  <2> HIDE DEF S
  <2> QED BY <2>3, <2>4, <2>5
<1>3. /\ want'.track = None /\ want'.playing = FALSE /\ want'.started = FALSE /\ want'.via = Routes(c)
  BY <1>0, <1>1, WantTyped
<1>4. /\ \A f \in Clients \ {c} : me'[f] = me[f]
      /\ me'[c].track = None /\ me'[c].playing = FALSE
  BY <1>0, <1>1 DEF TypeInv, TypeOK
<1>5. State(c, FALSE) \subseteq S
  OBVIOUS
<1> HIDE DEF S
<1> QED BY <1>1, <1>2, <1>3, <1>4, <1>5, StateExplains

(* A seek names the track that everybody plays.                                *)
LEMMA SeekExplains ==
  ASSUME SyncInv, NEW c \in Clients, Seek(c), want' # None
  PROVE  Explained'
<1>0. AddrInv /\ TypeInv
  BY DEF SyncInv, AddrInv
<1> PICK m : m = Msg("seek", c, me[c].track, FALSE)
  OBVIOUS
<1>1. /\ Quiet /\ AllOn(me[c].track) /\ want' = want /\ want # None /\ Post({m})
      /\ UNCHANGED <<cast, me, asked, inbox, server>> /\ Follows(c)
  BY DEF Seek, Calm, Announces, Follows
<1>2. {m} \in SUBSET Msgs /\ m \in Msgs /\ m.kind = "seek" /\ m.track = me[c].track
  BY <1>0 DEF Msg, Msgs, TypeInv, TypeOK
<1>3. \A f : Follows(f)' = Follows(f)
  BY <1>1 DEF Follows, cast
<1>4. \A n \in Msgs : UnderWay(n)' <=> n = m
  BY <1>0, <1>1, <1>2, QuietNothing, PostMoves DEF server
<1>5. Fits(m)'
  <2>1. \A f \in Clients : Follows(f)' => me'[f].track = m.track
    BY <1>1, <1>2, <1>3 DEF AllOn
  <2>2. "playlist" \in want.via /\ want.track # None => m.track = want.track
    BY <1>1, <1>2, QuietAgrees DEF ByRoute, Agrees
  <2> QED BY <1>1, <1>2, <2>1, <2>2 DEF Fits, FitsSeek
<1>6. Reaching'
  <2>1. ASSUME NEW f \in Clients, NEW r \in want.via, ByRoute(f, r)' PROVE Agrees(f)'
    <3>1. ByRoute(f, r)
      BY <1>1, <1>3, <2>1 DEF ByRoute, cast
    <3>2. Agrees(f)
      BY <1>1, <3>1, QuietAgrees
    <3> QED BY <1>1, <3>2 DEF Agrees
  <2> QED BY <1>1, <2>1 DEF Reaching
<1>7. Kept'
  BY <1>1, QuietAgrees DEF server, Kept, KeptPlaylist, KeptPause, KeptPlayer
<1>8. Asking' /\ Started'
  BY <1>0, <1>1, QuietNothing DEF Asking, Started, SyncInv, Explained
<1> QED BY <1>2, <1>4, <1>5, <1>6, <1>7, <1>8 DEF Explained, Fitting, SeekAlone

(* Who joins a channel that plays is not told of it, and asks.                 *)
LEMMA AskExplains ==
  ASSUME SyncInv, NEW c \in Clients, RequestSync(c) \/ Tune(c), want' # None
  PROVE  Explained'
<1>0. AddrInv /\ TypeInv
  BY DEF SyncInv, AddrInv
<1>1. /\ Quiet /\ want' = want /\ want # None /\ want.playing /\ "playlist" \in want.via
      /\ asked' = [asked EXCEPT ![c] = Asked(c)]
      /\ UNCHANGED <<role, me, inbox, server, net>>
  BY DEF RequestSync, Tune, Calm
<1>2. \A n \in Msgs : ~UnderWay(n)'
  BY <1>0, <1>1, QuietNothing, StillMoves DEF server
<1>3. /\ asked'[c] # None /\ asked'[c].step = "sent" /\ asked'[c].had = me[c].track
      /\ \A f \in Clients \ {c} : asked'[f] = None
  <2>1. Asked(c) \in [step : {"sent", "answered"}, had : Tracks \cup {None}, track : Tracks \cup {None}]
    BY <1>0 DEF Asked, TypeInv, TypeOK, Opt
  <2>2. asked'[c] = Asked(c) /\ \A f \in Clients \ {c} : asked'[f] = asked[f]
    BY <1>0, <1>1 DEF TypeInv, TypeOK
  <2> QED BY <1>0, <1>1, <2>1, <2>2, QuietNothing, SyncAssumption DEF Asked
<1>4. /\ role[c] = "viewer" \/ (want.started /\ "player" \in want.via /\ ByRoute(c, "playlist"))
      /\ \A f \in Clients \ {c} : \A r : ByRoute(f, r)' => ByRoute(f, r)
  BY DEF RequestSync, Tune, Calm, ByRoute, Follows
<1>5. Reaching'
  <2>1. ASSUME NEW f \in Clients, NEW r \in want.via, ByRoute(f, r)', role[f] = "viewer" => f # c
        PROVE  Agrees(f)'
    <3>1. Agrees(f)
      BY <1>1, <1>4, <2>1, QuietAgrees
    <3> QED BY <1>1, <3>1 DEF Agrees
  <2> QED BY <1>1, <1>3, <2>1 DEF Reaching, Syncing
<1>6. Kept'
  BY <1>1, QuietAgrees DEF server, Kept, KeptPlaylist, KeptPause, KeptPlayer
<1>7. Asking'
  <2>1. role[c] = "operator" => want.started /\ "player" \in want.via
    BY <1>4
  <2>2. AskedRight(c)'
    BY <1>1, <1>3, <2>1 DEF AskedRight
  <2> QED BY <1>2, <1>3, <2>2 DEF Asking
<1>8. Started'
  BY <1>1 DEF SyncInv, Explained, Started
<1> QED BY <1>2, <1>5, <1>6, <1>7, <1>8 DEF Explained, Fitting, SeekAlone

(* What a player that does not follow does is its own affair.                  *)
LEMMA AsideExplains ==
  ASSUME SyncInv, want # None, want' = want, UNCHANGED <<role, tuned, asked, inbox, server>>,
         \A n : BagIn(n, net)' <=> BagIn(n, net),
         \A f \in Clients : Follows(f)' => Follows(f) /\ me'[f] = me[f]
  PROVE  Explained'
<1>0. Fitting /\ SeekAlone /\ Reaching /\ Kept /\ Asking /\ Started
  BY DEF SyncInv, Explained
<1>1. /\ \A n \in Msgs : UnderWay(n)' <=> UnderWay(n)
      /\ \A f \in Clients : \A n : Has(f, n)' <=> Has(f, n)
      /\ \A n : BagIn(n, fanout)' <=> BagIn(n, fanout)
      /\ \A n : Route(n)' = Route(n) /\ Audience(n)' = Audience(n) /\ Carries(n)' <=> Carries(n)
  BY DEF UnderWay, Has, BagIn, server, Route, Audience, Carries
<1>2. Fitting' /\ SeekAlone'
  <2>1. ASSUME NEW m \in Msgs, UnderWay(m)' PROVE Fits(m)'
    <3>1. Fits(m)
      BY <1>0, <1>1, <2>1 DEF Fitting
    <3> QED BY <3>1 DEF Fits, FitsPlay, FitsPause, FitsSeek
  <2> QED BY <1>0, <1>1, <2>1 DEF Fitting, SeekAlone
<1>3. Reaching'
  <2>1. ASSUME NEW f \in Clients, NEW r \in want.via, ByRoute(f, r)'
        PROVE  (Agrees(f) \/ Coming(f, r) \/ Syncing(f)) /\ me'[f] = me[f]
    BY <1>0, <2>1 DEF Reaching, ByRoute
  <2>2. ASSUME NEW f \in Clients, NEW r, Coming(f, r) PROVE Coming(f, r)'
    BY <1>1, <2>2 DEF Coming
  <2> QED BY <2>1, <2>2 DEF Reaching, Agrees, Syncing
<1>4. Kept'
  BY <1>0, <1>1 DEF server, Kept, KeptPlaylist, KeptPause, KeptPlayer
<1>5. Asking' /\ Started'
  BY <1>0, <1>1 DEF Asking, AskedRight, Started
<1> QED BY <1>2, <1>3, <1>4, <1>5 DEF Explained

LEMMA LocalExplains ==
  ASSUME SyncInv, NEW c \in Clients, want' # None,
         Toggle(c) \/ Stop(c) \/ (\E t \in Tracks : Play(c, t)), ~Announces(c)
  PROVE  Explained'
<1>0. AddrInv /\ TypeInv
  BY DEF SyncInv, AddrInv
<1>1. /\ ~Follows(c) /\ want' = want /\ Post({})
      /\ UNCHANGED <<cast, asked, inbox, server>>
      /\ \E s \in Slots : me' = [me EXCEPT ![c] = s]
  <2>1. CASE Toggle(c)
    <3> DEFINE p == ~me[c].playing
    <3>1. p \in BOOLEAN /\ me' = [me EXCEPT ![c] = Plays(c, p)] /\ State(c, p) = {}
      BY <1>0, <2>1 DEF Toggle, State, TypeInv, TypeOK
    <3>2. Plays(c, p) \in Slots
      <4> HIDE DEF p
      <4> QED BY <1>0, <3>1, MsgsPosted DEF TypeInv
    <3> QED BY <2>1, <3>1, <3>2 DEF Toggle, Local
  <2>2. CASE Stop(c)
    <3>1. [track |-> None, playing |-> FALSE] \in Slots
      BY DEF Slots, Opt
    <3>2. State(c, FALSE) \cup (IF Announces(c) THEN {Msg("playnow", c, None, FALSE)} ELSE {}) = {}
      BY DEF State
    <3> QED BY <2>2, <3>1, <3>2 DEF Stop, Local
  <2>3. ASSUME NEW t \in Tracks, Play(c, t)
        PROVE  /\ ~Follows(c) /\ want' = want /\ Post({})
               /\ UNCHANGED <<cast, asked, inbox, server>>
               /\ \E s \in Slots : me' = [me EXCEPT ![c] = s]
    <3>1. Shows(c, t) \in Slots
      BY <1>0, MsgsPosted DEF TypeInv, Opt
    <3> QED BY <2>3, <3>1 DEF Play, Local, Announcement
  <2> QED BY <2>1, <2>2, <2>3
<1>2. \A n : BagIn(n, net)' <=> BagIn(n, net)
  BY <1>0, <1>1, PostMoves DEF server
<1>3. \A f \in Clients : Follows(f)' => Follows(f) /\ me'[f] = me[f]
  BY <1>0, <1>1 DEF Follows, cast, TypeInv, TypeOK
<1> QED BY <1>1, <1>2, <1>3, AsideExplains DEF cast

LEMMA UnfollowExplains ==
  ASSUME SyncInv, NEW c \in Clients, Unfollow(c), want' # None
  PROVE  Explained'
<1>1. want' = want /\ UNCHANGED <<role, tuned, me, asked, inbox, server, net>> /\ follow' \subseteq follow
  BY DEF Unfollow
<1>2. \A f \in Clients : Follows(f)' => Follows(f) /\ me'[f] = me[f]
  BY <1>1 DEF Follows
<1>3. \A n : BagIn(n, net)' <=> BagIn(n, net)
  BY <1>1 DEF BagIn
<1> QED BY <1>1, <1>2, <1>3, AsideExplains

-----------------------------------------------------------------------------
(* A message that moves on, and is nowhere it was not.                         *)
LEMMA MoveExplains ==
  ASSUME SyncInv, want # None, want' = want, UNCHANGED <<cast, me, asked>>,
         \A n \in Msgs : UnderWay(n)' => UnderWay(n),
         \A f \in Clients : \A r : Coming(f, r) => Coming(f, r)', Kept'
  PROVE  Explained'
<1>0. Fitting /\ SeekAlone /\ Reaching /\ Asking /\ Started
  BY DEF SyncInv, Explained
<1>1. \A f : Follows(f)' = Follows(f)
  BY DEF Follows, cast
<1>2. Fitting' /\ SeekAlone'
  <2>1. ASSUME NEW m \in Msgs, Fits(m) PROVE Fits(m)'
    BY <1>1, <2>1 DEF Fits, FitsPlay, FitsPause, FitsSeek
  <2> QED BY <1>0, <2>1 DEF Fitting, SeekAlone
<1>3. Reaching'
  BY <1>0, <1>1 DEF Reaching, Agrees, Syncing, ByRoute, cast
<1>4. Asking' /\ Started'
  BY <1>0, <1>1 DEF Asking, AskedRight, Started, cast
<1> QED BY <1>2, <1>3, <1>4 DEF Explained

LEMMA ServePlayerExplains ==
  ASSUME SyncInv, NEW m \in BagToSet(net), ServePlayer(m), want' # None
  PROVE  Explained'
<1>0. AddrInv /\ TypeInv
  BY DEF SyncInv, AddrInv
<1>1. /\ want' = want /\ want # None /\ UNCHANGED <<cast, me, asked, playback>>
      /\ PlayTrack(m) \/ PauseTrack(m)
  BY DEF ServePlayer
<1>2. /\ m \in Msgs /\ m.kind \in {"play", "hold"}
      /\ \A n : BagIn(n, net) => BagIn(n, net)' \/ n = m
      /\ \A n : BagIn(n, fanout)' <=> BagIn(n, fanout)
      /\ \A c \in Clients, n \in Msgs : Has(c, n)' <=> Has(c, n) \/ (n = m /\ c \in Audience(m))
      /\ \A n \in Msgs : UnderWay(n)' => UnderWay(n)
  BY <1>0, ServePlayerMoves
<1>3. \A n : Route(n)' = Route(n) /\ Audience(n)' = Audience(n) /\ Carries(n)' <=> Carries(n)
  BY <1>1 DEF Route, Audience, Carries, cast
<1>4. ASSUME NEW f \in Clients, NEW r, Coming(f, r) PROVE Coming(f, r)'
  BY <1>2, <1>3, <1>4 DEF Coming
<1>5. Fits(m) /\ Kept /\ Started
  <2>1. UnderWay(m)
    BY DEF UnderWay, BagIn
  <2> QED BY <1>1, <1>2, <2>1 DEF SyncInv, Explained, Fitting
<1>6. Route(m) = "player"
  BY <1>2 DEF Route
<1>7. KeptPlaylist'
  BY <1>1, <1>2, <1>3, <1>5, <1>6 DEF Kept, KeptPlaylist
<1>8. KeptPause'
  <2>1. CASE PlayTrack(m)
    <3>1. m.kind = "play" /\ player'.paused = FALSE
      BY <2>1 DEF PlayTrack
    <3>2. m.track # None
      BY <1>0, <1>2, <3>1 DEF AddrInv, Addressed, Meant, UnderWay, BagIn
    <3>3. want.playing
      BY <1>5, <3>1, <3>2 DEF Fits, FitsPlay
    <3> QED BY <1>1, <3>1, <3>3 DEF KeptPause
  <2>2. CASE PauseTrack(m)
    <3>1. m.kind = "hold" /\ player'.paused = m.paused
      BY <1>0, <2>2 DEF PauseTrack, TypeInv, TypeOK, States
    <3>2. m.paused <=> ~want.playing
      BY <1>5, <3>1 DEF Fits, FitsPause
    <3> QED BY <1>1, <3>1, <3>2 DEF KeptPause
  <2> QED BY <1>1, <2>1, <2>2
<1>9. KeptPlayer'
  <2>1. CASE PlayTrack(m)
    <3>1. player'.track = m.track /\ m.track = want.track
      BY <1>5, <2>1 DEF PlayTrack, Fits, FitsPlay
    <3> QED BY <1>1, <3>1 DEF KeptPlayer
  <2>2. CASE PauseTrack(m)
    <3>1. m.kind = "hold" /\ player'.track = player.track
      BY <1>0, <2>2 DEF PauseTrack, TypeInv, TypeOK, States
    <3> QED BY <1>1, <1>2, <1>5, <3>1 DEF Kept, KeptPlayer
  <2> QED BY <1>1, <2>1, <2>2
<1> QED BY <1>1, <1>2, <1>4, <1>7, <1>8, <1>9, MoveExplains DEF Kept

LEMMA ServePlaylistExplains ==
  ASSUME SyncInv, NEW m \in BagToSet(net), ServePlaylist(m), want' # None
  PROVE  Explained'
<1>0. AddrInv /\ TypeInv
  BY DEF SyncInv, AddrInv
<1>1. /\ want' = want /\ want # None /\ UNCHANGED <<cast, me, asked, player>>
      /\ SetPlayNow(m) \/ PostPause(m) \/ PostSeek(m)
  BY DEF ServePlaylist
<1>2. /\ m \in Msgs /\ m.kind \in {"playnow", "pause", "seek"}
      /\ \A n : BagIn(n, net) => BagIn(n, net)' \/ n = m
      /\ \A n : BagIn(n, fanout)' <=> BagIn(n, fanout) \/ (n = m /\ m.track # None)
      /\ \A c \in Clients, n \in Msgs : Has(c, n)' <=> Has(c, n)
      /\ \A n \in Msgs : UnderWay(n)' => UnderWay(n)
  BY <1>0, ServePlaylistMoves
<1>3. \A n : Route(n)' = Route(n) /\ Audience(n)' = Audience(n) /\ Carries(n)' <=> Carries(n)
  BY <1>1 DEF Route, Audience, Carries, cast
<1>4. Fits(m) /\ Meant(m) /\ Kept /\ Started
  <2>1. UnderWay(m)
    BY DEF UnderWay, BagIn
  <2> QED BY <1>0, <1>1, <1>2, <2>1 DEF SyncInv, Explained, Fitting, AddrInv, Addressed
<1>5. ASSUME NEW f \in Clients, NEW r, Coming(f, r) PROVE Coming(f, r)'
  <2>1. Carries(m) => m.track # None
    BY <1>2, <1>4 DEF Carries, Meant
  <2> QED BY <1>2, <1>3, <1>5, <2>1 DEF Coming
<1>6. Route(m) = "playlist"
  BY <1>2 DEF Route
<1>7. KeptPause' /\ KeptPlayer'
  BY <1>1, <1>2, <1>3, <1>4, <1>6 DEF Kept, KeptPause, KeptPlayer
<1>8. KeptPlaylist'
  <2> SUFFICES ASSUME "playlist" \in want.via, want.track # None PROVE playback'.track = want.track
    BY <1>1 DEF KeptPlaylist
  <2>1. m.track = want.track
    BY <1>2, <1>4 DEF Fits, FitsPlay, FitsPause, FitsSeek
  <2>2. playback'.track = m.track
    BY <1>0, <1>1 DEF SetPlayNow, PostPause, PostSeek, TypeInv, TypeOK, States
  <2> QED BY <2>1, <2>2
<1> QED BY <1>1, <1>2, <1>5, <1>7, <1>8, MoveExplains DEF Kept

LEMMA EmitExplains ==
  ASSUME SyncInv, NEW m \in BagToSet(fanout), Emit(m), want' # None
  PROVE  Explained'
<1>0. AddrInv /\ TypeInv
  BY DEF SyncInv, AddrInv
<1>1. want' = want /\ want # None /\ UNCHANGED <<cast, me, asked, player, playback>>
  BY DEF Emit
<1>2. /\ m \in Msgs
      /\ \A n : BagIn(n, net)' <=> BagIn(n, net)
      /\ \A n : BagIn(n, fanout) => BagIn(n, fanout)' \/ n = m
      /\ \A c \in Clients, n \in Msgs : Has(c, n)' <=> Has(c, n) \/ (n = m /\ c \in Audience(m))
      /\ \A n \in Msgs : UnderWay(n)' => UnderWay(n)
  BY <1>0, EmitMoves
<1>3. \A n : Route(n)' = Route(n) /\ Audience(n)' = Audience(n) /\ Carries(n)' <=> Carries(n)
  BY <1>1 DEF Route, Audience, Carries, cast
<1>4. ASSUME NEW f \in Clients, NEW r, Coming(f, r) PROVE Coming(f, r)'
  BY <1>2, <1>3, <1>4 DEF Coming
<1>5. Kept'
  BY <1>1, <1>2, <1>3 DEF SyncInv, Explained, Kept, KeptPlaylist, KeptPause, KeptPlayer
<1> QED BY <1>1, <1>2, <1>4, <1>5, MoveExplains

(* The route that lost it carries the command no more.                         *)
LEMMA FailExplains ==
  ASSUME SyncInv, NEW m \in BagToSet(net), RequestFails(m), want' # None
  PROVE  Explained'
<1>0. AddrInv /\ TypeInv
  BY DEF SyncInv, AddrInv
<1>1. /\ want # None /\ UNCHANGED <<cast, me, asked, player, playback>>
      /\ want'.track = want.track /\ want'.playing = want.playing /\ want'.started = want.started
      /\ want'.via = want.via \ {Route(m)}
  BY <1>0 DEF RequestFails, server, TypeInv, TypeOK
<1>2. /\ m \in Msgs
      /\ \A n : BagIn(n, net) => BagIn(n, net)' \/ n = m
      /\ \A n : BagIn(n, fanout)' <=> BagIn(n, fanout)
      /\ \A c \in Clients, n \in Msgs : Has(c, n)' <=> Has(c, n)
      /\ \A n \in Msgs : UnderWay(n)' => UnderWay(n)
  BY <1>0, FailMoves
<1>3. \A n : Route(n)' = Route(n) /\ Audience(n)' = Audience(n) /\ Carries(n)' <=> Carries(n)
  BY <1>1 DEF Route, Audience, Carries, cast
<1>4. Fitting /\ SeekAlone /\ Reaching /\ Kept /\ Asking /\ Started
  BY <1>1 DEF SyncInv, Explained
<1>5. \A f : Follows(f)' = Follows(f)
  BY <1>1 DEF Follows, cast
<1>6. Fitting' /\ SeekAlone'
  <2>1. ASSUME NEW n \in Msgs, Fits(n) PROVE Fits(n)'
    BY <1>1, <1>5, <2>1 DEF Fits, FitsPlay, FitsPause, FitsSeek
  <2> QED BY <1>2, <1>4, <2>1 DEF Fitting, SeekAlone
<1>7. Reaching'
  <2>1. ASSUME NEW f \in Clients, NEW r \in want.via \ {Route(m)}, Coming(f, r) PROVE Coming(f, r)'
    BY <1>2, <1>3, <2>1 DEF Coming
  <2> QED BY <1>1, <1>4, <1>5, <2>1 DEF Reaching, Agrees, Syncing, ByRoute, cast
<1>8. Kept'
  <2>1. KeptPlaylist'
    BY <1>1, <1>2, <1>3, <1>4 DEF Kept, KeptPlaylist
  <2>2. KeptPause'
    BY <1>1, <1>2, <1>3, <1>4 DEF Kept, KeptPause
  <2>3. KeptPlayer'
    <3>1. \A n : n.kind = "play" => Route(n) = "player"
      BY DEF Route
    <3> QED BY <1>1, <1>2, <1>3, <1>4, <3>1 DEF Kept, KeptPlayer
  <2> QED BY <2>1, <2>2, <2>3 DEF Kept
<1>9. UnderWay(m)
  BY DEF UnderWay, BagIn
<1>10. Asking' /\ Started'
  BY <1>1, <1>2, <1>4, <1>9 DEF Asking, Started
<1> QED BY <1>6, <1>7, <1>8, <1>10 DEF Explained

(* What a player makes of a message that fits: it comes to agree, or stays as  *)
(* it is, and it says nothing.                                                 *)
LEMMA HandleFits ==
  ASSUME SyncInv, want # None, NEW c \in Clients, Follows(c), NEW m \in Msgs, Has(c, m),
         NEW s, s = Handle(c, m).s
  PROVE  /\ Handle(c, m).send = {} /\ s \in Slots
         /\ s.track = me[c].track \/ (m.kind \in {"playnow", "play"} /\ s.track = m.track /\ s.playing = TRUE)
         /\ s.playing = me[c].playing \/ s.playing = want.playing
         /\ Agrees(c) \/ Carries(m) =>
              /\ want.track # None => s.track = want.track
              /\ want.playing <=> (s.playing /\ s.track # None)
<1>0. /\ TypeInv /\ me[c] \in Slots /\ want \in Wants
      /\ Addressed /\ Fitting /\ Started
  BY DEF SyncInv, AddrInv, TypeInv, TypeOK, Slots, Wants, Explained
<1>1. Fits(m) /\ Meant(m) /\ c \in Audience(m) /\ (m.kind = "playnow" => m.track # None)
  BY <1>0 DEF UnderWay, Fitting, Addressed
<1>2. m.kind \in {"playnow", "play", "pause", "hold", "seek"} /\ m.paused \in BOOLEAN
  BY DEF Msgs
<1>3. s \in Slots
  BY <1>0, MsgsPosted DEF TypeInv
<1>4. CASE m.kind \in {"playnow", "play"}
  <2>1. m.track = want.track /\ m.track # None /\ want.playing
    BY <1>1, <1>4 DEF Meant, Fits, FitsPlay
  <2>2. me[c].track = m.track => me[c].playing
    BY <1>1, <1>4, <2>1 DEF Fits, FitsPlay
  <2>3. s = Shows(c, m.track) /\ Handle(c, m).send = {}
    BY <1>4 DEF Handle, Reaction
  <2>4. CASE me[c].track = m.track
    BY <1>3, <2>1, <2>2, <2>3, <2>4 DEF Shows
  <2>5. CASE me[c].track # m.track
    <3>1. s.track = m.track /\ s.playing = TRUE
      BY <2>3, <2>5 DEF Shows
    <3>2. want.playing = TRUE
      BY <1>0, <2>1 DEF Wants
    <3> QED BY <1>3, <1>4, <2>1, <2>3, <3>1, <3>2
  <2> QED BY <2>4, <2>5
<1>5. CASE m.kind \in {"pause", "hold"}
  <2>1. c # m.from
    BY <1>1, <1>5 DEF Audience
  <2>2. /\ m.paused <=> ~want.playing
        /\ m.kind = "pause" => me[c].track = m.track
        /\ want.track # None => me[c].track = want.track
    BY <1>1, <1>5, <2>1 DEF Fits, FitsPause
  <2> DEFINE p == ~m.paused
  <2>3. p = want.playing /\ p \in BOOLEAN
    BY <1>0, <1>2, <2>2 DEF Wants
  <2>4. s = Plays(c, p) /\ Handle(c, m).send = {}
    BY <1>5, <2>2 DEF Handle, Reaction
  <2> HIDE DEF p
  <2>5. s.track = me[c].track /\ s.playing = p
    BY <1>0, <2>4 DEF Plays, Slots
  <2>6. want.playing => want.track # None
    BY <1>0 DEF Started
  <2>7. want.playing <=> (s.playing /\ s.track # None)
    BY <2>2, <2>3, <2>5, <2>6
  <2> QED BY <1>3, <2>2, <2>3, <2>4, <2>5, <2>7
<1>6. CASE m.kind = "seek"
  <2>1. me[c].track = m.track
    BY <1>1, <1>6 DEF Fits, FitsSeek
  <2>2. s = me[c] /\ Handle(c, m).send = {}
    BY <1>6, <2>1 DEF Handle, Reaction
  <2>3. ~Carries(m)
    BY <1>6 DEF Carries
  <2> QED BY <1>3, <2>2, <2>3 DEF Agrees
<1> QED BY <1>2, <1>4, <1>5, <1>6

LEMMA ReceiveExplains ==
  ASSUME SyncInv, NEW c \in Clients, Receive(c), want' # None
  PROVE  Explained'
<1> DEFINE m == Head(inbox[c])
           S == Handle(c, m).send
           s == Handle(c, m).s
<1>0. AddrInv /\ TypeInv
  BY DEF SyncInv, AddrInv
<1>1. want' = want /\ want # None /\ UNCHANGED <<cast, asked, server>> /\ me' = [me EXCEPT ![c] = s]
  BY DEF Receive
<1>2. /\ m \in Msgs /\ Has(c, m)
      /\ \A n : BagIn(n, net)' <=> BagIn(n, net) \/ n \in S
      /\ \A n : BagIn(n, fanout)' <=> BagIn(n, fanout)
      /\ \A d \in Clients, n \in Msgs : Has(d, n)' => Has(d, n)
      /\ \A d \in Clients, n \in Msgs : Has(d, n) => Has(d, n)' \/ (d = c /\ n = m)
      /\ \A n \in Msgs : UnderWay(n)' => UnderWay(n) \/ n \in S
  BY <1>0, ReceiveMoves
<1>3. \A n : Route(n)' = Route(n) /\ Audience(n)' = Audience(n) /\ Carries(n)' <=> Carries(n)
  BY <1>1 DEF Route, Audience, Carries, cast
<1>4. Fitting /\ SeekAlone /\ Reaching /\ Kept /\ Asking /\ Started
  BY <1>1 DEF SyncInv, Explained
<1>5. \A f : Follows(f)' = Follows(f)
  BY <1>1 DEF Follows, cast
<1>6. me'[c] = s /\ \A f \in Clients \ {c} : me'[f] = me[f]
  BY <1>0, <1>1 DEF TypeInv, TypeOK
<1>7. S = {} /\ (~Follows(c) => s = me[c])
  <2>1. CASE Follows(c)
    BY <1>1, <1>2, <2>1, HandleFits
  <2>2. CASE ~Follows(c)
    BY <2>2 DEF Handle, Reaction
  <2> QED BY <2>1, <2>2
<1>8. Follows(c) =>
        /\ s \in Slots
        /\ s.track = me[c].track \/ (m.kind \in {"playnow", "play"} /\ s.track = m.track /\ s.playing = TRUE)
        /\ s.playing = me[c].playing \/ s.playing = want.playing
        /\ Agrees(c) \/ Carries(m) =>
             /\ want.track # None => s.track = want.track
             /\ want.playing <=> (s.playing /\ s.track # None)
  BY <1>1, <1>2, HandleFits
<1>9. UnderWay(m) /\ Fits(m)
  BY <1>2, <1>4 DEF UnderWay, Fitting
<1> HIDE DEF m, S, s
<1>10. \A n \in Msgs : UnderWay(n)' => UnderWay(n)
  BY <1>2, <1>7
<1>11. ASSUME NEW n \in Msgs, UnderWay(n), NEW f \in Clients, Follows(f), me'[f].track # me[f].track
       PROVE  /\ f = c /\ s.track = m.track /\ s.playing = TRUE /\ m.track = want.track
              /\ me[c].track # m.track /\ n.kind # "seek"
  <2>1. f = c /\ s.track = m.track /\ s.playing = TRUE /\ m.kind \in {"playnow", "play"}
    BY <1>6, <1>8, <1>11
  <2>2. m.track = want.track /\ me[c].track # m.track
    BY <1>6, <1>9, <1>11, <2>1 DEF Fits, FitsPlay
  <2>3. n.kind # "seek"
    BY <1>2, <1>4, <1>9, <1>11, <2>1 DEF SeekAlone
  <2> QED BY <2>1, <2>2, <2>3
<1>12. ASSUME NEW n \in Msgs, UnderWay(n)' PROVE Fits(n)'
  <2>1. UnderWay(n) /\ Fits(n)
    BY <1>4, <1>10, <1>12 DEF Fitting
  <2>2. ASSUME n.kind \in {"playnow", "play"} PROVE FitsPlay(n)'
    <3>1. n.track = want.track /\ (n.track # None => want.playing)
      BY <2>1, <2>2 DEF Fits, FitsPlay
    <3>2. ASSUME n.track # None, NEW f \in Clients, Follows(f), me'[f].track = n.track
          PROVE  me'[f].playing
      <4>1. CASE me'[f].track = me[f].track
        <5>1. me[f].playing
          BY <2>1, <2>2, <3>2, <4>1 DEF Fits, FitsPlay
        <5> QED BY <1>6, <1>8, <3>1, <3>2, <5>1
      <4>2. CASE me'[f].track # me[f].track
        BY <1>6, <1>11, <2>1, <3>2, <4>2
      <4> QED BY <4>1, <4>2
    <3> QED BY <1>1, <1>5, <3>1, <3>2 DEF FitsPlay
  <2>3. ASSUME n.kind \in {"pause", "hold"} PROVE FitsPause(n)'
    <3>1. /\ n.paused <=> ~want.playing
          /\ n.kind = "pause" /\ want.track # None => n.track = want.track
      BY <2>1, <2>3 DEF Fits, FitsPause
    <3>2. ASSUME NEW f \in Clients \ {n.from}, Follows(f)
          PROVE  /\ n.kind = "pause" => me'[f].track = n.track
                 /\ want.track # None => me'[f].track = want.track
      <4>1. /\ n.kind = "pause" => me[f].track = n.track
            /\ want.track # None => me[f].track = want.track
        BY <2>1, <2>3, <3>2 DEF Fits, FitsPause
      <4>2. CASE me'[f].track = me[f].track
        BY <4>1, <4>2
      <4>3. CASE me'[f].track # me[f].track
        <5>1. f = c /\ m.track = want.track /\ me[c].track # m.track /\ m.kind \in {"playnow", "play"}
          BY <1>6, <1>8, <1>11, <2>1, <3>2, <4>3
        <5>2. want.track = None
          BY <4>1, <5>1
        <5>3. m.track # None
          BY <1>0, <1>2, <5>1 DEF AddrInv, Addressed, UnderWay, Meant
        <5> QED BY <5>1, <5>2, <5>3
      <4> QED BY <4>2, <4>3
    <3> QED BY <1>1, <1>5, <3>1, <3>2 DEF FitsPause
  <2>4. ASSUME n.kind = "seek" PROVE FitsSeek(n)'
    <3>1. \A f \in Clients : Follows(f) => me'[f].track = me[f].track
      BY <1>11, <2>1, <2>4
    <3> QED BY <1>1, <1>5, <2>1, <2>4, <3>1 DEF Fits, FitsSeek
  <2> QED BY <2>2, <2>3, <2>4 DEF Fits
<1>13. Fitting' /\ SeekAlone'
  BY <1>4, <1>10, <1>12 DEF Fitting, SeekAlone
<1>14. Reaching'
  <2> SUFFICES ASSUME NEW f \in Clients, NEW r \in want.via, ByRoute(f, r)
               PROVE  Agrees(f)' \/ Coming(f, r)' \/ Syncing(f)'
    BY <1>1, <1>5 DEF Reaching, ByRoute, cast
  <2>1. Agrees(f) \/ Coming(f, r) \/ Syncing(f)
    BY <1>4 DEF Reaching
  <2>2. CASE Agrees(f)
    <3>1. Agrees(f)'
      BY <1>1, <1>6, <1>8, <2>2 DEF Agrees, ByRoute
    <3> QED BY <3>1
  <2>3. ASSUME NEW n \in Msgs, BagIn(n, net) \/ BagIn(n, fanout) \/ Has(f, n),
               Route(n) = r, f \in Audience(n), Carries(n)
        PROVE  Agrees(f)' \/ Coming(f, r)'
    <3>1. CASE f = c /\ n = m
      <4>1. Agrees(f)'
        BY <1>1, <1>6, <1>8, <2>3, <3>1 DEF Agrees, ByRoute
      <4> QED BY <4>1
    <3>2. CASE ~(f = c /\ n = m)
      <4>1. BagIn(n, net)' \/ BagIn(n, fanout)' \/ Has(f, n)'
        BY <1>2, <2>3, <3>2
      <4> QED BY <1>3, <2>3, <4>1 DEF Coming
    <3> QED BY <3>1, <3>2
  <2>4. CASE Syncing(f)
    BY <1>1, <2>4 DEF Syncing, cast
  <2> QED BY <2>1, <2>2, <2>3, <2>4 DEF Coming
<1>15. Kept'
  BY <1>1, <1>2, <1>3, <1>4 DEF server, Kept, KeptPlaylist, KeptPause, KeptPlayer
<1>16. Asking' /\ Started'
  BY <1>1, <1>2, <1>4, <1>9 DEF Asking, Started
<1> QED BY <1>13, <1>14, <1>15, <1>16 DEF Explained

-----------------------------------------------------------------------------
(* An answer tells what is so already.                                         *)
LEMMA AnswerExplains ==
  ASSUME SyncInv, NEW c \in Clients, Answer(c), want' # None
  PROVE  Explained'
<1>0. AddrInv /\ TypeInv
  BY DEF SyncInv, AddrInv
<1>1. /\ want' = want /\ want # None /\ UNCHANGED <<cast, me, inbox, server, net>>
      /\ asked[c] # None /\ asked[c] \in Answers
  BY <1>0 DEF Answer, TypeInv, TypeOK, Answers
<1>2. /\ asked'[c] # None /\ asked'[c].had = asked[c].had
      /\ asked'[c].track = IF role[c] = "operator" THEN player.track ELSE playback.track
      /\ \A f \in Clients \ {c} : asked'[f] = asked[f]
  <2>1. asked'[c] = [asked[c] EXCEPT !.step = "answered",
                       !.track = IF role[c] = "operator" THEN player.track ELSE playback.track]
    BY <1>0 DEF Answer, TypeInv, TypeOK
  <2>2. \A f \in Clients \ {c} : asked'[f] = asked[f]
    BY <1>0 DEF Answer, TypeInv, TypeOK
  <2>3. player.track \in Opt /\ playback.track \in Opt
    BY <1>0 DEF TypeInv, TypeOK, States
  <2>4. asked'[c] \in Answers
    BY <1>1, <2>1, <2>3 DEF Answers
  <2>5. asked'[c] # None
    BY <2>4, SyncAssumption DEF Answers, Opt
  <2> QED BY <1>1, <2>1, <2>2, <2>5 DEF Answers
<1>3. Fitting /\ SeekAlone /\ Reaching /\ Kept /\ Asking /\ Started
  BY <1>1 DEF SyncInv, Explained
<1>4. \A f : Follows(f)' = Follows(f)
  BY <1>1 DEF Follows, cast
<1>5. /\ \A n \in Msgs : ~UnderWay(n) /\ ~UnderWay(n)'
      /\ \A n \in Msgs : ~BagIn(n, net)
      /\ \A f \in Clients : \A r : ~Coming(f, r)
  <2>1. \A n \in Msgs : ~UnderWay(n)
    BY <1>1, <1>3 DEF Asking
  <2>2. \A n \in Msgs : ~UnderWay(n)'
    BY <1>1, <2>1, StillMoves DEF server
  <2> QED BY <2>1, <2>2 DEF UnderWay, Coming
<1>6. Reaching'
  <2>1. \A f \in Clients : Syncing(f) => Syncing(f)'
    BY <1>1, <1>2 DEF Syncing, cast
  <2> QED BY <1>1, <1>3, <1>4, <1>5, <2>1 DEF Reaching, Agrees, ByRoute, cast
<1>7. Kept'
  BY <1>1, <1>3, <1>5 DEF server, Kept, KeptPlaylist, KeptPause, KeptPlayer
<1>8. Asking'
  <2>1. ASSUME NEW f \in Clients \ {c}, asked'[f] # None, Follows(f)', role[f] \in {"viewer", "operator"}
        PROVE  AskedRight(f)'
    <3>1. AskedRight(f)
      BY <1>2, <1>3, <1>4, <2>1 DEF Asking
    <3> QED BY <1>1, <1>2, <3>1 DEF AskedRight, cast
  <2>2. ASSUME Follows(c)', role[c] \in {"viewer", "operator"} PROVE AskedRight(c)'
    <3>1. AskedRight(c)
      BY <1>1, <1>3, <1>4, <2>2 DEF Asking
    <3>2. want.track # None /\ playback.track = want.track
      BY <1>3, <1>5, <3>1 DEF AskedRight, Started, Kept, KeptPlaylist
    <3>3. role[c] = "operator" => player.track = want.track
      BY <1>3, <1>5, <3>1 DEF AskedRight, Kept, KeptPlayer
    <3> QED BY <1>1, <1>2, <3>1, <3>2, <3>3 DEF AskedRight, cast
  <2> QED BY <1>1, <1>5, <2>1, <2>2 DEF Asking, cast
<1>9. Started'
  BY <1>1, <1>3 DEF Started
<1> QED BY <1>3, <1>5, <1>6, <1>7, <1>8, <1>9 DEF Explained, Fitting, SeekAlone

LEMMA AnsweredExplains ==
  ASSUME SyncInv, NEW c \in Clients, Joined(c) \/ Synced(c), want' # None
  PROVE  Explained'
<1>0. AddrInv /\ TypeInv
  BY DEF SyncInv, AddrInv
<1>1. /\ want' = want /\ want # None /\ UNCHANGED <<cast, inbox, server, net>>
      /\ asked[c] # None /\ asked[c].step = "answered" /\ asked' = [asked EXCEPT ![c] = None]
      /\ role[c] \in {"viewer", "operator"}
  BY DEF Joined, Synced, Answered
<1>2. /\ asked'[c] = None /\ \A f \in Clients \ {c} : asked'[f] = asked[f]
  BY <1>0, <1>1 DEF TypeInv, TypeOK
<1>3. Fitting /\ SeekAlone /\ Reaching /\ Kept /\ Asking /\ Started
  BY <1>1 DEF SyncInv, Explained
<1>4. \A f : Follows(f)' = Follows(f)
  BY <1>1 DEF Follows, cast
<1>5. /\ \A n \in Msgs : ~UnderWay(n)'
      /\ \A n \in Msgs : ~BagIn(n, net)
      /\ \A f \in Clients : \A r : ~Coming(f, r)
  <2>1. \A n \in Msgs : ~UnderWay(n)
    BY <1>1, <1>3 DEF Asking
  <2>2. \A n \in Msgs : ~UnderWay(n)'
    BY <1>1, <2>1, StillMoves DEF server
  <2> QED BY <2>1, <2>2 DEF UnderWay, Coming
<1>6. \A f \in Clients \ {c} : me'[f] = me[f]
  BY <1>0 DEF Joined, Synced, TypeInv, TypeOK
<1>7. Follows(c) => Agrees(c)'
  <2> SUFFICES ASSUME Follows(c) PROVE Agrees(c)'
    OBVIOUS
  <2>1. AskedRight(c)
    BY <1>1, <1>3 DEF Asking
  <2>2. want.playing /\ want.track # None /\ asked[c].track = want.track
    BY <1>1, <1>3, <2>1 DEF AskedRight, Started
  <2>3. CASE Synced(c)
    <3>1. role[c] = "viewer" /\ me[c].track = asked[c].had
      BY <2>1, <2>3 DEF Synced, AskedRight
    <3>2. me'[c].track = want.track /\ me'[c].playing = TRUE
      BY <1>0, <2>2, <2>3, <3>1 DEF Synced, TypeInv, TypeOK
    <3> QED BY <1>1, <2>2, <3>2 DEF Agrees
  <2>4. CASE Joined(c)
    <3>1. role[c] = "operator" /\ ByRoute(c, "playlist") /\ ~Syncing(c)
      BY <2>4 DEF Joined, ByRoute, Syncing
    <3>2. Agrees(c)
      BY <1>3, <1>5, <2>1, <3>1 DEF Reaching, AskedRight
    <3>3. me'[c] = Shows(c, asked[c].track)
      BY <1>0, <2>2, <2>4 DEF Joined, TypeInv, TypeOK
    <3>4. me'[c] = me[c]
      BY <2>2, <3>2, <3>3 DEF Agrees, Shows
    <3> QED BY <1>1, <3>2, <3>4 DEF Agrees
  <2> QED BY <1>1, <2>3, <2>4
<1>8. Reaching'
  <2>1. ASSUME NEW f \in Clients \ {c}, NEW r \in want.via, ByRoute(f, r)' PROVE Agrees(f)' \/ Syncing(f)'
    <3>1. Agrees(f) \/ Syncing(f)
      BY <1>1, <1>3, <1>4, <1>5, <2>1 DEF Reaching, ByRoute, cast
    <3> QED BY <1>1, <1>2, <1>6, <3>1 DEF Agrees, Syncing, cast
  <2> QED BY <1>1, <1>4, <1>7, <2>1 DEF Reaching, ByRoute
<1>9. Kept'
  BY <1>1, <1>3, <1>5 DEF server, Kept, KeptPlaylist, KeptPause, KeptPlayer
<1>10. Asking'
  <2>1. ASSUME NEW f \in Clients \ {c}, asked'[f] # None, Follows(f)', role[f] \in {"viewer", "operator"}
        PROVE  AskedRight(f)'
    <3>1. AskedRight(f)
      BY <1>2, <1>3, <1>4, <2>1 DEF Asking
    <3> QED BY <1>1, <1>2, <1>6, <3>1 DEF AskedRight, cast
  <2> QED BY <1>1, <1>2, <1>5, <2>1 DEF Asking, cast
<1>11. Started'
  BY <1>1, <1>3 DEF Started
<1> QED BY <1>5, <1>8, <1>9, <1>10, <1>11 DEF Explained, Fitting, SeekAlone

LEMMA ExplainedStep == SyncInv /\ [Next]_vars => Explained'
<1> SUFFICES ASSUME SyncInv, [Next]_vars, want' # None PROVE Explained'
  BY DEF Explained
<1>1. CASE System
  BY <1>1, ServePlayerExplains, ServePlaylistExplains, EmitExplains,
     AnswerExplains, ReceiveExplains, AnsweredExplains DEF System
<1>2. ASSUME NEW c \in Clients, Toggle(c) \/ Stop(c) \/ \E t \in Tracks : Play(c, t) PROVE Explained'
  <2>1. CASE Announces(c)
    BY <1>2, <2>1, ToggleExplains, StopExplains, PlayExplains
  <2>2. CASE ~Announces(c)
    BY <1>2, <2>2, LocalExplains
  <2> QED BY <2>1, <2>2
<1>3. ASSUME NEW c \in Clients, Seek(c) \/ Unfollow(c) \/ RequestSync(c) \/ Tune(c) PROVE Explained'
  BY <1>3, SeekExplains, UnfollowExplains, AskExplains
<1>4. ASSUME NEW c \in Clients, LatePlay(c) \/ Follow(c) PROVE Explained'
  BY <1>4 DEF LatePlay, Follow
<1>5. ASSUME NEW m \in BagToSet(net), RequestFails(m) PROVE Explained'
  BY <1>5, FailExplains
<1>6. CASE UNCHANGED vars
  <2>1. want' = want /\ UNCHANGED <<role, tuned, follow, me, asked, inbox, server, net>>
    BY <1>6 DEF vars, cast
  <2>2. \A n : BagIn(n, net)' <=> BagIn(n, net)
    BY <2>1 DEF BagIn
  <2>3. \A f \in Clients : Follows(f)' => Follows(f) /\ me'[f] = me[f]
    BY <2>1 DEF Follows
  <2> QED BY <2>1, <2>2, <2>3, AsideExplains
<1> QED BY <1>1, <1>2, <1>3, <1>4, <1>5, <1>6 DEF Next

LEMMA Explains == Spec => []SyncInv
<1>1. SyncInv /\ [Next]_vars => SyncInv'
  BY TypeStep, AddressedStep, ExplainedStep DEF SyncInv, AddrInv
<1> QED BY <1>1, SyncInit, PTL DEF Spec

(* However many browsers there are and however their commands overlapped: once *)
(* one is given in quiet and everything has been told, whoever follows shows   *)
(* what it asked for, over one route if the other one lost it.                 *)
THEOREM SettledPlayersAgree == Spec => []SettledAgree
BY Explains, SyncSettled, PTL

(* What the server keeps of the player and of the playlist is the same then,   *)
(* for either is written by its own request, and no reaction writes it again.  *)
THEOREM SettledServerMatches == Spec => []ServerMatches
BY Explains, SyncMatches, PTL
=============================================================================
