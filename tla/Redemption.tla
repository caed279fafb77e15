----------------------------- MODULE Redemption -----------------------------
(***************************************************************************)
(* Orders paid with Twitch channel points: the way from the redemption     *)
(* through bot_ttv into the order pipeline, and of the pipeline's answers  *)
(* back to the points of the viewer (bot_ttv/src/components and            *)
(* bot_ttv/src/adapters/_rabbit/handlers.py).                              *)
(*                                                                         *)
(* Here every order is a redemption: it names no playlist, and its link is *)
(* rewritten to that of one video before it is published.                  *)
(***************************************************************************)
EXTENDS OrderPipeline

ASSUME RedemptionAssumption ==
    /\ Collections = {}
    /\ \A o \in Orders : WebTarget[o] = NoPlaylist

VARIABLES
    points,    \* Twitch: the status of each redemption
    notified,  \* redemptions on their way to event_custom_redemption_add
    heard,     \* status updates that the bot has acknowledged
    busy       \* those of them whose handler has yet to call Twitch

bot == <<points, notified, heard, busy>>
pipeline == <<broker, tables, sent, locals>>
allVars == <<vars, bot>>

(* The worker's answers on bot.order.completed and bot.order.cancelled:    *)
(* two durable queues, so they are heard in any order.                     *)
Updates == {m \in sent : m.type \in {"completed", "cancelled"}}
OrderOf(m) == IF m.type = "completed" THEN m.entry[1][1][1] ELSE m.delivery[1]

(* Faulty variant of Outcome: the two statuses are mixed up.               *)
OutcomeSwapped(m) == IF m.type = "completed" THEN "refunded" ELSE "fulfilled"

Outcome(m) == IF m.type = "completed" THEN "fulfilled" ELSE "refunded"

PointsInit ==
    /\ Init
    /\ points = [o \in Orders |-> "none"]
    /\ notified = {}
    /\ heard = {}
    /\ busy = {}

-----------------------------------------------------------------------------
(* A viewer redeems the reward and Twitch notifies the bot.                *)
Redeem(o) ==
    /\ points[o] = "none"
    /\ points' = [points EXCEPT ![o] = "held"]
    /\ notified' = notified \cup {o}
    /\ UNCHANGED <<pipeline, heard, busy>>

(* Orders for points are switched off, or the text is not a link: the bot  *)
(* refunds at once.                                                        *)
RefundAtOnce(o) ==
    /\ o \in notified
    /\ points' = [points EXCEPT ![o] = "refunded"]
    /\ notified' = notified \ {o}
    /\ UNCHANGED <<pipeline, heard, busy>>

(* The reward is not the linked one, or the refund fails and is only       *)
(* logged: the points stay held.                                           *)
LeaveHeld(o) ==
    /\ o \in notified
    /\ notified' = notified \ {o}
    /\ UNCHANGED <<pipeline, points, heard, busy>>

(* event_safe_new_order does not find the broadcaster among the bot's      *)
(* users: the order is dropped.                                            *)
DropOrder(o) ==
    /\ o \in notified
    /\ notified' = notified \ {o}
    /\ UNCHANGED <<pipeline, points, heard, busy>>

(* The order is published and relayed to order.proccess.                   *)
Dispatch(o) ==
    /\ o \in notified
    /\ Submit(o)
    /\ notified' = notified \ {o}
    /\ UNCHANGED <<points, heard, busy>>

(* Faulty variant of Hear: the update is handled but not acknowledged.     *)
HearOnly(m) ==
    /\ m \in Updates \ heard
    /\ busy' = busy \cup {m}
    /\ UNCHANGED <<pipeline, points, notified, heard>>

(* order_status takes an update; its first statement acknowledges it.      *)
Hear(m) ==
    /\ m \in Updates \ heard
    /\ heard' = heard \cup {m}
    /\ busy' = busy \cup {m}
    /\ UNCHANGED <<pipeline, points, notified>>

(* The PATCH: Twitch changes the status of an unfulfilled redemption only. *)
Patch(m) ==
    /\ m \in busy
    /\ points' = [points EXCEPT ![OrderOf(m)] = IF @ = "held" THEN Outcome(m) ELSE @]
    /\ busy' = busy \ {m}
    /\ UNCHANGED <<pipeline, notified, heard>>

(* The PATCH fails and is only logged, or there is no bot object yet.      *)
PatchFails(m) ==
    /\ m \in busy
    /\ busy' = busy \ {m}
    /\ UNCHANGED <<pipeline, points, notified, heard>>

(* The bot's process dies with everything it had acknowledged.             *)
BotCrash ==
    /\ notified \cup busy # {}
    /\ notified' = {}
    /\ busy' = {}
    /\ UNCHANGED <<pipeline, points, heard>>

(* What goes on in the worker and on the owner's pages.                    *)
PipelineStep ==
    /\ \/ \E w \in Workers, o \in Orders : Take(w, o)
       \/ \E w \in Workers : Handle(w) \/ Crash(w) \/ LoseConnection(w)
       \/ Owner
    /\ UNCHANGED bot

PointsNext ==
    \/ \E o \in Orders : Redeem(o) \/ RefundAtOnce(o) \/ LeaveHeld(o) \/ DropOrder(o) \/ Dispatch(o)
    \/ \E m \in Updates : Hear(m)
    \/ \E m \in busy : Patch(m) \/ PatchFails(m)
    \/ BotCrash
    \/ PipelineStep

PointsSpec == PointsInit /\ [][PointsNext]_allVars

-----------------------------------------------------------------------------
(* Type invariant of the bot's part.                                       *)
BotTypeOK ==
    /\ points \in [Orders -> {"none", "held", "fulfilled", "refunded"}]
    /\ notified \in SUBSET Orders
    /\ heard \in SUBSET Updates
    /\ busy \in SUBSET heard

(* The viewer pays only for music: the points of a fulfilled redemption    *)
(* bought a row that was committed to a playlist, and that only the        *)
(* removal of the track or of the playlist takes out of sight.             *)
FulfilledWasStored ==
    \A o \in Orders :
        points[o] = "fulfilled" => \E e \in Entries : e[1][1][1] = o /\ StoredEntry(e)

(* A refund has a reason: either the order was never published, or the     *)
(* worker told the bot of a delivery that could not be resolved, or of a   *)
(* playlist that refused that delivery and holds no row of it.             *)
Refused(m) ==
    /\ m.type = "cancelled"
    /\ \/ m.playlist = NoPlaylist
       \/ \A v \in Videos :
            <<m.delivery, v>> \notin active[m.playlist] \cup removed[m.playlist]

RefundWasRefused ==
    \A o \in Orders :
        points[o] = "refunded" =>
            queue[o] = "unsent" \/ \E m \in heard : OrderOf(m) = o /\ Refused(m)

(* docs/architecture/system_audit.md on bot.order.cancelled: the order was *)
(* rejected and the points are refunded, so nobody gets the music for      *)
(* nothing.                                                                *)
RefundMeansRejected ==
    \A o \in Orders :
        points[o] = "refunded" =>
            \A p \in Playlists : \A row \in active[p] : row[1][1] # o
=============================================================================
