-------------------------- MODULE RedemptionProofs --------------------------
(***************************************************************************)
(* Proofs about Redemption.  The bot only adds to the pipeline: whatever   *)
(* is true of every behaviour of OrderPipeline is true here, and the       *)
(* points follow from what the pipeline tells the bot.                     *)
(***************************************************************************)
EXTENDS Redemption, OrderPipelineProofs

LEMMA StepRefines == [PointsNext]_allVars => [Next]_vars
<1> SUFFICES ASSUME [PointsNext]_allVars PROVE [Next]_vars
  OBVIOUS
<1>1. CASE UNCHANGED pipeline
  BY <1>1 DEF pipeline, vars
<1>2. ASSUME NEW o \in Orders, Dispatch(o) PROVE Next
  BY <1>2 DEF Dispatch, Next
<1>3. CASE PipelineStep
  BY <1>3 DEF PipelineStep, Next
<1> QED
  BY <1>1, <1>2, <1>3
  DEF PointsNext, Redeem, RefundAtOnce, LeaveHeld, DropOrder, Hear, Patch, PatchFails, BotCrash,
      allVars, vars, pipeline

(* With the bot around it the worker still behaves as OrderPipeline says.  *)
THEOREM BotRefinesPipeline == PointsSpec => Spec
BY StepRefines, PTL DEF PointsSpec, Spec, PointsInit

-----------------------------------------------------------------------------
(* The bot's own type, and where the status of a redemption comes from.    *)

Told(o, type) == \E m \in heard : m.type = type /\ OrderOf(m) = o

PointsTold ==
    \A o \in Orders :
        /\ points[o] = "fulfilled" => Told(o, "completed")
        /\ points[o] = "refunded" => queue[o] = "unsent" \/ Told(o, "cancelled")

(* A redemption is published at most once, and not after it was refunded.  *)
PublishedOnce ==
    /\ \A o \in notified : points[o] = "held" /\ queue[o] = "unsent"
    /\ \A o \in Orders : points[o] = "none" => queue[o] = "unsent"
    /\ \A o \in Orders : queue[o] = "unsent" => tries[o] = 0

PointsInv == BotTypeOK /\ PublishedOnce /\ PointsTold

LEMMA UpdateType ==
    ASSUME TypeOK, NEW m \in Updates
    PROVE  OrderOf(m) \in Orders /\ OrderOf(m) = About(m)[1] /\ About(m) \in Deliveries
BY DEF TypeOK, Updates, OrderOf, About, Messages, Entries, Rows, Deliveries

(* The orders a handler works on were published. *)
LEMMA UnsentStays ==
    ASSUME TypeOK, DeliveriesMade, PublishedOnce, NEW o \in Orders, queue[o] = "unsent",
           PipelineStep
    PROVE  queue'[o] = "unsent" /\ tries'[o] = 0
<1>1. ASSUME NEW w \in Workers, Active(w) PROVE Order(w) # o
  <2>1. delivery[w] \in Deliveries /\ delivery[w][2] <= tries[delivery[w][1]]
    BY <1>1, DeliveryType DEF DeliveriesMade
  <2>2. delivery[w][2] \in Nat /\ delivery[w][2] >= 1
    BY <2>1 DEF Deliveries
  <2>3. tries[o] = 0
    BY DEF PublishedOnce
  <2> QED
    BY <2>1, <2>2, <2>3 DEF Order
<1>2. ASSUME NEW w \in Workers, Active(w), NEW fate, Release(w, fate)
      PROVE  queue'[o] = "unsent" /\ tries'[o] = 0
  BY <1>1, <1>2 DEF Release, PublishedOnce, TypeOK
<1>3. ASSUME NEW w \in Workers, NEW q \in Orders, Take(w, q)
      PROVE  queue'[o] = "unsent" /\ tries'[o] = 0
  BY <1>3 DEF Take, PublishedOnce, TypeOK
<1>4. CASE UNCHANGED broker
  BY <1>4 DEF broker, PublishedOnce
<1>5. ASSUME NEW w \in Workers, Handle(w)
      PROVE  \/ UNCHANGED broker
             \/ Active(w) /\ (Release(w, "acked") \/ Release(w, "dropped"))
  BY <1>5
  DEF Handle, InitFails, InitOrders, ReadPlaylists, StoreBatch, Refuse, Stored, AnnounceTrack,
      CompleteOrder, AnnounceRejection, CancelOrder, Ack, Raise, Finished, Active, broker
<1>6. CASE Owner
  BY <1>4, <1>6 DEF Owner, ToggleRequests, ToggleSource, RemoveTrack, DeletePlaylist
<1> QED
  BY <1>2, <1>3, <1>4, <1>5, <1>6 DEF PipelineStep, Crash, LoseConnection

LEMMA BotTypeNext == TypeOK /\ BotTypeOK /\ [PointsNext]_allVars => BotTypeOK'
<1> SUFFICES ASSUME TypeOK, BotTypeOK, [PointsNext]_allVars PROVE BotTypeOK'
  OBVIOUS
<1>1. Updates \subseteq Updates'
  BY StepRefines, SentGrows DEF Updates
<1>2. CASE UNCHANGED bot
  BY <1>1, <1>2 DEF bot, BotTypeOK
<1>3. ASSUME NEW o \in Orders, \/ Redeem(o) \/ RefundAtOnce(o) \/ LeaveHeld(o)
                               \/ DropOrder(o) \/ Dispatch(o)
      PROVE  BotTypeOK'
  BY <1>1, <1>3 DEF Redeem, RefundAtOnce, LeaveHeld, DropOrder, Dispatch, BotTypeOK
<1>4. ASSUME NEW m \in Updates, Hear(m) PROVE BotTypeOK'
  BY <1>1, <1>4 DEF Hear, BotTypeOK
<1>5. ASSUME NEW m \in busy, Patch(m) \/ PatchFails(m) PROVE BotTypeOK'
  <2>1. Outcome(m) \in {"fulfilled", "refunded"}
    BY DEF Outcome
  <2> QED
    BY <1>1, <1>5, <2>1 DEF Patch, PatchFails, BotTypeOK
<1>6. CASE BotCrash
  BY <1>1, <1>6 DEF BotCrash, BotTypeOK
<1> QED
  BY <1>2, <1>3, <1>4, <1>5, <1>6 DEF PointsNext, PipelineStep, allVars

LEMMA PublishedOnceNext ==
    TypeOK /\ DeliveriesMade /\ BotTypeOK /\ PublishedOnce /\ [PointsNext]_allVars
      => PublishedOnce'
<1> SUFFICES ASSUME TypeOK, DeliveriesMade, BotTypeOK, PublishedOnce, [PointsNext]_allVars
             PROVE  PublishedOnce'
  OBVIOUS
<1>1. CASE UNCHANGED allVars
  BY <1>1 DEF allVars, vars, bot, broker, PublishedOnce
<1>2. ASSUME NEW o \in Orders, \/ Redeem(o) \/ RefundAtOnce(o) \/ LeaveHeld(o) \/ DropOrder(o)
      PROVE  PublishedOnce'
  BY <1>2
  DEF Redeem, RefundAtOnce, LeaveHeld, DropOrder, PublishedOnce, BotTypeOK, pipeline, broker
<1>3. ASSUME NEW o \in Orders, Dispatch(o) PROVE PublishedOnce'
  BY <1>3 DEF Dispatch, Submit, PublishedOnce, BotTypeOK, TypeOK
<1>4. ASSUME NEW m \in Updates, Hear(m) PROVE PublishedOnce'
  BY <1>4 DEF Hear, PublishedOnce, pipeline, broker
<1>5. ASSUME NEW m \in busy, Patch(m) \/ PatchFails(m) PROVE PublishedOnce'
  <2>1. OrderOf(m) \in Orders /\ tries[OrderOf(m)] # 0
    <3>1. m \in Updates
      BY DEF BotTypeOK
    <3>2. About(m) \in Deliveries /\ About(m)[2] <= tries[About(m)[1]]
      BY <3>1, UpdateType DEF DeliveriesMade, Updates
    <3>3. About(m)[2] \in Nat /\ About(m)[2] >= 1
      BY <3>2 DEF Deliveries
    <3> QED
      BY <3>1, <3>2, <3>3, UpdateType
  <2>2. queue[OrderOf(m)] # "unsent" /\ OrderOf(m) \notin notified
    BY <2>1 DEF PublishedOnce
  <2>3. Outcome(m) # "none"
    BY DEF Outcome
  <2> QED
    BY <1>5, <2>1, <2>2, <2>3 DEF Patch, PatchFails, PublishedOnce, BotTypeOK, pipeline, broker
<1>6. CASE BotCrash
  BY <1>6 DEF BotCrash, PublishedOnce, pipeline, broker
<1>7. CASE PipelineStep
  <2>1. notified' = notified /\ points' = points
    BY <1>7 DEF PipelineStep, bot
  <2>2. ASSUME NEW o \in Orders, queue'[o] = "unsent" PROVE queue[o] = "unsent"
    <3>1. CASE UNCHANGED broker
      BY <2>2, <3>1 DEF broker
    <3>2. ASSUME NEW w \in Workers, NEW fate \in {"acked", "dropped", "ready"}, Release(w, fate)
          PROVE  queue[o] = "unsent"
      BY <2>2, <3>2 DEF Release, TypeOK
    <3>3. ASSUME NEW w \in Workers, NEW q \in Orders, Take(w, q) PROVE queue[o] = "unsent"
      BY <2>2, <3>3 DEF Take, TypeOK
    <3>4. ASSUME NEW w \in Workers, Handle(w)
          PROVE  UNCHANGED broker \/ Release(w, "acked") \/ Release(w, "dropped")
      BY <3>4
      DEF Handle, InitFails, InitOrders, ReadPlaylists, StoreBatch, Refuse, Stored,
          AnnounceTrack, CompleteOrder, AnnounceRejection, CancelOrder, Ack, Raise, broker
    <3>5. CASE Owner
      BY <3>1, <3>5 DEF Owner, ToggleRequests, ToggleSource, RemoveTrack, DeletePlaylist
    <3> QED
      BY <1>7, <3>1, <3>2, <3>3, <3>4, <3>5 DEF PipelineStep, Crash, LoseConnection
  <2>3. ASSUME NEW o \in Orders, queue[o] = "unsent"
        PROVE  queue'[o] = "unsent" /\ tries'[o] = 0
    BY <1>7, <2>3, UnsentStays
  <2> QED
    BY <2>1, <2>2, <2>3 DEF PublishedOnce, BotTypeOK
<1> QED
  BY <1>1, <1>2, <1>3, <1>4, <1>5, <1>6, <1>7 DEF PointsNext

LEMMA PointsToldNext ==
    TypeOK /\ DeliveriesMade /\ PointsInv /\ [PointsNext]_allVars => PointsTold'
<1> SUFFICES ASSUME TypeOK, DeliveriesMade, BotTypeOK, PublishedOnce, PointsTold,
                    [PointsNext]_allVars, NEW o \in Orders
             PROVE  /\ points'[o] = "fulfilled" => Told(o, "completed")'
                    /\ points'[o] = "refunded" => queue'[o] = "unsent" \/ Told(o, "cancelled")'
  BY DEF PointsInv, PointsTold
<1>1. CASE /\ points' = points /\ heard \subseteq heard'
           /\ queue[o] = "unsent" /\ points[o] = "refunded" => queue'[o] = "unsent"
  BY <1>1 DEF PointsTold, Told
<1>2. CASE UNCHANGED allVars
  BY <1>1, <1>2 DEF allVars, vars, bot, broker
<1>3. ASSUME NEW q \in Orders, Redeem(q) \/ RefundAtOnce(q)
      PROVE  /\ points'[o] = "fulfilled" => Told(o, "completed")'
             /\ points'[o] = "refunded" => queue'[o] = "unsent" \/ Told(o, "cancelled")'
  BY <1>3 DEF Redeem, RefundAtOnce, PointsTold, PublishedOnce, Told, BotTypeOK, pipeline, broker
<1>4. ASSUME NEW q \in Orders, LeaveHeld(q) \/ DropOrder(q)
      PROVE  points' = points /\ heard' = heard /\ queue' = queue
  BY <1>4 DEF LeaveHeld, DropOrder, pipeline, broker
<1>5. ASSUME NEW q \in Orders, Dispatch(q)
      PROVE  /\ points' = points /\ heard' = heard
             /\ queue[o] = "unsent" /\ points[o] = "refunded" => queue'[o] = "unsent"
  BY <1>5 DEF Dispatch, Submit, PublishedOnce, TypeOK
<1>6. ASSUME NEW m \in Updates, Hear(m)
      PROVE  points' = points /\ heard \subseteq heard' /\ queue' = queue
  BY <1>6 DEF Hear, pipeline, broker
<1>7. ASSUME NEW m \in busy, Patch(m)
      PROVE  /\ points'[o] = "fulfilled" => Told(o, "completed")'
             /\ points'[o] = "refunded" => queue'[o] = "unsent" \/ Told(o, "cancelled")'
  <2>1. m \in heard /\ m.type \in {"completed", "cancelled"}
    BY DEF BotTypeOK, Updates
  <2>2. heard' = heard /\ queue' = queue
    BY <1>7 DEF Patch, pipeline, broker
  <2>3. \/ points'[o] = points[o]
        \/ OrderOf(m) = o /\ points'[o] = Outcome(m)
    BY <1>7 DEF Patch, BotTypeOK
  <2>4. CASE points'[o] = points[o]
    BY <2>2, <2>4 DEF PointsTold, Told
  <2>5. CASE OrderOf(m) = o /\ points'[o] = Outcome(m)
    BY <2>1, <2>2, <2>5 DEF Told, Outcome
  <2> QED
    BY <2>3, <2>4, <2>5
<1>8. ASSUME NEW m \in busy, PatchFails(m)
      PROVE  points' = points /\ heard' = heard /\ queue' = queue
  BY <1>8 DEF PatchFails, pipeline, broker
<1>9. CASE BotCrash
  BY <1>1, <1>9 DEF BotCrash, pipeline, broker
<1>10. CASE PipelineStep
  BY <1>1, <1>10, UnsentStays DEF PipelineStep, bot
<1> QED
  BY <1>1, <1>2, <1>3, <1>4, <1>5, <1>6, <1>7, <1>8, <1>9, <1>10 DEF PointsNext

LEMMA PointsInvariant == PointsSpec => []PointsInv
<1>1. PointsInit => PointsInv
  BY DEF PointsInit, Init, PointsInv, BotTypeOK, PublishedOnce, PointsTold, Updates
<1>2. TypeOK /\ VerdictInv /\ PointsInv /\ [PointsNext]_allVars => PointsInv'
  BY BotTypeNext, PublishedOnceNext, PointsToldNext DEF PointsInv, VerdictInv
<1>3. Spec => []VerdictInv
  BY VerdictInit, VerdictNext, TypeCorrect, PTL DEF Spec
<1> QED
  BY <1>1, <1>2, <1>3, TypeCorrect, BotRefinesPipeline, PTL DEF PointsSpec

(* The bot's variables keep their types; what it is about to do is among   *)
(* what it has acknowledged, and that among what the worker published.     *)
THEOREM BotTypeCorrect == PointsSpec => []BotTypeOK
BY PointsInvariant, PTL DEF PointsInv

(* Fulfilled points bought a row that was committed to a playlist.         *)
THEOREM FulfilledMeansStored == PointsSpec => []FulfilledWasStored
<1>1. TypeOK /\ PointsInv /\ AnnouncedWereStored => FulfilledWasStored
  <2> SUFFICES ASSUME TypeOK, BotTypeOK, PointsTold, AnnouncedWereStored,
                      NEW o \in Orders, points[o] = "fulfilled"
               PROVE  \E e \in Entries : e[1][1][1] = o /\ StoredEntry(e)
    BY DEF FulfilledWasStored, PointsInv
  <2>1. PICK m \in heard : m.type = "completed" /\ OrderOf(m) = o
    BY DEF PointsTold, Told
  <2>2. m \in sent
    BY DEF BotTypeOK, Updates
  <2>3. m.entry \in Entries /\ StoredEntry(m.entry)
    BY <2>1, <2>2 DEF TypeOK, Messages, AnnouncedWereStored
  <2> QED
    BY <2>1, <2>3 DEF OrderOf
<1> QED
  BY <1>1, PointsInvariant, TypeCorrect, AnnouncedStored, BotRefinesPipeline, PTL

(* Points are refunded for an order that was never published, or after a   *)
(* refusal that left no track of the refused delivery in the playlist.     *)
THEOREM RefundedMeansRefused == PointsSpec => []RefundWasRefused
<1>1. PointsInv /\ CancelledNotStored => RefundWasRefused
  <2> SUFFICES ASSUME BotTypeOK, PointsTold, CancelledNotStored,
                      NEW o \in Orders, points[o] = "refunded", queue[o] # "unsent"
               PROVE  \E m \in heard : OrderOf(m) = o /\ Refused(m)
    BY DEF RefundWasRefused, PointsInv
  <2>1. PICK m \in heard : m.type = "cancelled" /\ OrderOf(m) = o
    BY DEF PointsTold, Told
  <2> QED
    BY <2>1 DEF BotTypeOK, Updates, CancelledNotStored, Refused
<1> QED
  BY <1>1, PointsInvariant, CancelledLeavesNothing, BotRefinesPipeline, PTL
=============================================================================
