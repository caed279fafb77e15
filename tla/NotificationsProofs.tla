------------------------ MODULE NotificationsProofs ------------------------
(* What holds of the collapsing counter for any events, keys and bound on     *)
(* deliveries, whatever crashes, is lost or expires.                          *)
EXTENDS Notifications, TLAPS

USE NotificationsAssumption

(* A delivery is the pair of its event and its number, so its key is one.     *)
LEMMA DeliveryParts ==
  /\ \A d \in Deliveries : d[1] \in Events /\ d[2] \in 1 .. MaxDeliveries /\ Key(d) \in Keys
  /\ \A d \in Deliveries : d = <<d[1], d[2]>>
BY DEF Deliveries, Key

(* The settled handler is done and its message done or where it was.          *)
LEMMA SettleTyped ==
  ASSUME TypeOK, NEW d \in Deliveries, Settle(d)
  PROVE  /\ queue' \in [Events -> {"unsent", "ready", "taken", "done"}]
         /\ tries' = tries
         /\ at' = [at EXCEPT ![d] = "done"]
         /\ at' \in [Deliveries -> {"none", "first", "later", "kicking", "storing", "done"}]
<1>1. d[1] \in Events
  BY DeliveryParts
<1>2. queue' \in [Events -> {"unsent", "ready", "taken", "done"}]
  BY <1>1 DEF Settle, TypeOK
<1>3. tries' = tries /\ at' = [at EXCEPT ![d] = "done"]
  BY DEF Settle
<1> QED BY <1>2, <1>3 DEF TypeOK

(* A delivery that starts is a new one: its number is the next of its event.  *)
LEMMA ReceiveTyped ==
  ASSUME TypeOK, NEW e \in Events, NEW d \in Deliveries,
         NEW place \in {"first", "later", "storing"}, Receive(e, d, place)
  PROVE  /\ queue' \in [Events -> {"unsent", "ready", "taken", "done"}]
         /\ tries' \in [Events -> 0 .. MaxDeliveries]
         /\ tries' = [tries EXCEPT ![e] = @ + 1]
         /\ at' \in [Deliveries -> {"none", "first", "later", "kicking", "storing", "done"}]
         /\ at' = [at EXCEPT ![d] = place]
         /\ d[1] = e /\ d[2] = tries[e] + 1
<1>1. queue' \in [Events -> {"unsent", "ready", "taken", "done"}]
  BY DEF Receive, TypeOK
<1>2. tries[e] + 1 \in 0 .. MaxDeliveries
  BY DEF Receive, TypeOK
<1>3. tries' \in [Events -> 0 .. MaxDeliveries]
  BY <1>2 DEF Receive, TypeOK
<1>4. at' = [at EXCEPT ![d] = place] /\ d[1] = e /\ d[2] = tries[e] + 1
  BY DEF Receive
<1>5. at' \in [Deliveries -> {"none", "first", "later", "kicking", "storing", "done"}]
  BY <1>4 DEF TypeOK
<1> QED BY <1>1, <1>3, <1>4, <1>5 DEF Receive

LEMMA TypeInit == Init => TypeOK
BY DEF Init, TypeOK

LEMMA TypeStep == TypeOK /\ [Next]_vars => TypeOK'
<1> SUFFICES ASSUME TypeOK, [Next]_vars PROVE TypeOK'
  OBVIOUS
<1> USE DEF hash, history
<1>1. ASSUME NEW e \in Events, Publish(e) PROVE TypeOK'
  BY <1>1 DEF Publish, TypeOK
<1>2. ASSUME NEW e \in Events, Count(e) PROVE TypeOK'
  <2>1. PICK d \in Deliveries :
          /\ Receive(e, d, IF First(Key(d)) THEN "first" ELSE "later")
          /\ counted' = [counted EXCEPT ![Key(d)] = @ \cup {d}]
          /\ unkicked' = IF First(Key(d)) THEN unkicked \ {Key(d)} ELSE unkicked
          /\ UNCHANGED <<named, due, taken, told, late>>
    BY <1>2 DEF Count
  <2>2. /\ queue' \in [Events -> {"unsent", "ready", "taken", "done"}]
        /\ tries' \in [Events -> 0 .. MaxDeliveries]
        /\ at' \in [Deliveries -> {"none", "first", "later", "kicking", "storing", "done"}]
    BY <2>1, ReceiveTyped
  <2>3. counted' \in [Keys -> SUBSET Deliveries] /\ unkicked' \subseteq Keys
    BY <2>1, DeliveryParts DEF TypeOK
  <2> QED BY <2>1, <2>2, <2>3 DEF TypeOK
<1>3. ASSUME NEW e \in Events, SendAtOnce(e) PROVE TypeOK'
  <2>1. PICK d \in Deliveries : Receive(e, d, "storing") /\ taken' = taken \cup {{d}}
    BY <1>3 DEF SendAtOnce
  <2>2. /\ queue' \in [Events -> {"unsent", "ready", "taken", "done"}]
        /\ tries' \in [Events -> 0 .. MaxDeliveries]
        /\ at' \in [Deliveries -> {"none", "first", "later", "kicking", "storing", "done"}]
    BY <2>1, ReceiveTyped
  <2> QED BY <1>3, <2>1, <2>2 DEF SendAtOnce, TypeOK
<1>4. ASSUME NEW e \in Events, LoseConnection(e) PROVE TypeOK'
  BY <1>4 DEF LoseConnection, TypeOK
<1>5. ASSUME NEW d \in Deliveries, Name(d) PROVE TypeOK'
  <2>1. named' \subseteq Keys
    BY <1>5, DeliveryParts DEF Name, TypeOK
  <2>2. CASE at[d] = "first"
    <3>1. at' \in [Deliveries -> {"none", "first", "later", "kicking", "storing", "done"}]
      BY <1>5, <2>2 DEF Name, TypeOK
    <3> QED BY <1>5, <2>1, <2>2, <3>1 DEF Name, TypeOK
  <2>3. CASE at[d] # "first"
    BY <1>5, <2>1, <2>3, SettleTyped DEF Name, TypeOK
  <2> QED BY <2>2, <2>3
<1>6. ASSUME NEW d \in Deliveries, Kick(d) PROVE TypeOK'
  <2>1. due' \in [Keys -> Nat]
    BY <1>6, DeliveryParts DEF Kick, TypeOK
  <2> QED BY <1>6, <2>1, SettleTyped DEF Kick, TypeOK
<1>7. ASSUME NEW d \in Deliveries, Fail(d) PROVE TypeOK'
  <2>1. unkicked' \subseteq Keys
    BY <1>7, DeliveryParts DEF Fail, TypeOK
  <2> QED BY <1>7, <2>1, SettleTyped DEF Fail, TypeOK
<1>8. ASSUME NEW b \in taken, Store(b) PROVE TypeOK'
  <2>1. taken' \subseteq SUBSET Deliveries /\ told' \subseteq SUBSET Deliveries
    BY <1>8 DEF Store, TypeOK
  <2>2. b \subseteq Deliveries
    BY DEF TypeOK
  <2>3. CASE \E d \in b : at[d] = "storing" /\ Settle(d)
    BY <1>8, <2>1, <2>2, <2>3, SettleTyped DEF Store, TypeOK
  <2>4. CASE UNCHANGED worker
    BY <1>8, <2>1, <2>4 DEF Store, TypeOK, worker
  <2> QED BY <1>8, <2>3, <2>4 DEF Store
<1>9. ASSUME NEW k \in Keys, Flush(k) PROVE TypeOK'
  <2>1. due' \in [Keys -> Nat]
    BY <1>9 DEF Flush, Run, TypeOK
  <2>2. taken' \subseteq SUBSET Deliveries
    BY <1>9 DEF Flush, TypeOK
  <2> QED BY <1>9, <2>1, <2>2 DEF Flush, Forget, TypeOK, worker
<1>10. ASSUME NEW k \in Keys, LoseTask(k) PROVE TypeOK'
  <2>1. due' \in [Keys -> Nat]
    BY <1>10 DEF LoseTask, Run, TypeOK
  <2> QED BY <1>10, <2>1 DEF LoseTask, TypeOK, worker
<1>11. ASSUME NEW k \in Keys, Expire(k) PROVE TypeOK'
  BY <1>11 DEF Expire, Forget, TypeOK, worker
<1>12. CASE Crash
  BY <1>12 DEF Crash, TypeOK
<1>13. CASE UNCHANGED vars
  BY <1>13 DEF vars, worker, TypeOK
<1> QED BY <1>1, <1>2, <1>3, <1>4, <1>5, <1>6, <1>7, <1>8, <1>9, <1>10, <1>11, <1>12, <1>13 DEF Next

(* The variables keep their types.                                            *)
THEOREM NotificationsTypeCorrect == Spec => []TypeOK
BY TypeInit, TypeStep, PTL DEF Spec

-----------------------------------------------------------------------------
(* Deliveries that have not been made have no handler.                        *)
NewAreIdle == \A d \in Deliveries : d[2] > tries[d[1]] => at[d] = "none"

(* As long as the hash of a key has not expired before its task, the key has  *)
(* one task at most, scheduled or to be scheduled by one handler, and it has  *)
(* it only while there is a counter, with names by the time it is scheduled.  *)
InOrder(k) ==
  /\ due[k] \in {0, 1}
  /\ due[k] > 0 => Kickers(k) = {} /\ k \in named
  /\ \A d, x \in Kickers(k) : d = x
  /\ due[k] > 0 \/ Kickers(k) # {} => counted[k] # {}
  /\ \A d \in Kickers(k) : at[d] = "kicking" => k \in named

Orderly == \A k \in Keys \ late : InOrder(k)

(* Who has a task to schedule changes only with the handlers.                 *)
LEMMA KickersSame == at' = at => \A k \in Keys : Kickers(k)' = Kickers(k)
BY DEF Kickers, Kicker, Of

LEMMA KickersSettle ==
  ASSUME TypeOK, NEW d \in Deliveries, Settle(d)
  PROVE  \A k \in Keys : Kickers(k)' = Kickers(k) \ {d}
<1>1. at' = [at EXCEPT ![d] = "done"] /\ DOMAIN at = Deliveries
  BY SettleTyped DEF TypeOK
<1>2. \A x \in Deliveries : Kicker(x)' <=> Kicker(x) /\ x # d
  BY <1>1 DEF Kicker
<1> QED BY <1>2 DEF Kickers, Of

LEMMA KickersReceive ==
  ASSUME TypeOK, NewAreIdle, NEW e \in Events, NEW d \in Deliveries,
         NEW place \in {"first", "later", "storing"}, Receive(e, d, place)
  PROVE  /\ at[d] = "none"
         /\ \A k \in Keys : Kickers(k)' = IF place = "first" /\ Key(d) = k
                                          THEN Kickers(k) \cup {d} ELSE Kickers(k)
<1>1. at' = [at EXCEPT ![d] = place] /\ d[1] = e /\ d[2] = tries[e] + 1
  BY ReceiveTyped
<1>2. at[d] = "none"
  BY <1>1 DEF NewAreIdle, TypeOK
<1>3. \A x \in Deliveries : Kicker(x)' <=> Kicker(x) \/ (x = d /\ place = "first")
  BY <1>1, <1>2 DEF Kicker, TypeOK
<1> QED BY <1>2, <1>3 DEF Kickers, Of

(* What a step can do to the handlers.                                        *)
Promoted(d) == at[d] = "first" /\ at' = [at EXCEPT ![d] = "kicking"] /\ UNCHANGED tries

LEMMA HandlerSteps ==
  TypeOK /\ [Next]_vars =>
    \/ UNCHANGED <<tries, at>>
    \/ Crash
    \/ \E d \in Deliveries : Promoted(d)
    \/ \E d \in Deliveries : at[d] # "none" /\ Settle(d)
    \/ \E e \in Events, d \in Deliveries, place \in {"first", "later", "storing"} :
         Receive(e, d, place)
<1> SUFFICES ASSUME TypeOK, [Next]_vars
             PROVE  \/ UNCHANGED <<tries, at>>
                    \/ Crash
                    \/ \E d \in Deliveries : Promoted(d)
                    \/ \E d \in Deliveries : at[d] # "none" /\ Settle(d)
                    \/ \E e \in Events, d \in Deliveries, place \in {"first", "later", "storing"} :
                         Receive(e, d, place)
  OBVIOUS
<1>1. ASSUME NEW e \in Events, Publish(e) \/ LoseConnection(e) PROVE UNCHANGED <<tries, at>>
  BY <1>1 DEF Publish, LoseConnection
<1>2. ASSUME NEW e \in Events, Count(e) \/ SendAtOnce(e)
      PROVE  \E d \in Deliveries, place \in {"first", "later", "storing"} : Receive(e, d, place)
  BY <1>2 DEF Count, SendAtOnce
<1>3. ASSUME NEW d \in Deliveries, Name(d)
      PROVE  Promoted(d) \/ (at[d] # "none" /\ Settle(d))
  BY <1>3 DEF Name, Promoted
<1>4. ASSUME NEW d \in Deliveries, Kick(d) \/ Fail(d)
      PROVE  at[d] # "none" /\ Settle(d)
  BY <1>4 DEF Kick, Fail
<1>5. ASSUME NEW b \in taken, Store(b)
      PROVE  UNCHANGED <<tries, at>> \/ \E d \in Deliveries : at[d] # "none" /\ Settle(d)
  BY <1>5 DEF Store, worker, TypeOK
<1>6. ASSUME NEW k \in Keys, Flush(k) \/ LoseTask(k) \/ Expire(k) PROVE UNCHANGED <<tries, at>>
  BY <1>6 DEF Flush, LoseTask, Expire, worker
<1>7. CASE UNCHANGED vars
  BY <1>7 DEF vars, worker
<1> QED BY <1>1, <1>2, <1>3, <1>4, <1>5, <1>6, <1>7 DEF Next

(* Deliveries are made in order, and only one that is made gets a handler.    *)
LEMMA IdleStep == TypeOK /\ NewAreIdle /\ [Next]_vars => NewAreIdle'
<1> SUFFICES ASSUME TypeOK, NewAreIdle, [Next]_vars,
                    NEW x \in Deliveries, x[2] > tries'[x[1]]
             PROVE  at'[x] = "none"
  BY DEF NewAreIdle
<1>x. x[1] \in Events /\ x[2] \in Nat /\ \A e \in Events : tries[e] \in Nat
  BY DeliveryParts DEF TypeOK
<1>1. CASE UNCHANGED <<tries, at>>
  BY <1>1 DEF NewAreIdle
<1>2. CASE Crash
  BY <1>2 DEF Crash, NewAreIdle
<1>3. ASSUME NEW d \in Deliveries, Promoted(d) PROVE at'[x] = "none"
  BY <1>3 DEF Promoted, NewAreIdle, TypeOK
<1>4. ASSUME NEW d \in Deliveries, at[d] # "none", Settle(d) PROVE at'[x] = "none"
  BY <1>4 DEF Settle, NewAreIdle, TypeOK
<1>5. ASSUME NEW e \in Events, NEW d \in Deliveries, NEW place \in {"first", "later", "storing"},
             Receive(e, d, place)
      PROVE  at'[x] = "none"
  <2>1. /\ tries' = [tries EXCEPT ![e] = @ + 1]
        /\ at' = [at EXCEPT ![d] = place]
        /\ d[1] = e /\ d[2] = tries[e] + 1
    BY <1>5, ReceiveTyped
  <2>2. /\ tries'[x[1]] \in Nat /\ tries'[x[1]] >= tries[x[1]]
        /\ tries'[e] = tries[e] + 1
    BY <1>x, <2>1 DEF TypeOK
  <2>3. x # d
    BY <2>1, <2>2, <1>x
  <2>4. at[x] = "none"
    BY <2>2, <1>x DEF NewAreIdle
  <2> QED BY <2>1, <2>3, <2>4 DEF TypeOK
<1> QED BY <1>1, <1>2, <1>3, <1>4, <1>5, HandlerSteps

(* Counted deliveries keep a task, however handlers end.                      *)
LEMMA DueStep == TypeOK /\ NewAreIdle /\ FlushIsDue /\ [Next]_vars => FlushIsDue'
<1> SUFFICES ASSUME TypeOK, NewAreIdle, FlushIsDue, [Next]_vars,
                    NEW k \in Keys, counted'[k] # {}, k \notin unkicked'
             PROVE  due'[k] > 0 \/ Kickers(k)' # {}
  BY DEF FlushIsDue
<1> USE DEF hash, history, worker
<1>1. ASSUME UNCHANGED <<at, counted, due, unkicked>> PROVE due'[k] > 0 \/ Kickers(k)' # {}
  BY <1>1, KickersSame DEF FlushIsDue
<1>2. ASSUME NEW e \in Events, Publish(e) \/ LoseConnection(e)
      PROVE  due'[k] > 0 \/ Kickers(k)' # {}
  BY <1>1, <1>2 DEF Publish, LoseConnection
<1>3. ASSUME NEW e \in Events, Count(e) PROVE due'[k] > 0 \/ Kickers(k)' # {}
  <2>1. PICK d \in Deliveries :
          /\ Receive(e, d, IF First(Key(d)) THEN "first" ELSE "later")
          /\ counted' = [counted EXCEPT ![Key(d)] = @ \cup {d}]
          /\ unkicked' = IF First(Key(d)) THEN unkicked \ {Key(d)} ELSE unkicked
          /\ due' = due
    BY <1>3 DEF Count
  <2>2. Kickers(k)' = IF First(Key(d)) /\ Key(d) = k THEN Kickers(k) \cup {d} ELSE Kickers(k)
    BY <2>1, KickersReceive
  <2>3. CASE First(Key(d)) /\ Key(d) = k
    BY <2>2, <2>3
  <2>4. CASE ~(First(Key(d)) /\ Key(d) = k)
    <3>1. counted[k] # {} /\ k \notin unkicked
      BY <2>1, <2>4 DEF First, TypeOK
    <3> QED BY <2>1, <2>2, <2>4, <3>1 DEF FlushIsDue
  <2> QED BY <2>3, <2>4
<1>4. ASSUME NEW e \in Events, SendAtOnce(e) PROVE due'[k] > 0 \/ Kickers(k)' # {}
  <2>1. PICK d \in Deliveries : Receive(e, d, "storing")
    BY <1>4 DEF SendAtOnce
  <2>2. Kickers(k)' = Kickers(k)
    BY <2>1, KickersReceive
  <2> QED BY <1>4, <2>2 DEF SendAtOnce, FlushIsDue
<1>5. ASSUME NEW d \in Deliveries, Name(d) PROVE due'[k] > 0 \/ Kickers(k)' # {}
  <2>1. Kickers(k)' = Kickers(k)
    <3>1. CASE at[d] = "first"
      <4>1. at' = [at EXCEPT ![d] = "kicking"]
        BY <1>5, <3>1 DEF Name
      <4>2. \A x \in Deliveries : Kicker(x)' <=> Kicker(x)
        BY <3>1, <4>1 DEF Kicker, TypeOK
      <4> QED BY <4>2 DEF Kickers, Of
    <3>2. CASE at[d] # "first"
      <4>1. d \notin Kickers(k) /\ Settle(d)
        BY <1>5, <3>2 DEF Name, Kickers, Kicker
      <4> QED BY <4>1, KickersSettle
    <3> QED BY <3>1, <3>2
  <2> QED BY <1>5, <2>1 DEF Name, FlushIsDue
<1>6. ASSUME NEW d \in Deliveries, Kick(d) PROVE due'[k] > 0 \/ Kickers(k)' # {}
  <2>1. Kickers(k)' = Kickers(k) \ {d}
    BY <1>6, KickersSettle DEF Kick
  <2>2. CASE Key(d) = k
    BY <1>6, <2>2 DEF Kick, TypeOK
  <2>3. CASE Key(d) # k
    BY <1>6, <2>1, <2>3 DEF Kick, FlushIsDue, Kickers, Of, TypeOK
  <2> QED BY <2>2, <2>3
<1>7. ASSUME NEW d \in Deliveries, Fail(d) PROVE due'[k] > 0 \/ Kickers(k)' # {}
  <2>1. Kickers(k)' = Kickers(k) \ {d}
    BY <1>7, KickersSettle DEF Fail
  <2>2. k \notin unkicked /\ d \notin Kickers(k)
    BY <1>7 DEF Fail, Kickers, Of
  <2> QED BY <1>7, <2>1, <2>2 DEF Fail, FlushIsDue
<1>8. ASSUME NEW b \in taken, Store(b) PROVE due'[k] > 0 \/ Kickers(k)' # {}
  <2>1. CASE UNCHANGED at
    BY <1>1, <1>8, <2>1 DEF Store
  <2>2. ASSUME NEW d \in b, at[d] = "storing", Settle(d) PROVE Kickers(k)' = Kickers(k)
    <3>1. d \in Deliveries /\ d \notin Kickers(k)
      BY <2>2 DEF TypeOK, Kickers, Kicker
    <3> QED BY <2>2, <3>1, KickersSettle
  <2> QED BY <1>8, <2>1, <2>2 DEF Store, FlushIsDue
<1>9. ASSUME NEW j \in Keys, Flush(j) \/ Expire(j) PROVE due'[k] > 0 \/ Kickers(k)' # {}
  <2>1. k # j /\ at' = at /\ unkicked' = unkicked
    BY <1>9 DEF Flush, Expire, Forget, TypeOK
  <2>2. counted'[k] = counted[k] /\ due'[k] = due[k]
    BY <1>9, <2>1 DEF Flush, Expire, Forget, Run, TypeOK
  <2> QED BY <2>1, <2>2, KickersSame DEF FlushIsDue
<1>10. ASSUME NEW j \in Keys, LoseTask(j) PROVE due'[k] > 0 \/ Kickers(k)' # {}
  <2>1. k # j /\ k \notin unkicked /\ at' = at /\ counted' = counted /\ due'[k] = due[k]
    BY <1>10 DEF LoseTask, Run, TypeOK
  <2> QED BY <2>1, KickersSame DEF FlushIsDue
<1>11. CASE Crash
  <2>1. k \notin unkicked /\ Kickers(k) = {}
    BY <1>11 DEF Crash
  <2> QED BY <1>11, <2>1 DEF Crash, FlushIsDue
<1>12. CASE UNCHANGED vars
  BY <1>1, <1>12 DEF vars
<1> QED BY <1>2, <1>3, <1>4, <1>5, <1>6, <1>7, <1>8, <1>9, <1>10, <1>11, <1>12 DEF Next

(* What is due was counted and named, as long as nothing expired too early.   *)
LEMMA OrderStep == TypeOK /\ NewAreIdle /\ Orderly /\ [Next]_vars => Orderly'
<1> SUFFICES ASSUME TypeOK, NewAreIdle, Orderly, [Next]_vars, NEW k \in Keys, k \notin late'
             PROVE  InOrder(k)'
  BY DEF Orderly
<1> USE DEF hash, history, worker
<1>0. k \notin late /\ InOrder(k)
  <2>1. CASE late' = late
    BY <2>1 DEF Orderly
  <2>2. ASSUME NEW j \in Keys, Expire(j) PROVE k \notin late
    BY <2>2 DEF Expire
  <2>3. late' = late \/ \E j \in Keys : Expire(j)
    BY DEF Next, Publish, Count, SendAtOnce, LoseConnection, Name, Kick, Fail, Store, Flush,
           LoseTask, Crash, vars
  <2> QED BY <2>1, <2>2, <2>3 DEF Orderly
<1>1. ASSUME Kickers(k)' \subseteq Kickers(k), due' = due, counted'[k] = counted[k],
             k \in named => k \in named',
             \A d \in Kickers(k)' : at'[d] = at[d]
      PROVE  InOrder(k)'
  BY <1>0, <1>1 DEF InOrder
<1>2. ASSUME NEW d \in Deliveries, Settle(d)
      PROVE  /\ Kickers(k)' = Kickers(k) \ {d}
             /\ \A x \in Kickers(k)' : at'[x] = at[x]
  <2>1. Kickers(k)' = Kickers(k) \ {d} /\ at' = [at EXCEPT ![d] = "done"]
    BY <1>2, KickersSettle, SettleTyped
  <2> QED BY <2>1 DEF TypeOK, Kickers, Of
<1>3. ASSUME UNCHANGED <<at, due, counted, named>> PROVE InOrder(k)'
  BY <1>1, <1>3, KickersSame
<1>4. ASSUME NEW e \in Events, Publish(e) \/ LoseConnection(e) PROVE InOrder(k)'
  BY <1>3, <1>4 DEF Publish, LoseConnection
<1>5. ASSUME NEW e \in Events, Count(e) PROVE InOrder(k)'
  <2>1. PICK d \in Deliveries :
          /\ Receive(e, d, IF First(Key(d)) THEN "first" ELSE "later")
          /\ counted' = [counted EXCEPT ![Key(d)] = @ \cup {d}]
          /\ due' = due /\ named' = named
    BY <1>5 DEF Count
  <2>2. /\ at[d] = "none"
        /\ Kickers(k)' = IF First(Key(d)) /\ Key(d) = k THEN Kickers(k) \cup {d} ELSE Kickers(k)
    BY <2>1, KickersReceive
  <2>3. at' = [at EXCEPT ![d] = IF First(Key(d)) THEN "first" ELSE "later"]
    BY <2>1 DEF Receive
  <2>4. \A x \in Kickers(k) : x # d /\ at'[x] = at[x]
    BY <2>2, <2>3 DEF Kickers, Kicker, Of, TypeOK
  <2>5. CASE First(Key(d)) /\ Key(d) = k
    <3>1. due[k] = 0 /\ Kickers(k) = {}
      BY <1>0, <2>5 DEF InOrder, First
    <3>2. Kickers(k)' = {d} /\ at'[d] = "first" /\ counted'[k] # {}
      BY <2>1, <2>2, <2>3, <2>5, <3>1 DEF TypeOK
    <3> QED BY <2>1, <3>1, <3>2 DEF InOrder
  <2>6. CASE ~(First(Key(d)) /\ Key(d) = k)
    <3>1. counted[k] # {} => counted'[k] # {}
      BY <2>1 DEF TypeOK
    <3> QED BY <1>0, <2>1, <2>2, <2>4, <2>6, <3>1 DEF InOrder
  <2> QED BY <2>5, <2>6
<1>6. ASSUME NEW e \in Events, SendAtOnce(e) PROVE InOrder(k)'
  <2>1. PICK d \in Deliveries : Receive(e, d, "storing")
    BY <1>6 DEF SendAtOnce
  <2>2. at[d] = "none" /\ Kickers(k)' = Kickers(k) /\ at' = [at EXCEPT ![d] = "storing"]
    BY <2>1, KickersReceive DEF Receive
  <2>3. \A x \in Kickers(k) : at'[x] = at[x]
    BY <2>2 DEF Kickers, Kicker, Of, TypeOK
  <2> QED BY <1>1, <1>6, <2>2, <2>3 DEF SendAtOnce
<1>7. ASSUME NEW d \in Deliveries, Name(d) PROVE InOrder(k)'
  <2>1. named' = named \cup {Key(d)} /\ counted' = counted /\ due' = due
    BY <1>7 DEF Name
  <2>2. CASE at[d] = "first"
    <3>1. at' = [at EXCEPT ![d] = "kicking"]
      BY <1>7, <2>2 DEF Name
    <3>2. \A x \in Deliveries : Kicker(x)' <=> Kicker(x)
      BY <2>2, <3>1 DEF Kicker, TypeOK
    <3>3. Kickers(k)' = Kickers(k)
      BY <3>2 DEF Kickers, Of
    <3>4. \A x \in Kickers(k) : at'[x] = "kicking" => k \in named'
      BY <1>0, <2>1, <3>1 DEF InOrder, Kickers, Of, TypeOK
    <3> QED BY <1>0, <2>1, <3>3, <3>4 DEF InOrder
  <2>3. CASE at[d] # "first"
    BY <1>1, <1>2, <1>7, <2>1, <2>3 DEF Name
  <2> QED BY <2>2, <2>3
<1>8. ASSUME NEW d \in Deliveries, Kick(d) PROVE InOrder(k)'
  <2>1. /\ Kickers(k)' = Kickers(k) \ {d} /\ (\A x \in Kickers(k)' : at'[x] = at[x])
        /\ due' = [due EXCEPT ![Key(d)] = @ + 1] /\ counted' = counted /\ named' = named
    BY <1>2, <1>8 DEF Kick
  <2>2. CASE Key(d) = k
    <3>1. d \in Kickers(k) /\ at[d] = "kicking"
      BY <1>8, <2>2 DEF Kick, Kickers, Kicker, Of
    <3>2. due[k] = 0 /\ Kickers(k) = {d} /\ counted[k] # {} /\ k \in named
      BY <1>0, <3>1 DEF InOrder
    <3>3. due'[k] = 1 /\ Kickers(k)' = {}
      BY <2>1, <2>2, <3>2 DEF TypeOK
    <3> QED BY <2>1, <3>2, <3>3 DEF InOrder
  <2>3. CASE Key(d) # k
    <3>1. due'[k] = due[k]
      BY <2>1, <2>3 DEF TypeOK
    <3> QED BY <1>0, <2>1, <3>1 DEF InOrder
  <2> QED BY <2>2, <2>3
<1>9. ASSUME NEW d \in Deliveries, Fail(d) PROVE InOrder(k)'
  BY <1>1, <1>2, <1>9 DEF Fail
<1>10. ASSUME NEW b \in taken, Store(b) PROVE InOrder(k)'
  <2>1. CASE UNCHANGED at
    BY <1>3, <1>10, <2>1 DEF Store
  <2>2. ASSUME NEW d \in b, Settle(d) PROVE InOrder(k)'
    <3>1. d \in Deliveries
      BY DEF TypeOK
    <3> QED BY <1>1, <1>2, <1>10, <2>2, <3>1 DEF Store
  <2> QED BY <1>10, <2>1, <2>2 DEF Store
<1>11. ASSUME NEW j \in Keys, Flush(j) PROVE InOrder(k)'
  <2>1. Kickers(k)' = Kickers(k) /\ at' = at
    BY <1>11, KickersSame DEF Flush
  <2>2. CASE j = k
    <3>1. due[k] > 0 /\ due'[k] = due[k] - 1 /\ counted'[k] = {}
      BY <1>11, <2>2 DEF Flush, Run, Forget, TypeOK
    <3>2. due'[k] = 0
      BY <1>0, <3>1 DEF InOrder
    <3>3. Kickers(k)' = {}
      BY <1>0, <2>1, <3>1 DEF InOrder
    <3> QED BY <3>2, <3>3 DEF InOrder
  <2>3. CASE j # k
    <3>1. /\ due'[k] = due[k] /\ counted'[k] = counted[k]
          /\ (k \in named <=> k \in named')
      BY <1>11, <2>3 DEF Flush, Run, Forget, TypeOK
    <3> QED BY <1>0, <2>1, <3>1 DEF InOrder
  <2> QED BY <2>2, <2>3
<1>12. ASSUME NEW j \in Keys, LoseTask(j) PROVE InOrder(k)'
  <2>1. Kickers(k)' = Kickers(k) /\ UNCHANGED <<at, counted, named>>
    BY <1>12, KickersSame DEF LoseTask
  <2>2. due'[k] = due[k] \/ (due[k] > 0 /\ due'[k] = due[k] - 1)
    BY <1>12 DEF LoseTask, Run, TypeOK
  <2> QED BY <1>0, <2>1, <2>2 DEF InOrder
<1>13. ASSUME NEW j \in Keys, Expire(j) PROVE InOrder(k)'
  <2>1. Kickers(k)' = Kickers(k) /\ UNCHANGED <<at, due>>
    BY <1>13, KickersSame DEF Expire
  <2>2. CASE j = k
    <3>1. due[k] = 0 /\ Kickers(k) = {}
      BY <1>0, <1>13, <2>2 DEF Expire, InOrder
    <3> QED BY <2>1, <3>1 DEF InOrder
  <2>3. CASE j # k
    <3>1. counted'[k] = counted[k] /\ (k \in named <=> k \in named')
      BY <1>13, <2>3 DEF Expire, Forget, TypeOK
    <3> QED BY <1>0, <2>1, <3>1 DEF InOrder
  <2> QED BY <2>2, <2>3
<1>14. CASE Crash
  <2>1. \A x \in Deliveries : ~Kicker(x)'
    BY <1>14 DEF Crash, Kicker, TypeOK
  <2>2. Kickers(k)' = {}
    BY <2>1 DEF Kickers, Of
  <2> QED BY <1>1, <1>14, <2>2 DEF Crash
<1>15. CASE UNCHANGED vars
  BY <1>3, <1>15 DEF vars
<1> QED BY <1>4, <1>5, <1>6, <1>7, <1>8, <1>9, <1>10, <1>11, <1>12, <1>13, <1>14, <1>15 DEF Next

LEMMA TasksFollowCounts == Spec => [](TypeOK /\ NewAreIdle /\ FlushIsDue /\ Orderly)
<1>1. Init => TypeOK /\ NewAreIdle /\ FlushIsDue /\ Orderly
  <2> SUFFICES ASSUME Init PROVE NewAreIdle /\ FlushIsDue /\ Orderly
    BY TypeInit
  <2>1. \A k \in Keys : Kickers(k) = {} /\ due[k] = 0 /\ counted[k] = {}
    BY DEF Init, Kickers, Kicker, Of
  <2> QED BY <2>1 DEF Init, NewAreIdle, FlushIsDue, Orderly, InOrder
<1> QED BY <1>1, TypeStep, IdleStep, DueStep, OrderStep, PTL DEF Spec

(* A counter has a task coming unless one was lost (add_event schedules one   *)
(* when hincrby answers 1, and a hash is only deleted as a whole).            *)
THEOREM CountersHaveTasks == Spec => []FlushIsDue
BY TasksFollowCounts, PTL

(* A task finds a counter with names unless a hash expired before its task    *)
(* ran (hincrby, hset and delay_kick in that order in one handler).           *)
THEOREM TasksFindCounters == Spec => []NothingThrownAway
<1>1. Orderly => NothingThrownAway
  BY DEF Orderly, InOrder, NothingThrownAway
<1> QED BY <1>1, TasksFollowCounts, PTL

-----------------------------------------------------------------------------
(* Each delivery is counted under its own key, and one that is not made is    *)
(* neither counted nor told.                                                  *)
CountedAtHome == \A k \in Keys : counted[k] \subseteq Of(k)

NewAreUntold == \A d \in Deliveries : d[2] > tries[d[1]] =>
  (\A k \in Keys : d \notin counted[k]) /\ (\A b \in taken \cup told : d \notin b)

ToldInv == ToldOnce /\ CountedAtHome /\ NewAreUntold

(* A step that makes no delivery and only drops what was counted or taken, or *)
(* moves a bundle into the table, tells nothing twice.                        *)
Shrinks ==
  /\ UNCHANGED tries
  /\ \A k \in Keys : counted'[k] \subseteq counted[k]
  /\ taken' \cup told' \subseteq taken \cup told
  /\ taken' \cap told' = {}

LEMMA ShrinksTold == ToldInv /\ Shrinks => ToldInv'
<1> SUFFICES ASSUME ToldInv, Shrinks PROVE ToldInv'
  OBVIOUS
<1> USE DEF ToldInv, Shrinks
<1>1. ToldOnce'
  <2>1. \A b, c \in taken' \cup told' : b = c \/ b \cap c = {}
    BY DEF ToldOnce
  <2>2. \A k \in Keys, b \in taken' \cup told' : counted'[k] \cap b = {}
    BY DEF ToldOnce
  <2> QED BY <2>1, <2>2 DEF ToldOnce
<1>2. CountedAtHome'
  BY DEF CountedAtHome, Of
<1>3. NewAreUntold'
  BY DEF NewAreUntold
<1> QED BY <1>1, <1>2, <1>3

LEMMA ToldStep == TypeOK /\ ToldInv /\ [Next]_vars => ToldInv'
<1> SUFFICES ASSUME TypeOK, ToldInv, [Next]_vars PROVE ToldInv'
  OBVIOUS
<1> USE DEF hash, history, worker
<1>1. ASSUME UNCHANGED <<tries, counted, taken, told>> PROVE ToldInv'
  BY <1>1 DEF ToldInv, ToldOnce, CountedAtHome, NewAreUntold, Of
<1>2. ASSUME NEW e \in Events, Publish(e) \/ LoseConnection(e) PROVE ToldInv'
  BY <1>1, <1>2 DEF Publish, LoseConnection
<1>3. ASSUME NEW e \in Events, NEW d \in Deliveries, NEW place \in {"first", "later", "storing"},
             Receive(e, d, place)
      PROVE  /\ d[2] > tries[d[1]]
             /\ \A x \in Deliveries : x[2] > tries'[x[1]] => x[2] > tries[x[1]] /\ x # d
  <2>1. tries' = [tries EXCEPT ![e] = @ + 1] /\ d[1] = e /\ d[2] = tries[e] + 1
    BY <1>3, ReceiveTyped
  <2>2. \A x \in Deliveries :
          x[1] \in Events /\ x[2] \in Nat /\ tries[x[1]] \in Nat /\ tries'[x[1]] \in Nat
    BY <2>1, DeliveryParts DEF TypeOK
  <2>3. tries'[e] = tries[e] + 1 /\ \A f \in Events : f # e => tries'[f] = tries[f]
    BY <2>1 DEF TypeOK
  <2> QED BY <2>1, <2>2, <2>3
<1>4. ASSUME NEW e \in Events, Count(e) PROVE ToldInv'
  <2>1. PICK d \in Deliveries :
          /\ Receive(e, d, IF First(Key(d)) THEN "first" ELSE "later")
          /\ counted' = [counted EXCEPT ![Key(d)] = @ \cup {d}]
          /\ UNCHANGED <<taken, told>>
    BY <1>4 DEF Count
  <2>2. /\ d[2] > tries[d[1]]
        /\ \A x \in Deliveries : x[2] > tries'[x[1]] => x[2] > tries[x[1]] /\ x # d
    BY <1>3, <2>1
  <2>3. \A k \in Keys : counted'[k] = IF k = Key(d) THEN counted[k] \cup {d} ELSE counted[k]
    BY <2>1 DEF TypeOK
  <2>4. \A b \in taken \cup told : d \notin b
    BY <2>2 DEF ToldInv, NewAreUntold
  <2>5. ToldOnce'
    BY <2>1, <2>3, <2>4 DEF ToldInv, ToldOnce
  <2>6. CountedAtHome'
    BY <2>3 DEF ToldInv, CountedAtHome, Of
  <2>7. NewAreUntold'
    BY <2>1, <2>2, <2>3 DEF ToldInv, NewAreUntold
  <2> QED BY <2>5, <2>6, <2>7 DEF ToldInv
<1>5. ASSUME NEW e \in Events, SendAtOnce(e) PROVE ToldInv'
  <2>1. PICK d \in Deliveries :
          /\ Receive(e, d, "storing")
          /\ taken' = taken \cup {{d}}
          /\ UNCHANGED <<counted, told>>
    BY <1>5 DEF SendAtOnce
  <2>2. /\ d[2] > tries[d[1]]
        /\ \A x \in Deliveries : x[2] > tries'[x[1]] => x[2] > tries[x[1]] /\ x # d
    BY <1>3, <2>1
  <2>3. (\A b \in taken \cup told : d \notin b) /\ (\A k \in Keys : d \notin counted[k])
    BY <2>2 DEF ToldInv, NewAreUntold
  <2>4. ToldOnce'
    <3>1. d \in {d} /\ \A b \in taken \cup told : b \cap {d} = {} /\ {d} \cap b = {}
      BY <2>3
    <3>2. {d} \notin told
      BY <3>1
    <3>3. taken' \cup told' = (taken \cup told) \cup {{d}}
      BY <2>1
    <3>4. ASSUME NEW b \in taken' \cup told', NEW c \in taken' \cup told'
          PROVE  b = c \/ b \cap c = {}
      <4>1. CASE b = {d}
        BY <4>1, <3>1, <3>3
      <4>2. CASE c = {d}
        BY <4>2, <3>1, <3>3
      <4>3. CASE b \in taken \cup told /\ c \in taken \cup told
        BY <4>3 DEF ToldInv, ToldOnce
      <4>4. b = {d} \/ b \in taken \cup told
        BY <3>3
      <4>5. c = {d} \/ c \in taken \cup told
        BY <3>3
      <4> QED BY <4>1, <4>2, <4>3, <4>4, <4>5
    <3>5. taken' \cap told' = {}
      <4>1. taken' = taken \cup {{d}} /\ told' = told
        BY <2>1
      <4>2. taken \cap told = {}
        BY DEF ToldInv, ToldOnce
      <4> QED BY <3>2, <4>1, <4>2, Zenon
    <3>6. \A k \in Keys, b \in taken' \cup told' : counted'[k] \cap b = {}
      BY <2>1, <2>3, <3>3 DEF ToldInv, ToldOnce
    <3> QED BY <3>4, <3>5, <3>6 DEF ToldOnce
  <2>5. CountedAtHome'
    BY <2>1 DEF ToldInv, CountedAtHome, Of
  <2>6. NewAreUntold'
    BY <2>1, <2>2 DEF ToldInv, NewAreUntold
  <2> QED BY <2>4, <2>5, <2>6 DEF ToldInv
<1>6. ASSUME NEW d \in Deliveries, Name(d) \/ Kick(d) \/ Fail(d) PROVE ToldInv'
  BY <1>1, <1>6 DEF Name, Kick, Fail, Settle
<1>7. ASSUME NEW b \in taken, Store(b) PROVE ToldInv'
  <2>1. UNCHANGED <<tries, counted>>
    BY <1>7 DEF Store, Settle
  <2>2. taken' = taken \ {b} /\ told' \in {told, told \cup {b}}
    BY <1>7 DEF Store
  <2>3. taken' \cup told' \subseteq taken \cup told /\ taken' \cap told' = {}
    BY <2>2 DEF ToldInv, ToldOnce
  <2> QED BY <2>1, <2>3, ShrinksTold DEF Shrinks
<1>8. ASSUME NEW k \in Keys, Flush(k) PROVE ToldInv'
  <2>1. /\ UNCHANGED <<tries, told>>
        /\ \A j \in Keys : counted'[j] = IF j = k THEN {} ELSE counted[j]
    BY <1>8 DEF Flush, Forget, TypeOK
  <2>2. CASE taken' = taken
    BY <2>1, <2>2, ShrinksTold DEF Shrinks, ToldInv, ToldOnce
  <2>3. CASE taken' = taken \cup {counted[k]} /\ counted[k] # {}
    <3>1. \A b \in taken \cup told : counted[k] \cap b = {}
      BY DEF ToldInv, ToldOnce
    <3>2. \A j \in Keys : j # k => counted[j] \cap counted[k] = {}
      BY DEF ToldInv, CountedAtHome, Of
    <3>3. counted[k] \notin told
      BY <2>3, <3>1
    <3>4. ToldOnce'
      <4>1. \A b, c \in taken' \cup told' : b = c \/ b \cap c = {}
        BY <2>1, <2>3, <3>1 DEF ToldInv, ToldOnce
      <4>2. taken' \cap told' = {}
        BY <2>1, <2>3, <3>3 DEF ToldInv, ToldOnce
      <4>3. \A j \in Keys, b \in taken' \cup told' : counted'[j] \cap b = {}
        BY <2>1, <2>3, <3>2 DEF ToldInv, ToldOnce
      <4> QED BY <4>1, <4>2, <4>3 DEF ToldOnce
    <3>5. CountedAtHome'
      BY <2>1 DEF ToldInv, CountedAtHome, Of
    <3>6. NewAreUntold'
      BY <2>1, <2>3 DEF ToldInv, NewAreUntold
    <3> QED BY <3>4, <3>5, <3>6 DEF ToldInv
  <2> QED BY <1>8, <2>2, <2>3 DEF Flush
<1>9. ASSUME NEW k \in Keys, LoseTask(k) PROVE ToldInv'
  BY <1>1, <1>9 DEF LoseTask
<1>10. ASSUME NEW k \in Keys, Expire(k) PROVE ToldInv'
  <2>1. /\ UNCHANGED <<tries, taken, told>>
        /\ \A j \in Keys : counted'[j] \subseteq counted[j]
    BY <1>10 DEF Expire, Forget, TypeOK
  <2> QED BY <2>1, ShrinksTold DEF Shrinks, ToldInv, ToldOnce
<1>11. CASE Crash
  <2>1. UNCHANGED <<tries, counted, told>> /\ taken' \subseteq taken
    BY <1>11 DEF Crash
  <2> QED BY <2>1, ShrinksTold DEF Shrinks, ToldInv, ToldOnce
<1>12. CASE UNCHANGED vars
  BY <1>1, <1>12 DEF vars
<1> QED BY <1>2, <1>4, <1>5, <1>6, <1>7, <1>8, <1>9, <1>10, <1>11, <1>12 DEF Next

(* No delivery is told twice (the task reads and deletes the hash in one      *)
(* transaction, a bulk event is never counted).                               *)
THEOREM DeliveriesToldOnce == Spec => []ToldOnce
<1>1. Init => TypeOK /\ ToldInv
  <2> SUFFICES ASSUME Init PROVE ToldInv
    BY TypeInit
  <2> QED BY DEF Init, ToldInv, ToldOnce, CountedAtHome, NewAreUntold, Of
<1>2. ToldInv => ToldOnce
  BY DEF ToldInv
<1> QED BY <1>1, <1>2, TypeStep, ToldStep, PTL DEF Spec

=============================================================================
