------------------------- MODULE DonateStreamsProofs -------------------------
(***************************************************************************)
(* Proofs about DonateStreams: how many sockets, and so how many orders    *)
(* for one donation, an account can have.                                  *)
(***************************************************************************)
EXTENDS DonateStreams, FiniteSetTheorems, TLAPS

THEOREM StartType == Init => TypeOK
BY LinksAssumption DEF Init, TypeOK, Idle, Callers

THEOREM NextType == TypeOK /\ [Next]_vars => TypeOK'
<1> SUFFICES ASSUME TypeOK, [Next]_vars PROVE TypeOK'
  OBVIOUS
<1> USE DEF TypeOK
<1>1. CASE Boot
  BY <1>1 DEF Boot, output
<1>2. CASE AnswerUsers \/ GiveUp \/ SyncEnd
  BY <1>2 DEF AnswerUsers, GiveUp, SyncEnd, output
<1>3. ASSUME NEW l \in Links, SyncNext(l) PROVE TypeOK'
  BY <1>3, LinksAssumption DEF SyncNext, output, Callers
<1>4. CASE Crash
  BY <1>4 DEF Crash, Idle, output, Callers
<1>5. CASE LoseBroker
  BY <1>5 DEF LoseBroker, output
<1>6. ASSUME NEW a \in Accounts, Connect(a) PROVE TypeOK'
  BY <1>6 DEF Connect, output, Callers
<1>7. ASSUME NEW a \in Accounts, Disconnect(a) \/ TokenError(a) PROVE TypeOK'
  BY <1>7 DEF Disconnect, TokenError, StopStream, ReportDied, output
<1>8. ASSUME NEW a \in Accounts, ServerCloses(a) PROVE TypeOK'
  <2>1. CASE silent' = silent \cup {a} /\ HasStream(a) /\ UNCHANGED spare
    BY <1>8, <2>1 DEF ServerCloses, HasStream, output
  <2>2. CASE spare[a] > 0 /\ spare' = [spare EXCEPT ![a] = @ - 1] /\ UNCHANGED silent
    <3>1. spare[a] - 1 \in Nat
      BY <2>2
    <3> QED
      BY <1>8, <2>2, <3>1 DEF ServerCloses, output
  <2> QED
    BY <1>8, <2>1, <2>2 DEF ServerCloses
<1>9. ASSUME NEW s \in Callers, Started(s) PROVE TypeOK'
  <2>1. starting[s] \in Accounts
    BY <1>9 DEF Started
  <2> QED
    BY <1>9, <2>1 DEF Started, output, Callers
<1>10. ASSUME NEW s \in Callers, StartFailed(s) PROVE TypeOK'
  <2>1. starting[s] \in Accounts
    BY <1>10 DEF StartFailed
  <2> QED
    BY <1>10, <2>1 DEF StartFailed, StopStream, ReportDied, Callers
<1>11. ASSUME NEW d \in Donations, Donate(d) PROVE TypeOK'
  <2>1. PICK n \in 0 .. Open(DonatedTo[d]) :
          orders' = [orders EXCEPT ![d] = IF process = "up" THEN n ELSE 0]
    BY <1>11 DEF Donate
  <2>2. (IF process = "up" THEN n ELSE 0) \in Nat
    OBVIOUS
  <2> QED
    BY <1>11, <2>1, <2>2 DEF Donate
<1>12. CASE UNCHANGED vars
  BY <1>12 DEF vars
<1> QED
  BY <1>1, <1>2, <1>3, <1>4, <1>5, <1>6, <1>7, <1>8, <1>9, <1>10, <1>11, <1>12
  DEF Next, Loop

(* The variables keep their types; outside its loop syncUsers starts       *)
(* nothing.                                                                *)
THEOREM StreamsTypeCorrect == Spec => []TypeOK
BY StartType, NextType, PTL DEF Spec

-----------------------------------------------------------------------------
(* Every socket that was lost from the map has used up a link: either the  *)
(* start of syncUsers that overwrote a stream, or the one that was         *)
(* overwritten.  The links of an account that the loop has not come to,    *)
(* and the one it is starting, are still to be used.                       *)
Loading(a) == IF starting["sync"] = a THEN 1 ELSE 0
Ahead(a) == Cardinality(todo \cap LinksOf(a)) + Loading(a)

(* A consumer that finds a stream at its return will overwrite it: only    *)
(* syncUsers can have put it there, and its link is not yet used up.       *)
Overwrites(a) == IF starting["consumer"] = a /\ a \in activeStreams THEN 1 ELSE 0

SparePaid ==
    \A a \in Accounts : spare[a] + Ahead(a) + Overwrites(a) <= Cardinality(LinksOf(a))

(* Before the loop nothing is lost and no start is overtaken.              *)
FreshStart ==
    sync \in {"idle", "asking"} =>
        \A a \in Accounts : spare[a] = 0 /\ Overwrites(a) = 0

StreamsInv == TypeOK /\ SparePaid /\ FreshStart /\ OrdersBounded

LEMMA Counts ==
    ASSUME TypeOK, NEW a \in Accounts
    PROVE  /\ IsFiniteSet(LinksOf(a)) /\ Cardinality(LinksOf(a)) \in Nat
           /\ \A ls \in SUBSET Links :
                 /\ IsFiniteSet(ls \cap LinksOf(a))
                 /\ Cardinality(ls \cap LinksOf(a)) \in Nat
                 /\ Cardinality(ls \cap LinksOf(a)) <= Cardinality(LinksOf(a))
           /\ Loading(a) \in {0, 1} /\ Overwrites(a) \in {0, 1}
           /\ spare[a] \in Nat
<1>1. IsFiniteSet(LinksOf(a))
  BY LinksAssumption, FS_Subset DEF LinksOf
<1>2. ASSUME NEW ls \in SUBSET Links
      PROVE  IsFiniteSet(ls \cap LinksOf(a))
             /\ Cardinality(ls \cap LinksOf(a)) <= Cardinality(LinksOf(a))
  BY <1>1, FS_Subset
<1>3. spare[a] \in Nat
  BY DEF TypeOK
<1> QED
  BY <1>1, <1>2, <1>3, FS_CardinalityType DEF Loading, Overwrites

(* A link that the loop comes to is no longer ahead.                       *)
LEMMA LinkTaken ==
    ASSUME TypeOK, NEW l \in todo, NEW a \in Accounts
    PROVE  Cardinality((todo \ {l}) \cap LinksOf(a)) =
             IF AccountOf[l] = a THEN Cardinality(todo \cap LinksOf(a)) - 1
                                 ELSE Cardinality(todo \cap LinksOf(a))
<1>1. todo \in SUBSET Links /\ IsFiniteSet(todo \cap LinksOf(a))
  BY Counts DEF TypeOK
<1>2. CASE AccountOf[l] = a
  <2>1. /\ l \in todo \cap LinksOf(a)
        /\ (todo \ {l}) \cap LinksOf(a) = (todo \cap LinksOf(a)) \ {l}
    BY <1>1, <1>2 DEF LinksOf
  <2> QED
    BY <1>1, <1>2, <2>1, FS_RemoveElement
<1>3. CASE AccountOf[l] # a
  <2>1. (todo \ {l}) \cap LinksOf(a) = todo \cap LinksOf(a)
    BY <1>1, <1>3 DEF LinksOf
  <2> QED
    BY <1>3, <2>1
<1> QED
  BY <1>2, <1>3

(* Nothing that an account owes or has grows: its stream may go.           *)
LEMMA NothingGrows ==
    ASSUME TypeOK, TypeOK', SparePaid, FreshStart, NEW a \in Accounts,
           spare'[a] <= spare[a], todo' = todo,
           starting'["sync"] \in {starting["sync"], Nobody},
           starting'["consumer"] \in {starting["consumer"], Nobody},
           a \in activeStreams' => a \in activeStreams
    PROVE  /\ spare'[a] + Ahead(a)' + Overwrites(a)' <= Cardinality(LinksOf(a))
           /\ sync \in {"idle", "asking"} => spare'[a] = 0 /\ Overwrites(a)' = 0
<1>1. Loading(a)' <= Loading(a) /\ Overwrites(a)' <= Overwrites(a)
  BY LinksAssumption DEF Loading, Overwrites
<1>2. /\ Loading(a) \in {0, 1} /\ Loading(a)' \in {0, 1}
      /\ Overwrites(a) \in {0, 1} /\ Overwrites(a)' \in {0, 1}
      /\ spare[a] \in Nat /\ spare'[a] \in Nat
      /\ Cardinality(todo \cap LinksOf(a)) \in Nat
      /\ Cardinality(LinksOf(a)) \in Nat
  BY Counts DEF TypeOK, Loading, Overwrites
<1>3. Ahead(a)' = Cardinality(todo \cap LinksOf(a)) + Loading(a)'
  BY DEF Ahead, LinksOf
<1>4. /\ spare[a] + (Cardinality(todo \cap LinksOf(a)) + Loading(a)) + Overwrites(a)
           <= Cardinality(LinksOf(a))
      /\ sync \in {"idle", "asking"} => spare[a] = 0 /\ Overwrites(a) = 0
  BY DEF SparePaid, FreshStart, Ahead
<1> QED
  BY <1>1, <1>2, <1>3, <1>4

(* What one caller of startStream leaves of the balance of an account.     *)
LEMMA StartedPays ==
    ASSUME TypeOK, TypeOK', SparePaid, FreshStart,
           NEW s \in Callers, Started(s), NEW a \in Accounts
    PROVE  /\ spare'[a] + Ahead(a)' + Overwrites(a)' <= Cardinality(LinksOf(a))
           /\ sync' \in {"idle", "asking"} => spare'[a] = 0 /\ Overwrites(a)' = 0
<1> DEFINE left == Cardinality(todo \cap LinksOf(a))
<1>1. /\ Loading(a) \in {0, 1} /\ Overwrites(a) \in {0, 1}
      /\ spare[a] \in Nat /\ left \in Nat /\ Cardinality(LinksOf(a)) \in Nat
  BY Counts DEF TypeOK
<1>2. /\ spare[a] + (left + Loading(a)) + Overwrites(a) <= Cardinality(LinksOf(a))
      /\ sync \in {"idle", "asking"} => spare[a] = 0 /\ Overwrites(a) = 0
  BY DEF SparePaid, FreshStart, Ahead
<1>3. Ahead(a)' = left + Loading(a)' /\ sync' = sync
  BY DEF Started, Ahead, LinksOf
<1> HIDE DEF left
<1>4. CASE starting[s] # a
  <2>1. spare'[a] = spare[a]
    BY <1>4 DEF Started, TypeOK
  <2>2. a \in activeStreams' <=> a \in activeStreams
    BY <1>4 DEF Started
  <2>3. Loading(a)' = Loading(a) /\ Overwrites(a)' = Overwrites(a)
    BY <1>4, <2>2, LinksAssumption DEF Started, Loading, Overwrites, TypeOK, Callers
  <2> QED
    BY <1>1, <1>2, <1>3, <2>1, <2>3
<1>5. CASE starting[s] = a /\ s = "sync"
  (* The link is used up, by a socket that is lost or for one that a       *)
  (* waiting consumer will lose.                                           *)
  <2>1. Loading(a) = 1 /\ Loading(a)' = 0
    BY <1>5, LinksAssumption DEF Started, Loading, TypeOK, Callers
  <2>2. CASE a \in activeStreams
    <3>1. spare'[a] <= spare[a] + 1 /\ spare'[a] \in Nat
      BY <1>1, <1>5 DEF Started, TypeOK
    <3>2. Overwrites(a)' = Overwrites(a)
      BY <1>5, <2>2 DEF Started, Overwrites, TypeOK, Callers
    <3>3. sync = "loading"
      BY <1>5, LinksAssumption DEF TypeOK
    <3> QED
      BY <1>1, <1>2, <1>3, <2>1, <3>1, <3>2, <3>3
  <2>3. CASE a \notin activeStreams
    <3>1. spare'[a] = spare[a]
      BY <1>5, <2>3 DEF Started
    <3>2. Overwrites(a) = 0 /\ Overwrites(a)' \in {0, 1}
      BY <2>3 DEF Overwrites
    <3>3. sync = "loading"
      BY <1>5, LinksAssumption DEF TypeOK
    <3> QED
      BY <1>1, <1>2, <1>3, <2>1, <3>1, <3>2, <3>3
  <2> QED
    BY <2>2, <2>3
<1>6. CASE starting[s] = a /\ s = "consumer"
  <2>1. Loading(a)' = Loading(a) /\ Overwrites(a)' = 0
    BY <1>6, LinksAssumption DEF Started, Loading, Overwrites, TypeOK, Callers
  <2>2. spare'[a] <= spare[a] + Overwrites(a) /\ spare'[a] \in Nat
    BY <1>1, <1>6 DEF Started, Overwrites, TypeOK
  <2> QED
    BY <1>1, <1>2, <1>3, <2>1, <2>2
<1> QED
  BY <1>4, <1>5, <1>6 DEF Callers

(* Steps that pass over nothing but the state of the loop.                 *)
LEMMA LoopPays ==
    ASSUME TypeOK, TypeOK', SparePaid, FreshStart, Loop, NEW a \in Accounts
    PROVE  /\ spare'[a] + Ahead(a)' + Overwrites(a)' <= Cardinality(LinksOf(a))
           /\ sync' \in {"idle", "asking"} => spare'[a] = 0 /\ Overwrites(a)' = 0
<1>1. /\ Loading(a) \in {0, 1} /\ Loading(a)' \in {0, 1} /\ Overwrites(a) \in {0, 1}
      /\ spare[a] \in Nat /\ Cardinality(LinksOf(a)) \in Nat
      /\ \A ls \in SUBSET Links :
            /\ Cardinality(ls \cap LinksOf(a)) \in Nat
            /\ Cardinality(ls \cap LinksOf(a)) <= Cardinality(LinksOf(a))
  BY Counts DEF TypeOK, Loading
<1>2. /\ spare[a] + (Cardinality(todo \cap LinksOf(a)) + Loading(a)) + Overwrites(a)
           <= Cardinality(LinksOf(a))
      /\ sync \in {"idle", "asking"} => spare[a] = 0 /\ Overwrites(a) = 0
  BY DEF SparePaid, FreshStart, Ahead
<1>3. Ahead(a)' = Cardinality(todo' \cap LinksOf(a)) + Loading(a)'
  BY DEF Ahead, LinksOf
<1>4. CASE AnswerUsers
  <2>1. /\ spare' = spare /\ sync = "asking" /\ sync' = "loading"
        /\ todo' \in SUBSET Links /\ starting' = starting /\ activeStreams' = activeStreams
    BY <1>4 DEF AnswerUsers
  <2>2. Loading(a)' = 0 /\ Overwrites(a)' = Overwrites(a)
    BY <2>1, LinksAssumption DEF TypeOK, Loading, Overwrites
  <2> QED
    BY <1>1, <1>2, <1>3, <2>1, <2>2
<1>5. CASE GiveUp \/ SyncEnd
  <2>1. /\ spare' = spare /\ sync' = "done" /\ todo' = todo
        /\ starting' = starting /\ activeStreams' = activeStreams
    BY <1>5 DEF GiveUp, SyncEnd
  <2>2. Loading(a)' = Loading(a) /\ Overwrites(a)' = Overwrites(a)
    BY <2>1 DEF Loading, Overwrites
  <2> QED
    BY <1>1, <1>2, <1>3, <2>1, <2>2
<1>6. ASSUME NEW l \in Links, SyncNext(l)
      PROVE  /\ spare'[a] + Ahead(a)' + Overwrites(a)' <= Cardinality(LinksOf(a))
             /\ sync' \in {"idle", "asking"} => spare'[a] = 0 /\ Overwrites(a)' = 0
  <2>1. /\ l \in todo /\ todo' = todo \ {l} /\ spare' = spare
        /\ sync' = "loading" /\ activeStreams' = activeStreams
        /\ starting["sync"] = Nobody
        /\ starting' = starting \/ starting' = [starting EXCEPT !["sync"] = AccountOf[l]]
    BY <1>6 DEF SyncNext
  <2>2. /\ starting'["consumer"] = starting["consumer"]
        /\ starting'["sync"] \in {Nobody, AccountOf[l]}
    BY <2>1 DEF TypeOK, Callers
  <2>3. /\ Overwrites(a)' = Overwrites(a) /\ Loading(a) = 0
        /\ AccountOf[l] # a => Loading(a)' = 0
    BY <2>1, <2>2, LinksAssumption DEF Overwrites, Loading
  <2>4. Cardinality(todo' \cap LinksOf(a)) =
          IF AccountOf[l] = a THEN Cardinality(todo \cap LinksOf(a)) - 1
                              ELSE Cardinality(todo \cap LinksOf(a))
    BY <2>1, LinkTaken
  <2>5. Cardinality(todo \cap LinksOf(a)) \in Nat
    BY <1>1 DEF TypeOK
  <2> QED
    BY <1>1, <1>2, <1>3, <2>1, <2>3, <2>4, <2>5
<1> QED
  BY <1>4, <1>5, <1>6 DEF Loop

LEMMA SpareNext == TypeOK /\ SparePaid /\ FreshStart /\ [Next]_vars => SparePaid' /\ FreshStart'
<1> SUFFICES ASSUME TypeOK, SparePaid, FreshStart, [Next]_vars, NEW a \in Accounts
             PROVE  /\ spare'[a] + Ahead(a)' + Overwrites(a)' <= Cardinality(LinksOf(a))
                    /\ sync' \in {"idle", "asking"} => spare'[a] = 0 /\ Overwrites(a)' = 0
  BY DEF SparePaid, FreshStart, LinksOf
<1>t. TypeOK'
  BY NextType
<1>1. CASE Loop
  BY <1>t, <1>1, LoopPays
<1>2. ASSUME NEW s \in Callers, Started(s)
      PROVE  /\ spare'[a] + Ahead(a)' + Overwrites(a)' <= Cardinality(LinksOf(a))
             /\ sync' \in {"idle", "asking"} => spare'[a] = 0 /\ Overwrites(a)' = 0
  BY <1>t, <1>2, StartedPays
<1>3. ASSUME NEW b \in Accounts, Connect(b)
      PROVE  /\ spare'[a] + Ahead(a)' + Overwrites(a)' <= Cardinality(LinksOf(a))
             /\ sync' \in {"idle", "asking"} => spare'[a] = 0 /\ Overwrites(a)' = 0
  <2>1. /\ Overwrites(a)' = Overwrites(a) /\ Loading(a)' = Loading(a)
        /\ spare' = spare /\ sync' = sync /\ todo' = todo
    BY <1>3, LinksAssumption DEF Connect, HasStream, Overwrites, Loading, TypeOK, Callers
  <2>2. Ahead(a)' = Ahead(a)
    BY <2>1 DEF Ahead, LinksOf
  <2> QED
    BY <2>1, <2>2 DEF SparePaid, FreshStart
<1>4. CASE Boot
  <2>1. /\ sync = "idle" /\ spare' = spare /\ todo' = todo
        /\ Overwrites(a)' = Overwrites(a) /\ Loading(a)' = Loading(a)
    BY <1>4 DEF Boot, TypeOK, Overwrites, Loading
  <2>2. Ahead(a)' = Ahead(a)
    BY <2>1 DEF Ahead, LinksOf
  <2> QED
    BY <2>1, <2>2 DEF SparePaid, FreshStart
<1>5. CASE Crash
  <2>1. spare'[a] = 0 /\ todo' = {} /\ Loading(a)' = 0 /\ Overwrites(a)' = 0
    BY <1>5, LinksAssumption DEF Crash, Idle, Loading, Overwrites, Callers
  <2>2. Ahead(a)' = 0
    BY <2>1, FS_EmptySet DEF Ahead, LinksOf
  <2> QED
    BY <2>1, <2>2, Counts
<1> DEFINE Stays == /\ spare'[a] <= spare[a] /\ todo' = todo /\ sync' = sync
                    /\ starting'["sync"] \in {starting["sync"], Nobody}
                    /\ starting'["consumer"] \in {starting["consumer"], Nobody}
                    /\ a \in activeStreams' => a \in activeStreams
<1>6. Stays => /\ spare'[a] + Ahead(a)' + Overwrites(a)' <= Cardinality(LinksOf(a))
               /\ sync' \in {"idle", "asking"} => spare'[a] = 0 /\ Overwrites(a)' = 0
  BY <1>t, NothingGrows
<1>0. spare[a] \in Nat /\ spare[a] <= spare[a]
  BY DEF TypeOK
<1>7. ASSUME NEW s \in Callers, StartFailed(s) PROVE Stays
  BY <1>0, <1>7 DEF StartFailed, StopStream, TypeOK, Callers
<1>8. ASSUME NEW b \in Accounts, Disconnect(b) \/ TokenError(b) PROVE Stays
  BY <1>0, <1>8 DEF Disconnect, TokenError, StopStream
<1>9. ASSUME NEW b \in Accounts, ServerCloses(b) PROVE Stays
  <2>1. spare'[a] <= spare[a]
    BY <1>0, <1>9 DEF ServerCloses, TypeOK
  <2> QED
    BY <1>9, <2>1 DEF ServerCloses
<1>10. ASSUME LoseBroker \/ (\E d \in Donations : Donate(d)) \/ UNCHANGED vars PROVE Stays
  BY <1>0, <1>10 DEF LoseBroker, Donate, vars
<1> HIDE DEF Stays
<1> QED
  BY <1>1, <1>2, <1>3, <1>4, <1>5, <1>6, <1>7, <1>8, <1>9, <1>10 DEF Next

-----------------------------------------------------------------------------
LEMMA InvInit == Init => StreamsInv
<1> SUFFICES ASSUME Init PROVE StreamsInv
  OBVIOUS
<1>1. TypeOK
  BY StartType
<1>2. ASSUME NEW a \in Accounts
      PROVE  spare[a] + Ahead(a) + Overwrites(a) <= Cardinality(LinksOf(a))
             /\ spare[a] = 0 /\ Overwrites(a) = 0
  <2>1. spare[a] = 0 /\ Loading(a) = 0 /\ Overwrites(a) = 0 /\ todo \cap LinksOf(a) = {}
    BY LinksAssumption DEF Init, Idle, Callers, Loading, Overwrites
  <2>2. Ahead(a) = 0
    BY <2>1, FS_EmptySet DEF Ahead
  <2> QED
    BY <1>1, <2>1, <2>2, Counts
<1>3. OrdersBounded
  <2> SUFFICES ASSUME NEW d \in Donations
               PROVE  orders[d] <= 1 + Cardinality(LinksOf(DonatedTo[d]))
    BY DEF OrdersBounded
  <2>1. Cardinality(LinksOf(DonatedTo[d])) \in Nat /\ orders[d] = 0
    BY <1>1, Counts, LinksAssumption DEF Init
  <2> QED
    BY <2>1
<1> QED
  BY <1>1, <1>2, <1>3 DEF StreamsInv, SparePaid, FreshStart

LEMMA OrdersNext == TypeOK /\ SparePaid /\ OrdersBounded /\ [Next]_vars => OrdersBounded'
<1> SUFFICES ASSUME TypeOK, SparePaid, OrdersBounded, [Next]_vars, NEW d \in Donations
             PROVE  orders'[d] <= 1 + Cardinality(LinksOf(DonatedTo[d]))
  BY DEF OrdersBounded, LinksOf
<1> DEFINE a == DonatedTo[d]
<1>1. a \in Accounts
  BY LinksAssumption
<1>2. CASE Donate(d)
  <2>1. PICK n \in 0 .. Open(a) : orders'[d] = IF process = "up" THEN n ELSE 0
    BY <1>2 DEF Donate, TypeOK
  <2>2. /\ spare[a] \in Nat /\ Cardinality(LinksOf(a)) \in Nat
        /\ Cardinality(todo \cap LinksOf(a)) \in Nat
        /\ Loading(a) \in {0, 1} /\ Overwrites(a) \in {0, 1}
    BY <1>1, Counts DEF TypeOK
  <2>3. spare[a] <= Cardinality(LinksOf(a))
    BY <1>1, <2>2 DEF SparePaid, Ahead
  <2>4. Open(a) \in Nat /\ Open(a) <= 1 + Cardinality(LinksOf(a))
    BY <2>2, <2>3 DEF Open
  <2> QED
    BY <2>1, <2>2, <2>4
<1>3. CASE orders'[d] = orders[d]
  BY <1>3 DEF OrdersBounded
<1>4. CASE \E e \in Donations : e # d /\ Donate(e)
  BY <1>3, <1>4 DEF Donate, TypeOK
<1> QED
  BY <1>2, <1>3, <1>4
  DEF Next, Loop, Boot, AnswerUsers, GiveUp, SyncEnd, SyncNext, Crash, LoseBroker, Connect,
      Disconnect, TokenError, ServerCloses, Started, StartFailed, output, vars

(* However many commands and failures there are, a donation becomes at     *)
(* most one order for the map's stream and one for every link.             *)
THEOREM OrdersAreBounded == Spec => []OrdersBounded
<1>1. StreamsInv /\ [Next]_vars => StreamsInv'
  BY NextType, SpareNext, OrdersNext DEF StreamsInv
<1>2. StreamsInv => OrdersBounded
  BY DEF StreamsInv
<1> QED
  BY InvInit, <1>1, <1>2, PTL DEF Spec
=============================================================================
