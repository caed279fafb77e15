--------------------------- MODULE Notifications ---------------------------
(* Followers are told of tracks in bundles: the worker counts events in a     *)
(* Redis hash, and the first count schedules the task that turns the hash     *)
(* into one notification (notifications_engine.py, tasks/notifications.py).   *)
(* The worker is one process whose Redis calls do not await, so two handlers  *)
(* interleave only where a task is scheduled or a row stored; tasks run in    *)
(* other processes and interleave anywhere. Time is left out: a hash may      *)
(* expire, and a scheduled task may run, at any moment.                       *)
EXTENDS Naturals

CONSTANTS
    Events,        \* additions and removals in public playlists
    Bulk,          \* those of several tracks, which are told at once
    Keys,          \* stack_event:<playlist>:<kind of event>
    KeyOf,         \* the key an event is counted under
    MaxDeliveries  \* bound: how often the broker delivers one event

ASSUME NotificationsAssumption ==
    Bulk \subseteq Events /\ KeyOf \in [Events -> Keys] /\ MaxDeliveries \in Nat

VARIABLES
    queue, tries,  \* internal.playlist.notifications: each event, its deliveries
    at,            \* where the handler of each delivery is
    counted,       \* per key, the deliveries its counter stands for
    named,         \* keys whose hash holds the names
    due,           \* per key, the tasks that were scheduled and have not run
    taken,         \* bundles on their way into the table
    told,          \* rows of notification_events: the bundles they count
    unkicked,      \* history: keys whose counter has lost its task
    late           \* history: keys that expired before their task ran

worker == <<queue, tries, at>>
hash == <<counted, named>>
history == <<unkicked, late>>
vars == <<worker, hash, due, taken, told, history>>

Deliveries == Events \X (1 .. MaxDeliveries)
Key(d) == KeyOf[d[1]]
Of(k) == {d \in Deliveries : Key(d) = k}
Kicker(d) == at[d] \in {"first", "kicking"}       \* it has a task to schedule
Kickers(k) == {d \in Of(k) : Kicker(d)}

Init ==
    /\ queue = [e \in Events |-> "unsent"] /\ tries = [e \in Events |-> 0]
    /\ at = [d \in Deliveries |-> "none"]
    /\ counted = [k \in Keys |-> {}] /\ named = {} /\ due = [k \in Keys |-> 0]
    /\ taken = {} /\ told = {} /\ unkicked = {} /\ late = {}

(* A route or the order worker publishes the event.                           *)
Publish(e) ==
    /\ queue[e] = "unsent" /\ queue' = [queue EXCEPT ![e] = "ready"]
    /\ UNCHANGED <<tries, at, hash, due, taken, told, history>>

(* A handler starts, unless another one is between two calls to Redis.        *)
Receive(e, d, place) ==
    /\ queue[e] = "ready" /\ tries[e] < MaxDeliveries /\ d = <<e, tries[e] + 1>>
    /\ \A x \in Deliveries : at[x] \notin {"first", "later"}
    /\ queue' = [queue EXCEPT ![e] = "taken"] /\ tries' = [tries EXCEPT ![e] = @ + 1]
    /\ at' = [at EXCEPT ![d] = place]

(* Faulty variant of First: a hash is new when it has no field at all.        *)
FirstOfHash(k) == counted[k] = {} /\ k \notin named

(* hincrby answers 1: the hash held no counter, names or not.                 *)
First(k) == counted[k] = {}

(* add_event: hincrby.                                                        *)
Count(e) == \E d \in Deliveries :
    LET k == Key(d) IN
    /\ e \notin Bulk /\ Receive(e, d, IF First(k) THEN "first" ELSE "later")
    /\ counted' = [counted EXCEPT ![k] = @ \cup {d}]
    /\ unkicked' = IF First(k) THEN unkicked \ {k} ELSE unkicked
    /\ UNCHANGED <<named, due, taken, told, late>>

(* The handler returns or raises: acknowledged or rejected without requeue,   *)
(* unless the message has gone back to the queue.                             *)
Settle(d) ==
    /\ at' = [at EXCEPT ![d] = "done"]
    /\ queue' = IF tries[d[1]] = d[2] /\ queue[d[1]] = "taken"
                THEN [queue EXCEPT ![d[1]] = "done"] ELSE queue
    /\ UNCHANGED tries

(* Faulty variant of Name: every count schedules a task.                      *)
NameAndKick(d) ==
    /\ at[d] \in {"first", "later"} /\ named' = named \cup {Key(d)}
    /\ at' = [at EXCEPT ![d] = "kicking"]
    /\ UNCHANGED <<queue, tries, counted, due, taken, told, history>>

(* hset and expire; who counted first goes on to schedule the task.           *)
Name(d) ==
    /\ at[d] \in {"first", "later"} /\ named' = named \cup {Key(d)}
    /\ IF at[d] = "first"
       THEN at' = [at EXCEPT ![d] = "kicking"] /\ UNCHANGED <<queue, tries>>
       ELSE Settle(d)
    /\ UNCHANGED <<counted, due, taken, told, history>>

(* delay_kick.                                                                *)
Kick(d) ==
    /\ at[d] = "kicking" /\ due' = [due EXCEPT ![Key(d)] = @ + 1] /\ Settle(d)
    /\ UNCHANGED <<hash, taken, told, history>>

(* A call to Redis raises.                                                    *)
Fail(d) ==
    /\ at[d] \in {"first", "later", "kicking"} /\ Settle(d)
    /\ unkicked' = IF Kicker(d) THEN unkicked \cup {Key(d)} ELSE unkicked
    /\ UNCHANGED <<hash, due, taken, told, late>>

(* send_event: a bulk event is a notification of its own, names and all.      *)
SendAtOnce(e) == \E d \in Deliveries :
    /\ e \in Bulk /\ Receive(e, d, "storing") /\ taken' = taken \cup {{d}}
    /\ UNCHANGED <<hash, due, told, history>>

(* The worker dies; its messages are delivered again, up to the bound.        *)
Crash ==
    LET ds == {d \in Deliveries : at[d] \notin {"none", "done"}} IN
    /\ ds # {} /\ at' = [d \in Deliveries |-> IF d \in ds THEN "done" ELSE at[d]]
    /\ queue' = [e \in Events |-> IF queue[e] = "taken" THEN "ready" ELSE queue[e]]
    /\ unkicked' = unkicked \cup {k \in Keys : Kickers(k) # {}}
    /\ taken' = {b \in taken : \A d \in b : at[d] # "storing"}
    /\ UNCHANGED <<tries, hash, due, told, late>>

(* Only the connection is lost: the message comes again while the handler     *)
(* waits for its task to be scheduled or its row to be stored.                *)
LoseConnection(e) ==
    /\ queue[e] = "taken" /\ tries[e] < MaxDeliveries
    /\ queue' = [queue EXCEPT ![e] = "ready"]
    /\ UNCHANGED <<tries, at, hash, due, taken, told, history>>

(* Faulty variants: a task runs though none is due; the counter is left.      *)
RunAgain(k) == counted[k] # {} /\ due' = [due EXCEPT ![k] = @ - 1]
ForgetNames(k) == named' = named \ {k} /\ UNCHANGED counted

(* A task that was scheduled runs once. Taskiq's scheduler starts a task and  *)
(* then deletes its schedule; that it dies between the two is left out.       *)
Run(k) == due[k] > 0 /\ due' = [due EXCEPT ![k] = @ - 1]
Forget(k) == counted' = [counted EXCEPT ![k] = {}] /\ named' = named \ {k}

(* notifications.event.collapse: the hash is read and deleted in one          *)
(* transaction; without counter or names the payload is refused, and what was *)
(* counted is lost.                                                           *)
Flush(k) ==
    /\ Run(k) /\ Forget(k)
    /\ taken' = IF counted[k] # {} /\ k \in named THEN taken \cup {counted[k]} ELSE taken
    /\ UNCHANGED <<worker, told, history>>

(* create_event_notification commits or fails; the handler of a bulk event    *)
(* ends with it.                                                              *)
Store(b) ==
    /\ b \in taken /\ taken' = taken \ {b} /\ told' \in {told, told \cup {b}}
    /\ \/ \E d \in b : at[d] = "storing" /\ Settle(d)
       \/ (\A d \in b : at[d] # "storing") /\ UNCHANGED worker
    /\ UNCHANGED <<hash, due, history>>

(* A process that popped the task from its Redis list dies with it.           *)
LoseTask(k) ==
    /\ Run(k) /\ unkicked' = unkicked \cup {k}
    /\ UNCHANGED <<worker, hash, taken, told, late>>

(* Two minutes without an event that renewed the hash.                        *)
Expire(k) ==
    /\ counted[k] # {} \/ k \in named
    /\ Forget(k)
    /\ late' = IF due[k] > 0 \/ Kickers(k) # {} THEN late \cup {k} ELSE late
    /\ UNCHANGED <<worker, due, taken, told, unkicked>>

Next ==
    \/ \E e \in Events : Publish(e) \/ Count(e) \/ SendAtOnce(e) \/ LoseConnection(e)
    \/ \E d \in Deliveries : Name(d) \/ Kick(d) \/ Fail(d)
    \/ \E b \in taken : Store(b)
    \/ \E k \in Keys : Flush(k) \/ LoseTask(k) \/ Expire(k)
    \/ Crash

Spec == Init /\ [][Next]_vars

(* The worker goes on with what it has begun, and tasks that are due are run. *)
FairSpec ==
    /\ Spec
    /\ \A d \in Deliveries : WF_vars(Name(d) \/ Kick(d))
    /\ \A k \in Keys : WF_vars(Flush(k))

-----------------------------------------------------------------------------
(* The variables keep their types.                                            *)
TypeOK ==
    /\ queue \in [Events -> {"unsent", "ready", "taken", "done"}]
    /\ tries \in [Events -> 0 .. MaxDeliveries]
    /\ at \in [Deliveries -> {"none", "first", "later", "kicking", "storing", "done"}]
    /\ counted \in [Keys -> SUBSET Deliveries] /\ named \subseteq Keys
    /\ due \in [Keys -> Nat]
    /\ taken \subseteq SUBSET Deliveries /\ told \subseteq SUBSET Deliveries
    /\ unkicked \subseteq Keys /\ late \subseteq Keys

(* Followers are told of no delivery twice, in two notifications or in one    *)
(* and in a counter that is still to be told, whatever flushes, counts,       *)
(* crashes and expiries come between each other's steps.                      *)
ToldOnce ==
    /\ \A b, c \in taken \cup told : b = c \/ b \cap c = {}
    /\ taken \cap told = {}
    /\ \A k \in Keys, b \in taken \cup told : counted[k] \cap b = {}

(* What is counted has a task coming, scheduled or about to be, unless one    *)
(* was lost since the counter began: only the first count schedules one, also *)
(* when a flush comes between a count and its names.                          *)
FlushIsDue ==
    \A k \in Keys : counted[k] # {} /\ k \notin unkicked => due[k] > 0 \/ Kickers(k) # {}

(* A task finds a counter with its names, and nothing is thrown away, as long *)
(* as no hash expired before its task ran: count, names and task are three    *)
(* commands, but the task is not scheduled before all is there, and not twice *)
(* for one counter.                                                           *)
NothingThrownAway ==
    \A k \in Keys \ late : due[k] > 0 => counted[k] # {} /\ k \in named

(* Liveness: what is counted gets into a notification in the end (storing it  *)
(* may still fail), unless its counter has lost its task, and then waits until *)
(* it expires, which every further event puts off, or its hash expired before *)
(* its task ran.                                                              *)
CountedIsFlushed ==
    \A d \in {x \in Deliveries : x[1] \notin Bulk} :
        d \in counted[Key(d)] ~>
            \/ \E b \in taken \cup told : d \in b
            \/ Key(d) \in unkicked \cup late
=============================================================================
