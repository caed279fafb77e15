---------------------------- MODULE DonateStreams ----------------------------
(***************************************************************************)
(* The DonatePay bot: one Centrifuge stream per account, kept in a map     *)
(* (bot_donatepay/src/stream/stream-manager.ts) that the connect commands, *)
(* the disconnect commands, the loading of all users at start-up and the   *)
(* streams' own token errors change.                                       *)
(*                                                                         *)
(* The bot is one Node.js process: a step here is what runs between two    *)
(* awaits.  startStream awaits the connection token between its look at    *)
(* the map and its write to it.  Two callers can be in that await: the     *)
(* consumer of the connect queue, which prefetch(1) keeps to one command   *)
(* at a time, and the loop of syncUsers.  Commands may arrive in any       *)
(* number and order: the queues are the environment's.                     *)
(***************************************************************************)
EXTENDS Naturals, FiniteSets

CONSTANTS
    Accounts,    \* DonatePay accounts (platform_user_id)
    Links,       \* rows of linked_accounts, as the backend lists them
    AccountOf,   \* the account of a link: nothing keeps two users from
                 \* linking the same one
    Donations,
    DonatedTo,   \* the account a donation is made to
    Nobody

ASSUME LinksAssumption ==
    /\ IsFiniteSet(Links)
    /\ AccountOf \in [Links -> Accounts]
    /\ DonatedTo \in [Donations -> Accounts]
    /\ Nobody \notin Accounts

VARIABLES
    process,        \* "down", "up", or "cut": running without its broker
    sync,           \* where syncUsers is
    todo,           \* the links its loop has still to start
    starting,       \* the account each caller of startStream awaits a token for
    activeStreams,  \* the keys of the map
    silent,         \* those whose socket the server has closed for good
    spare,          \* sockets of an account that are open but no longer in the map
    opened,         \* accounts that had a socket since the process started
    died,           \* accounts reported in donatepay.user.token.died
    given,          \* donations made
    orders          \* how many orders each has become

vars == <<process, sync, todo, starting, activeStreams, silent, spare, opened, died, given, orders>>
output == <<died, given, orders>>

Callers == {"sync", "consumer"}
Idle == [s \in Callers |-> Nobody]

-----------------------------------------------------------------------------
LinksOf(a) == {l \in Links : AccountOf[l] = a}

(* Faulty variant of HasStream: the map is not looked at.                  *)
HasStreamBlind(a) == FALSE

HasStream(a) == a \in activeStreams

(* The sockets on which a donation to the account arrives.                 *)
Open(a) == spare[a] + (IF HasStream(a) /\ a \notin silent THEN 1 ELSE 0)

(* stopStream, and what it leaves: a socket outside the map stays open.    *)
StopStream(a) ==
    /\ activeStreams' = activeStreams \ {a}
    /\ silent' = silent \ {a}
    /\ UNCHANGED spare

(* publishTokenDied: nothing is sent without a channel.                    *)
ReportDied(a) == died' = IF process = "up" THEN died \cup {a} ELSE died

Init ==
    /\ process = "down"
    /\ sync = "idle"
    /\ todo = {}
    /\ starting = Idle
    /\ activeStreams = {}
    /\ silent = {}
    /\ spare = [a \in Accounts |-> 0]
    /\ opened = {}
    /\ died = {}
    /\ given = {}
    /\ orders = [d \in Donations |-> 0]

(* start and initRabbitMQ: connected, both queues consumed, users asked.   *)
Boot ==
    /\ process = "down"
    /\ process' = "up"
    /\ sync' = "asking"
    /\ UNCHANGED <<todo, starting, activeStreams, silent, spare, opened, output>>

-----------------------------------------------------------------------------
(* syncUsers.                                                              *)

(* The backend lists the links whose bot_connection is set.                *)
AnswerUsers ==
    /\ process = "up"
    /\ sync = "asking"
    /\ \E ls \in SUBSET Links : todo' = ls
    /\ sync' = "loading"
    /\ UNCHANGED <<process, starting, activeStreams, silent, spare, opened, output>>

(* requestAllUsers timed out for the last time.                            *)
GiveUp ==
    /\ sync = "asking"
    /\ sync' = "done"
    /\ UNCHANGED <<process, todo, starting, activeStreams, silent, spare, opened, output>>

(* The loop awaits startStream for one user after the other.               *)
SyncNext(l) ==
    /\ sync = "loading"
    /\ starting["sync"] = Nobody
    /\ l \in todo
    /\ todo' = todo \ {l}
    /\ starting' = IF HasStream(AccountOf[l])
                     THEN starting
                     ELSE [starting EXCEPT !["sync"] = AccountOf[l]]
    /\ UNCHANGED <<process, sync, activeStreams, silent, spare, opened, output>>

SyncEnd ==
    /\ sync = "loading"
    /\ starting["sync"] = Nobody
    /\ todo = {}
    /\ sync' = "done"
    /\ UNCHANGED <<process, todo, starting, activeStreams, silent, spare, opened, output>>

-----------------------------------------------------------------------------
(* A command on the connect queue: startStream looks at the map and, if    *)
(* the account is not in it, asks for a token.                             *)
Connect(a) ==
    /\ process = "up"
    /\ starting["consumer"] = Nobody
    /\ ~HasStream(a)
    /\ starting' = [starting EXCEPT !["consumer"] = a]
    /\ UNCHANGED <<process, sync, todo, activeStreams, silent, spare, opened, output>>

(* The token is there: the socket is opened and put in the map, in the     *)
(* place of the one another caller has put there meanwhile.                *)
Started(s) ==
    /\ starting[s] # Nobody
    /\ LET a == starting[s] IN
         /\ activeStreams' = activeStreams \cup {a}
         /\ silent' = silent \ {a}
         /\ spare' = IF a \in activeStreams \ silent THEN [spare EXCEPT ![a] = @ + 1] ELSE spare
         /\ opened' = opened \cup {a}
    /\ starting' = [starting EXCEPT ![s] = Nobody]
    /\ UNCHANGED <<process, sync, todo, output>>

(* Faulty variant of StartFailed: the failure ends the loop of syncUsers.  *)
StartFailedEnds(s) ==
    /\ starting[s] # Nobody
    /\ StopStream(starting[s])
    /\ ReportDied(starting[s])
    /\ starting' = [starting EXCEPT ![s] = Nobody]
    /\ IF s = "sync" THEN sync' = "done" /\ todo' = {} ELSE UNCHANGED <<sync, todo>>
    /\ UNCHANGED <<process, opened, given, orders>>

(* There is no token: onTokenError stops whatever stream the account has   *)
(* and reports the token.                                                  *)
StartFailed(s) ==
    /\ starting[s] # Nobody
    /\ StopStream(starting[s])
    /\ ReportDied(starting[s])
    /\ starting' = [starting EXCEPT ![s] = Nobody]
    /\ UNCHANGED <<process, sync, todo, opened, given, orders>>

(* A command on the disconnect queue.                                      *)
Disconnect(a) ==
    /\ process = "up"
    /\ StopStream(a)
    /\ UNCHANGED <<process, sync, todo, starting, opened, output>>

-----------------------------------------------------------------------------
(* What the streams do.                                                    *)

(* A socket of the account is refused a subscription.  The answer may come *)
(* late, for a socket that was stopped: the account's stream of now pays.  *)
TokenError(a) ==
    /\ a \in opened
    /\ StopStream(a)
    /\ ReportDied(a)
    /\ UNCHANGED <<process, sync, todo, starting, opened, given, orders>>

(* The server closes a socket and asks not to reconnect: StreamManager     *)
(* gave the stream no onDisconnected, so the map does not change.          *)
ServerCloses(a) ==
    /\ \/ /\ HasStream(a) /\ a \notin silent
          /\ silent' = silent \cup {a}
          /\ UNCHANGED spare
       \/ /\ spare[a] > 0
          /\ spare' = [spare EXCEPT ![a] = @ - 1]
          /\ UNCHANGED silent
    /\ UNCHANGED <<process, sync, todo, starting, activeStreams, opened, output>>

(* A donation reaches the open sockets of the account, and each publishes  *)
(* an order with a request_id of its own; without a channel the order is   *)
(* dropped.                                                                *)
Donate(d) ==
    /\ d \notin given
    /\ given' = given \cup {d}
    /\ \E n \in 0 .. Open(DonatedTo[d]) :
         orders' = [orders EXCEPT ![d] = IF process = "up" THEN n ELSE 0]
    /\ UNCHANGED <<process, sync, todo, starting, activeStreams, silent, spare, opened, died>>

-----------------------------------------------------------------------------
(* Faulty variant of Crash: the loop of syncUsers outlives the map.        *)
CrashKeepsLoop ==
    /\ process # "down"
    /\ process' = "down"
    /\ sync' = "idle"
    /\ activeStreams' = {}
    /\ silent' = {}
    /\ spare' = [a \in Accounts |-> 0]
    /\ opened' = {}
    /\ UNCHANGED <<todo, starting, output>>

(* The process ends, by a signal or a crash.                               *)
Crash ==
    /\ process # "down"
    /\ process' = "down"
    /\ sync' = "idle"
    /\ todo' = {}
    /\ starting' = Idle
    /\ activeStreams' = {}
    /\ silent' = {}
    /\ spare' = [a \in Accounts |-> 0]
    /\ opened' = {}
    /\ UNCHANGED output

(* The connection to RabbitMQ closes: the client only forgets it.          *)
LoseBroker ==
    /\ process = "up"
    /\ process' = "cut"
    /\ UNCHANGED <<sync, todo, starting, activeStreams, silent, spare, opened, output>>

Loop == AnswerUsers \/ GiveUp \/ SyncEnd \/ \E l \in Links : SyncNext(l)

Next ==
    \/ Boot \/ Loop \/ Crash \/ LoseBroker
    \/ \E a \in Accounts : Connect(a) \/ Disconnect(a) \/ TokenError(a) \/ ServerCloses(a)
    \/ \E s \in Callers : Started(s) \/ StartFailed(s)
    \/ \E d \in Donations : Donate(d)

Spec == Init /\ [][Next]_vars

(* The request for the users times out and so does fetch: an await ends.   *)
FairSpec ==
    /\ Spec
    /\ WF_vars(Loop)
    /\ \A s \in Callers : WF_vars(Started(s) \/ StartFailed(s))

-----------------------------------------------------------------------------
(* Type invariant; a process that is down loads nothing, and only a loop   *)
(* that was answered has links to start.                                   *)
TypeOK ==
    /\ process \in {"down", "up", "cut"}
    /\ sync \in {"idle", "asking", "loading", "done"}
    /\ todo \in SUBSET Links
    /\ starting \in [Callers -> Accounts \cup {Nobody}]
    /\ process = "down" => sync = "idle"
    /\ sync # "loading" => todo = {} /\ starting["sync"] = Nobody
    /\ activeStreams \in SUBSET Accounts
    /\ silent \in SUBSET activeStreams
    /\ spare \in [Accounts -> Nat]
    /\ opened \in SUBSET Accounts
    /\ died \in SUBSET Accounts
    /\ given \in SUBSET Donations
    /\ orders \in [Donations -> Nat]

(* startStream can lose a socket: two callers find no stream and the later *)
(* one overwrites the stream of the earlier in the map.  But a socket is   *)
(* lost only with a start of syncUsers, so that, in any number of          *)
(* commands, a donation becomes at most one order for the map's stream and *)
(* one for every link of the account.                                      *)
OrdersBounded ==
    \A d \in Donations : orders[d] <= 1 + Cardinality(LinksOf(DonatedTo[d]))

(* Whatever the answers of DonatePay and the commands meanwhile, the       *)
(* loading of the users at start-up comes to its end, and unless the       *)
(* process goes down every link that was listed has its turn: its account  *)
(* has a stream, or the loop asks for one.  A token that is refused does   *)
(* not keep the users after it from theirs.                                *)
SyncTriesAll ==
    /\ sync = "asking" ~> sync \in {"done", "idle"}
    /\ \A l \in Links :
         LET a == AccountOf[l] IN
         l \in todo ~> HasStream(a) \/ starting["sync"] = a \/ process = "down"

(* What stream-manager.test.ts says and the code does not do ("prevents    *)
(* starting duplicate stream if already active"): one stream per account.  *)
OneStreamEach == \A a \in Accounts : Open(a) <= 1
=============================================================================
