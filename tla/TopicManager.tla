---------------------------- MODULE TopicManager ----------------------------
(***************************************************************************)
(* The processes of one topic, around its routing table.  Every process    *)
(* watches the key and reconciles its connections with the edges that      *)
(* concern it (core/topic_manager.rs); a connection is a task that dials   *)
(* or accepts a WebRTC channel (core/network/webrtc.rs); the signaling     *)
(* server cleans a node out of the table when it has no client any more.   *)
(*                                                                         *)
(* The calls on the table are the atomic steps of TopicTree, which         *)
(* RoutingCas implements.  The clients of the signaling server are those   *)
(* of Signaling, reduced to who has one.  The exchange of offers through   *)
(* it, which is in Handshake, is reduced to what it can come to: Connect,  *)
(* DialFails and DialHangs.                                                *)
(***************************************************************************)
EXTENDS RoutingTable

CONSTANTS
    \* What each node is configured as: "publisher", "proxy" or "subscriber".
    Role,
    \* The processes that run already, connected as in the table Initial.
    Running, Initial,
    \* MAX_RETRIES of establish_connection.
    DialAttempts,
    \* Bounds: dials that fail, dials of a process that hang at one time, other
    \* failures, clean-ups of the server.
    MaxDialFaults, MaxHung, MaxFaults, MaxCleanUps

ASSUME RoleAssumption == Role \in [Node -> {"publisher", "proxy", "subscriber"}]

\* The edges there can be: a publisher has no parent, a subscriber no child.
Edge == { e \in Node \X Node :
            e[1] # e[2] /\ Role[e[1]] # "subscriber" /\ Role[e[2]] # "publisher" }

\* Initial is a table that the calls of Running processes can have made: each
\* has registered itself as what it is, and subscribe gave one parent to a node.
\* A subscriber that runs already is in the tree.
ASSUME RunningAssumption ==
    /\ Running \subseteq Node
    /\ Initial \in Table /\ Sound(Initial)
    /\ \A n \in Publishers(Initial) : n \in Running /\ Role[n] = "publisher"
    /\ \A n \in Proxies(Initial) : n \in Running /\ Role[n] = "proxy"
    /\ Initial.edges \subseteq Edge
    /\ \A e \in Initial.edges : e[1] \in Running /\ e[2] \in Running
    /\ \A e, f \in Initial.edges : e[2] = f[2] => e = f
    /\ \A n \in Running : Role[n] = "subscriber" => HasParent(Initial, n)

ASSUME DialAssumption == DialAttempts \in Nat \ {0}

ASSUME BoundAssumption ==
    MaxDialFaults \in Nat /\ MaxHung \in Nat /\ MaxFaults \in Nat /\ MaxCleanUps \in Nat

VARIABLES
    table,      \* the value of {topic}-routing
    alive,      \* the proxies whose heartbeat key exists
    pc,         \* where manage_topic_connections of each process is
    listening,  \* the processes subscribed to the notifications of the key
    notes,      \* the notifications in the channel of each process
    view,       \* all_edges: the edges as last read
    seen,       \* current_edge_set
    tasks,      \* the tasks spawned by establish_connection, in order
    held,       \* connections: the tasks whose shutdown sender is in the map
    active,     \* ACTIVE_SIGNAL_IDS: the peers that an id is in use for
    attaches,   \* the subscribe calls that wait for their delay
    debounces,  \* the server: clients of each node that closed, to be checked
    doomed,     \* the server: the nodes found without a client
    missed,     \* history: changed unread since the last good read
    unlucky,    \* history: the last subscribe failed for want of Redis or a heartbeat
    dialFaults, faults, cleanUps    \* the failures and clean-ups so far

store == <<table, alive>>
server == <<debounces, doomed, cleanUps>>
manager == <<pc, listening, notes, view, seen, missed>>
channels == <<tasks, held, active>>
joining == <<attaches, unlucky>>
vars == <<store, manager, channels, joining, server, dialFaults, faults>>

Tree == INSTANCE TopicTree WITH tree <- table, Start <- Initial

PCs == {"off", "connect", "discard", "wait", "apply", "down"}
Phases == {"try", "dial", "hung", "open", "broken", "ended"}
Task == [edge : Edge, phase : Phases, tries : 0 .. DialAttempts, link : Nat]

TypeOK ==
    /\ table \in Table
    /\ alive \subseteq { n \in Node : Role[n] = "proxy" }
    /\ pc \in [Node -> PCs]
    /\ listening \subseteq Node
    /\ notes \in [Node -> Nat]
    /\ view \in [Node -> SUBSET Edge]
    /\ seen \in [Node -> SUBSET Edge]
    /\ tasks \in [Node -> Seq(Task)]
    /\ held \in [Node -> SUBSET Nat]
    /\ \A n \in Node : held[n] \subseteq DOMAIN tasks[n]
    /\ active \in [Node -> SUBSET Node]
    /\ attaches \in [Node -> Nat]
    /\ debounces \in [Node -> Nat]
    /\ doomed \subseteq Node
    /\ missed \subseteq Node
    /\ unlucky \subseteq Node
    /\ dialFaults \in 0 .. MaxDialFaults
    /\ faults \in 0 .. MaxFaults
    /\ cleanUps \in 0 .. MaxCleanUps

\* Mutant of Relevant: only the edges to children.
RelevantAsParent(edges, n) == { e \in edges : e[1] = n }

\* is_node_involved.
Relevant(edges, n) == { e \in edges : n \in {e[1], e[2]} }

Peer(n, e) == IF e[1] = n THEN e[2] ELSE e[1]

\* The edges of n at the start, in some order; each has a channel.
First(n) == SetToSeq(Relevant(Initial.edges, n))

Init ==
    /\ table = Initial
    /\ alive = { n \in Running : Role[n] = "proxy" }
    /\ pc = [n \in Node |-> IF n \in Running THEN "wait" ELSE "off"]
    /\ listening = Running
    /\ notes = [n \in Node |-> 0]
    /\ view = [n \in Node |-> {}]
    /\ seen = [n \in Node |-> Range(First(n))]
    /\ tasks = [n \in Node |-> [i \in DOMAIN First(n) |->
                  LET e == First(n)[i] IN
                  [edge |-> e, phase |-> "open", tries |-> 0,
                   link |-> CHOOSE j \in DOMAIN First(Peer(n, e)) : First(Peer(n, e))[j] = e]]]
    /\ held = [n \in Node |-> DOMAIN First(n)]
    /\ active = [n \in Node |-> { Peer(n, e) : e \in Range(First(n)) }]
    /\ attaches = [n \in Node |-> 0]
    /\ debounces = [n \in Node |-> 0]
    /\ doomed = {}
    /\ missed = {}
    /\ unlucky = {}
    /\ dialFaults = 0
    /\ faults = 0
    /\ cleanUps = 0

Up(n) == pc[n] \notin {"off", "down"}

Fault == faults < MaxFaults /\ faults' = faults + 1

\* A SET of the key: Redis notifies the processes that listen; of the others,
\* those that are up miss the change.
Notify ==
    /\ notes' = [n \in Node |-> IF n \in listening THEN notes[n] + 1 ELSE notes[n]]
    /\ missed' = missed \cup { n \in Node \ listening : Up(n) }

-----------------------------------------------------------------------------
(* A process starts: setup_topic. *)

\* It spawns the watch and registers its role; a subscriber waits before it
\* subscribes.
Start(n) ==
    /\ pc[n] = "off"
    /\ pc' = [pc EXCEPT ![n] = "connect"]
    /\ \/ /\ Role[n] = "publisher" /\ Tree!RegisterPublisher(n) /\ Notify
          /\ UNCHANGED attaches
       \/ /\ Role[n] = "proxy" /\ Tree!RegisterProxy(n) /\ Notify
          /\ UNCHANGED attaches
       \/ /\ Role[n] = "subscriber"
          /\ attaches' = [attaches EXCEPT ![n] = @ + 1]
          /\ UNCHANGED <<table, notes, missed>>
    /\ UNCHANGED <<alive, listening, view, seen, channels, unlucky, server, dialFaults, faults>>

\* The registration fails, which is only logged.
StartFails(n) ==
    /\ pc[n] = "off"
    /\ Role[n] # "subscriber"
    /\ Fault
    /\ pc' = [pc EXCEPT ![n] = "connect"]
    /\ UNCHANGED <<store, listening, notes, view, seen, missed, channels, joining,
                   server, dialFaults>>

\* watch_redis_key is subscribed to the key.
Listen(n) ==
    /\ pc[n] = "connect"
    /\ pc' = [pc EXCEPT ![n] = "discard"]
    /\ listening' = listening \cup {n}
    /\ UNCHANGED <<store, notes, view, seen, missed, channels, joining, server,
                   dialFaults, faults>>

\* watch_redis_key cannot connect: its channel is closed at once, and the
\* process never reconciles.
ListenFails(n) ==
    /\ pc[n] = "connect"
    /\ Fault
    /\ pc' = [pc EXCEPT ![n] = "wait"]
    /\ missed' = missed \cup {n}
    /\ UNCHANGED <<store, listening, notes, view, seen, channels, joining, server,
                   dialFaults>>

\* The stream of notifications ends; what has arrived is still in the channel.
StreamEnds(n) ==
    /\ n \in listening
    /\ Fault
    /\ listening' = listening \ {n}
    /\ UNCHANGED <<store, pc, notes, view, seen, missed, channels, joining, server,
                   dialFaults>>

\* "Initial reconcile": try_recv takes a notification away, if one is there.
Discard(n) ==
    /\ pc[n] = "discard"
    /\ pc' = [pc EXCEPT ![n] = "wait"]
    /\ \/ /\ notes[n] = 0
          /\ UNCHANGED <<notes, missed>>
       \/ /\ notes[n] > 0
          /\ notes' = [notes EXCEPT ![n] = @ - 1]
          /\ missed' = missed \cup {n}
    /\ UNCHANGED <<store, listening, view, seen, channels, joining, server,
                   dialFaults, faults>>

-----------------------------------------------------------------------------
(* The loop of manage_topic_connections. *)

TakesNote(n) ==
    /\ pc[n] = "wait"
    /\ notes[n] > 0
    /\ pc' = [pc EXCEPT ![n] = "apply"]
    /\ notes' = [notes EXCEPT ![n] = @ - 1]

\* One notification is taken and the table read.
Read(n) ==
    /\ TakesNote(n)
    /\ view' = [view EXCEPT ![n] = table.edges]
    /\ missed' = missed \ {n}
    /\ UNCHANGED <<store, listening, seen, channels, joining, server, dialFaults, faults>>

\* A GET that fails reads as a table without edges.
ReadFails(n) ==
    /\ TakesNote(n)
    /\ Fault
    /\ view' = [view EXCEPT ![n] = {}]
    /\ missed' = missed \cup {n}
    /\ UNCHANGED <<store, listening, seen, channels, joining, server, dialFaults>>

\* Mutant of Rejoins: only when the parent was lost just now.
RejoinsOnLoss(n) ==
    /\ ~\E e \in view[n] : e[2] = n
    /\ \E e \in seen[n] : e[2] = n
    /\ Role[n] = "subscriber"

\* Mutant of Rejoins: a proxy joins again though it has no children.
RejoinsAnyProxy(n) == (~\E e \in view[n] : e[2] = n) /\ Role[n] # "publisher"

\* The re-join policy: a subscribe call is spawned.
Rejoins(n) ==
    /\ ~\E e \in view[n] : e[2] = n
    /\ \/ Role[n] = "subscriber"
       \/ Role[n] = "proxy" /\ \E e \in view[n] : e[1] = n

\* The connections that stay, and the edges that need a new one.
Kept(n) == { i \in held[n] : tasks[n][i].edge \in view[n] }

Added(n) ==
    { e \in Relevant(view[n], n) \ seen[n] : ~\E i \in Kept(n) : tasks[n][i].edge = e }

\* The task of an edge before its first attempt.
NewTask(e) == [edge |-> e, phase |-> "try", tries |-> 0, link |-> 0]

\* The edges that are gone lose their shutdown sender, new ones get a task.
Reconcile(n, kept, added) ==
    /\ pc[n] = "apply"
    /\ pc' = [pc EXCEPT ![n] = "wait"]
    /\ tasks' = [tasks EXCEPT ![n] = @ \o [k \in DOMAIN added |-> NewTask(added[k])]]
    /\ held' = [held EXCEPT ![n] =
                    kept \cup ((Len(tasks[n]) + 1) .. (Len(tasks[n]) + Len(added)))]
    /\ seen' = [seen EXCEPT ![n] = Relevant(view[n], n)]
    /\ view' = [view EXCEPT ![n] = {}]
    /\ attaches' = IF Rejoins(n) THEN [attaches EXCEPT ![n] = @ + 1] ELSE attaches
    /\ UNCHANGED <<store, listening, missed, active, unlucky, server, dialFaults, faults>>

\* Mutant of Apply: it takes all notifications that came in meanwhile.
ApplyDrains(n) ==
    /\ Reconcile(n, Kept(n), SetToSeq(Added(n)))
    /\ notes' = [notes EXCEPT ![n] = 0]

\* Mutant of Apply: a connection that is removed while it is being set up keeps
\* its sender.
ApplyKeepsDialing(n) ==
    /\ Reconcile(n, Kept(n) \cup { i \in held[n] : tasks[n][i].phase # "open" },
                 SetToSeq(Added(n)))
    /\ UNCHANGED notes

\* Mutant of Apply: removed edges are not handled.
ApplyNeverRemoves(n) ==
    /\ Reconcile(n, held[n], SetToSeq(Added(n)))
    /\ UNCHANGED notes

\* Mutant of Apply: only one of the added edges is handled.
ApplyOneAdded(n) ==
    /\ Reconcile(n, Kept(n), SubSeq(SetToSeq(Added(n)), 1, 1))
    /\ UNCHANGED notes

Apply(n) == Reconcile(n, Kept(n), SetToSeq(Added(n))) /\ UNCHANGED notes

-----------------------------------------------------------------------------
(* subscribe, after its delay. *)

\* There is no place below a usable node, were the heartbeats those of A.
NoPlaceBelow(A) ==
    LET parents == { n \in Reach(table) : Usable(table, A, n) }
        unused == (Proxies(table) \cap A) \ UsedNodes(table)
    IN  \/ table.publishers = <<>>
        \/ \A n \in parents : Full(table, n) /\ (Moves(table, n) = {} \/ unused = {})

NoPlace == NoPlaceBelow(Node)

Waiting(n) ==
    /\ Up(n)
    /\ attaches[n] > 0
    /\ attaches' = [attaches EXCEPT ![n] = @ - 1]

\* The node is placed.
Joined(n) ==
    /\ Waiting(n)
    /\ \E m \in Node :
          /\ Usable(table, alive, m)
          /\ Tree!JoinUnder(n, m) \/ \E x \in alive : Tree!JoinByGraft(n, m, x)
    /\ Notify
    /\ unlucky' = unlucky \ {n}
    /\ UNCHANGED <<alive, pc, listening, view, seen, channels, server, dialFaults, faults>>

\* It has a parent already, or there is no place: the call only returns.
NotJoined(n) ==
    /\ Waiting(n)
    /\ HasParent(table, n) \/ NoPlaceBelow(alive)
    /\ unlucky' = IF HasParent(table, n) \/ NoPlace THEN unlucky \ {n} ELSE unlucky \cup {n}
    /\ UNCHANGED <<store, manager, channels, server, dialFaults, faults>>

\* An error of Redis, or too many conflicts.
JoinFails(n) ==
    /\ Waiting(n)
    /\ Fault
    /\ unlucky' = unlucky \cup {n}
    /\ UNCHANGED <<store, manager, channels, server, dialFaults>>

\* The heartbeat task of a proxy sets its key; the TTL of the key is over when
\* the process is dead, or when the heartbeats fail or are late.
Beat(n) ==
    /\ Role[n] = "proxy" /\ Up(n)
    /\ n \notin alive
    /\ alive' = alive \cup {n}
    /\ UNCHANGED <<table, manager, channels, joining, server, dialFaults, faults>>

Expire(n) ==
    /\ n \in alive
    /\ IF pc[n] = "down" THEN UNCHANGED faults ELSE Fault
    /\ alive' = alive \ {n}
    /\ UNCHANGED <<table, manager, channels, joining, server, dialFaults>>

-----------------------------------------------------------------------------
(* A task of establish_connection. *)

Is(n, i, phase) == i \in DOMAIN tasks[n] /\ tasks[n][i].phase = phase

TaskPeer(n, i) == Peer(n, tasks[n][i].edge)

\* The two ends of an edge use the ids {topic}-{self}-{peer} and the reverse.
IdInUse(n, i) == TaskPeer(n, i) \in active[n]

\* Mutant of Retried: one attempt more.
RetriedOnceMore(t) ==
    [t EXCEPT !.tries = @ + 1,
              !.phase = IF t.tries + 1 > DialAttempts THEN "ended" ELSE "try"]

\* The task after an attempt that failed.
Retried(t) ==
    [t EXCEPT !.tries = @ + 1,
              !.phase = IF t.tries + 1 >= DialAttempts THEN "ended" ELSE "try"]

\* Mutant of Dial: the set of active ids is not asked.
DialUnchecked(n, i) ==
    /\ Is(n, i, "try")
    /\ tasks' = [tasks EXCEPT ![n][i].phase = "dial"]
    /\ active' = [active EXCEPT ![n] = @ \cup {TaskPeer(n, i)}]
    /\ UNCHANGED <<store, manager, held, joining, server, dialFaults, faults>>

\* register_webrtc_stream takes the id and dials, or waits to be dialed.
Dial(n, i) ==
    /\ Is(n, i, "try")
    /\ ~IdInUse(n, i)
    /\ tasks' = [tasks EXCEPT ![n][i].phase = "dial"]
    /\ active' = [active EXCEPT ![n] = @ \cup {TaskPeer(n, i)}]
    /\ UNCHANGED <<store, manager, held, joining, server, dialFaults, faults>>

\* DuplicateConnection is an attempt that failed.
Refused(n, i) ==
    /\ Is(n, i, "try")
    /\ IdInUse(n, i)
    /\ tasks' = [tasks EXCEPT ![n][i] = Retried(@)]
    /\ UNCHANGED <<store, manager, held, active, joining, server, dialFaults, faults>>

\* A client of n at the signaling server closes: its check is due later.
ClientCloses(n) == debounces' = [debounces EXCEPT ![n] = @ + 1]

\* The attempt fails, which drops the guard and closes the client.
DialFails(n, i) ==
    /\ Is(n, i, "dial") \/ Is(n, i, "hung")
    /\ dialFaults < MaxDialFaults
    /\ dialFaults' = dialFaults + 1
    /\ tasks' = [tasks EXCEPT ![n][i] = Retried(@)]
    /\ active' = [active EXCEPT ![n] = @ \ {TaskPeer(n, i)}]
    /\ ClientCloses(n)
    /\ UNCHANGED <<store, manager, held, joining, doomed, cleanUps, faults>>

HungTasks(n) == { i \in DOMAIN tasks[n] : tasks[n][i].phase = "hung" }

\* What this end waits for does not come: the message is stranded at the server
\* or was taken by an attempt that failed (Handshake).  There is no timeout.
DialHangs(n, i) ==
    /\ Is(n, i, "dial")
    /\ \A m \in Node : Cardinality(HungTasks(m)) < MaxHung
    /\ tasks' = [tasks EXCEPT ![n][i].phase = "hung"]
    /\ UNCHANGED <<store, manager, held, active, joining, server, dialFaults, faults>>

\* A stranded message is handed over to another attempt of the peer.
DialResumes(n, i) ==
    /\ Is(n, i, "hung")
    /\ \E j \in DOMAIN tasks[TaskPeer(n, i)] :
          Is(TaskPeer(n, i), j, "dial") /\ tasks[TaskPeer(n, i)][j].edge = tasks[n][i].edge
    /\ tasks' = [tasks EXCEPT ![n][i].phase = "dial"]
    /\ UNCHANGED <<store, manager, held, active, joining, server, dialFaults, faults>>

\* The parent p accepts the dial of the child c: both have a channel, and the
\* two forwarders run.
Connect(p, i, c, j) ==
    /\ Is(p, i, "dial") /\ Is(c, j, "dial")
    /\ tasks[p][i].edge = <<p, c>> /\ tasks[c][j].edge = <<p, c>>
    /\ tasks' = [tasks EXCEPT ![p][i].phase = "open", ![p][i].link = j,
                              ![c][j].phase = "open", ![c][j].link = i]
    /\ UNCHANGED <<store, manager, held, active, joining, server, dialFaults, faults>>

\* webrtc_reader_and_writer ends and drops the guard; the client stays.
Break(n, i) ==
    /\ Is(n, i, "open")
    /\ tasks' = [tasks EXCEPT ![n][i].phase = "broken"]
    /\ active' = [active EXCEPT ![n] = @ \ {TaskPeer(n, i)}]
    /\ UNCHANGED <<store, manager, held, joining, server, dialFaults>>

\* The other end is gone.
PeerGone(n, i) ==
    /\ ~Is(TaskPeer(n, i), tasks[n][i].link, "open")
    /\ Break(n, i)
    /\ UNCHANGED faults

\* The network fails.
ChannelFails(n, i) == Fault /\ Break(n, i)

\* All shutdown senders are gone: recv() returns in the reader and in the task
\* that closes the signaling client, also if the sender was dropped while this
\* task was dialing.
Shutdown(n, i) ==
    /\ Is(n, i, "open") \/ Is(n, i, "broken")
    /\ i \notin held[n]
    /\ tasks' = [tasks EXCEPT ![n][i].phase = "ended"]
    /\ active' = IF Is(n, i, "open")
                 THEN [active EXCEPT ![n] = @ \ {TaskPeer(n, i)}] ELSE active
    /\ ClientCloses(n)
    /\ UNCHANGED <<store, manager, held, joining, doomed, cleanUps, dialFaults, faults>>

-----------------------------------------------------------------------------
(* The signaling server, and the end of a process. *)

\* The tasks of n that are clients of the signaling server.
Clients(n) == { i \in DOMAIN tasks[n] : tasks[n][i].phase \in {"dial", "hung", "open", "broken"} }

\* 1.5 s after a client of n closed, the server looks for another one.
Debounced(n) ==
    /\ debounces[n] > 0
    /\ debounces' = [debounces EXCEPT ![n] = @ - 1]
    /\ doomed' = IF Clients(n) = {} THEN doomed \cup {n} ELSE doomed
    /\ UNCHANGED <<store, manager, channels, joining, cleanUps, dialFaults, faults>>

\* disconnect_node.
CleansUp(n) ==
    /\ n \in doomed
    /\ cleanUps < MaxCleanUps
    /\ doomed' = doomed \ {n}
    /\ cleanUps' = cleanUps + 1
    /\ Tree!Lose(n)
    /\ Notify
    /\ UNCHANGED <<alive, pc, listening, view, seen, channels, joining, debounces,
                   dialFaults, faults>>

\* The process dies, and all its clients close.
Crash(n) ==
    /\ Up(n)
    /\ Fault
    /\ pc' = [pc EXCEPT ![n] = "down"]
    /\ listening' = listening \ {n}
    /\ notes' = [notes EXCEPT ![n] = 0]
    /\ view' = [view EXCEPT ![n] = {}]
    /\ seen' = [seen EXCEPT ![n] = {}]
    /\ missed' = missed \ {n}
    /\ tasks' = [tasks EXCEPT ![n] = [i \in DOMAIN @ |-> [@[i] EXCEPT !.phase = "ended"]]]
    /\ held' = [held EXCEPT ![n] = {}]
    /\ active' = [active EXCEPT ![n] = {}]
    /\ attaches' = [attaches EXCEPT ![n] = 0]
    /\ unlucky' = unlucky \ {n}
    /\ debounces' = [debounces EXCEPT ![n] = @ + Cardinality(Clients(n))]
    /\ UNCHANGED <<store, doomed, cleanUps, dialFaults>>

-----------------------------------------------------------------------------
Manage(n) == Listen(n) \/ Discard(n) \/ Read(n) \/ Apply(n)

Subscribes(n) == Joined(n) \/ NotJoined(n)

Runs(n) ==
    \E i \in DOMAIN tasks[n] : Dial(n, i) \/ Refused(n, i) \/ PeerGone(n, i) \/ Shutdown(n, i)

Connects(n) ==
    \E i \in DOMAIN tasks[n] : \E c \in Node : \E j \in DOMAIN tasks[c] : Connect(n, i, c, j)

Serve(n) == Debounced(n) \/ CleansUp(n)

Fails(n) ==
    \/ StartFails(n) \/ ListenFails(n) \/ StreamEnds(n) \/ ReadFails(n)
    \/ JoinFails(n) \/ Crash(n) \/ Expire(n)
    \/ \E i \in DOMAIN tasks[n] : 
          DialFails(n, i) \/ DialHangs(n, i) \/ DialResumes(n, i) \/ ChannelFails(n, i)

Next ==
    \E n \in Node :
        \/ Start(n) \/ Manage(n) \/ Subscribes(n) \/ Beat(n)
        \/ Runs(n) \/ Connects(n) \/ Serve(n) \/ Fails(n)

Spec == Init /\ [][Next]_vars

\* The runtime runs every task, Redis answers, delays end, and two ends that
\* dial each other connect in the end.  Nothing else is sure to happen.
FairSpec ==
    /\ Spec
    /\ \A n \in Node : /\ WF_vars(Manage(n)) /\ WF_vars(Subscribes(n))
                       /\ WF_vars(Runs(n)) /\ WF_vars(Connects(n)) /\ WF_vars(Serve(n))

-----------------------------------------------------------------------------
(* Properties. *)

\* n has handled every notification and missed none.
CaughtUp(n) == pc[n] = "wait" /\ notes[n] = 0 /\ n \notin missed

\* "Watches Redis for routing changes": a process that is caught up has seen
\* exactly the edges of the table that concern it, and holds one connection
\* for each, although it reads the table later than it is notified and acts
\* later than it reads.
InStep ==
    \A n \in Node : CaughtUp(n) =>
        /\ seen[n] = Relevant(table.edges, n)
        /\ { tasks[n][i].edge : i \in held[n] } = seen[n]

\* Two tasks of a process never use one id of the signaling server at once,
\* and an id is in use only as long as a task has it (WebRtcGuard).
IdsExclusive ==
    \A n \in Node :
        LET users == { i \in DOMAIN tasks[n] : tasks[n][i].phase \in {"dial", "hung", "open"} }
        IN  /\ active[n] = { TaskPeer(n, i) : i \in users }
            /\ \A i, j \in users : TaskPeer(n, i) = TaskPeer(n, j) => i = j

\* A subscriber that is caught up and has no parent has another subscribe call
\* to come, unless there is no place: a change of the table that makes one
\* starts a call.  Nothing wakes it if Redis failed its last call, or if that
\* call found places only at proxies without a heartbeat.
AloneOnlyWithoutPlace ==
    \A n \in Node :
        Role[n] = "subscriber" /\ CaughtUp(n) /\ ~HasParent(table, n) =>
            attaches[n] > 0 \/ n \in unlucky \/ NoPlace

\* The re-join policy has a case for a proxy that has children and no parent.
\* It never comes about: a clean-up takes the edges of a whole subtree, a join
\* goes only below what is fed, and a table is read as one value.  So
\* subscribe is only ever called for a subscriber.
OnlySubscribersJoin == \A n \in Node : attaches[n] > 0 => Role[n] = "subscriber"

Open(n, e) == \E i \in DOMAIN tasks[n] : tasks[n][i].edge = e /\ tasks[n][i].phase = "open"

\* The channels of an edge that is removed are closed in the end at every
\* process that still hears of the table, however the removal and the dials
\* interleave.
RemovedEdgeCloses ==
    \A e \in Edge : \A n \in {e[1], e[2]} :
        []<>(e \in table.edges \/ n \in missed) \/ <>[]~Open(n, e)

\* What an edge may lose its channel to: other failures than those of dials, a
\* clean-up, an end that misses the edge as it starts, or a dial of it that hangs.
Disturbed(e) ==
    \/ \E n \in {e[1], e[2]} : \E i \in HungTasks(n) : TaskPeer(n, i) \in {e[1], e[2]}
    \/ faults > 0 \/ cleanUps > 0 \/ e[1] \in missed \/ e[2] \in missed

\* "Retry WebRTC connection up to 3 times": an edge gets its channel although
\* dials fail, if that does not make the server clean up.
EdgeServed ==
    \A e \in Edge :
        e \in table.edges ~> (Open(e[1], e) /\ Open(e[2], e)) \/ Disturbed(e)

\* All channels on the way from the root down to n are open.
Fed(n) ==
    /\ table.publishers # <<>>
    /\ n \in Subtree([table EXCEPT !.edges = { e \in @ : Open(e[1], e) /\ Open(e[2], e) }],
                     Root(table))

\* The channel of an edge between two processes that run has failed.
Severed ==
    \E e \in table.edges : \E n \in {e[1], e[2]} : \E i \in held[n] :
        Up(e[1]) /\ Up(e[2]) /\ tasks[n][i].edge = e /\ tasks[n][i].phase = "broken"

\* "They may still be running and will reconnect to a new parent": when a process
\* above a subscriber dies, that one is fed by another in the end, or has no
\* place.  What can keep a live subscriber from it is named: its call failed,
\* someone misses a change of the table, a channel failed between two live ends
\* (nobody dials again while the edge stays), or the server takes a live process
\* for dead.
FailsOver ==
    \A n \in Node : Role[n] = "subscriber" =>
        \/ []<>(\/ Fed(n) \/ ~Up(n) \/ (NoPlace /\ ~HasParent(table, n))
                \/ n \in unlucky \/ missed # {})
        \/ <>Severed
        \/ <>(\E m \in doomed : Up(m))

\* "Handles reconnection when edges are removed from the routing tree": an edge
\* that stays in the table has its channel again and again, whether or not it
\* was removed before, if its ends miss nothing and no clean-up of them is due.
EdgeReconnects ==
    \A e \in Edge :
        \/ []<>(e \notin table.edges \/ {e[1], e[2]} \cap (missed \cup doomed) # {})
        \/ []<>(Open(e[1], e) /\ Open(e[2], e))

\* "this node was actually a proxy/publisher that died": the server takes only
\* processes that ended out of the registries.
OnlyDeadDeregistered ==
    [][\A n \in Node : n \in Intermediates(table) /\ n \notin Intermediates(table)'
                         => pc[n] = "down"]_vars

=============================================================================
