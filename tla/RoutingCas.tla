----------------------------- MODULE RoutingCas -----------------------------
(***************************************************************************)
(* Concurrent updates of one routing table.  Every call of                 *)
(* register_publisher, register_proxy, subscribe and disconnect            *)
(* (core/routing.rs), and of the signaling server's disconnect_node, runs  *)
(* the same loop: GET the value, edit a private copy, and commit it with   *)
(* WATCH, GET, compare, MULTI/SET/EXEC.  Calls run in different processes  *)
(* (or tasks), so their steps interleave; Redis runs one command at a      *)
(* time.                                                                   *)
(*                                                                         *)
(* One action is one exchange with Redis: the GET of the value, the visit  *)
(* of one node of the tree (it may GET a heartbeat), WATCH with the GET    *)
(* that is compared, EXEC, HDEL.  WATCH and its GET are one action: a SET  *)
(* between the two makes either the comparison or EXEC fail, as a SET      *)
(* after both does.                                                        *)
(***************************************************************************)
EXTENDS RoutingTable

CONSTANTS
    \* The calls; Op[c] is what call c does and Who[c] the node it does it to.
    Call, Op, Who,
    \* MAX_RETRIES of routing.rs and the 32 attempts of disconnect_node.
    MaxRetries, MaxCleanups,
    \* A bound on the commands to Redis that fail.
    MaxFaults,
    \* The value of the key when the calls begin.
    Start

Ops == {"publisher", "proxy", "subscribe", "disconnect", "cleanup"}

ASSUME CallAssumption ==
    /\ Op \in [Call -> Ops]
    /\ Who \in [Call -> Node]

ASSUME BoundAssumption ==
    /\ MaxRetries \in Nat \ {0}
    /\ MaxCleanups \in Nat \ {0}
    /\ MaxFaults \in Nat

ASSUME StartAssumption == Start \in Table /\ Sound(Start)

VARIABLES
    table,      \* the value of {topic}-routing
    version,    \* how often it was SET: what WATCH detects
    alive,      \* the proxies whose heartbeat key exists
    named,      \* the nodes with an entry in gdpname_map
    faults,     \* how many commands to Redis have failed
    pc,         \* where each call is
    attempt,    \* the loop counter
    loaded,     \* "old": the value the attempt began with
    draft,      \* "st": the edited copy
    readAt,     \* the version the attempt began with
    todo,       \* the nodes the current pass has still to visit
    resume,     \* where the call goes on after a conflict
    watchedAt,  \* the version at the last WATCH
    result      \* what the call returned

store == <<table, version, named>>
locals == <<attempt, loaded, draft, readAt, todo, resume, watchedAt, result>>
vars == <<store, alive, faults, pc, locals>>

PCs == {"load", "pass1", "pass2", "check", "exec", "hdel", "done"}
Results == {"none", "ok", "noPublisher", "noProxy", "exceeded", "redisError"}

\* The attempts call c may make.
Budget(c) == IF Op[c] = "cleanup" THEN MaxCleanups ELSE MaxRetries

TypeOK ==
    /\ table \in Table
    /\ version \in Nat
    /\ alive \subseteq Node
    /\ named \subseteq Node
    /\ faults \in 0 .. MaxFaults
    /\ pc \in [Call -> PCs]
    /\ attempt \in [Call -> Nat]
    /\ \A c \in Call : attempt[c] <= Budget(c)
    /\ loaded \in [Call -> Table]
    /\ draft \in [Call -> Table]
    /\ readAt \in [Call -> Nat]
    /\ todo \in [Call -> SUBSET Node]
    /\ resume \in [Call -> {"load", "pass1", "pass2"}]
    /\ watchedAt \in [Call -> Nat]
    /\ result \in [Call -> Results]

Init ==
    /\ table = Start
    /\ version = 0
    /\ alive = {}
    /\ named = Node
    /\ faults = 0
    /\ pc = [c \in Call |-> "load"]
    /\ attempt = [c \in Call |-> 0]
    /\ loaded = [c \in Call |-> Unwritten]
    /\ draft = [c \in Call |-> Unwritten]
    /\ readAt = [c \in Call |-> 0]
    /\ todo = [c \in Call |-> {}]
    /\ resume = [c \in Call |-> "load"]
    /\ watchedAt = [c \in Call |-> 0]
    /\ result = [c \in Call |-> "none"]

-----------------------------------------------------------------------------
(* The ends of an attempt and of a call. *)

Goto(c, label) == pc' = [pc EXCEPT ![c] = label]

\* The call returns r, and its copies of the table are gone.
Return(c, r) ==
    /\ Goto(c, "done")
    /\ result' = [result EXCEPT ![c] = r]
    /\ loaded' = [loaded EXCEPT ![c] = Unwritten]
    /\ draft' = [draft EXCEPT ![c] = Unwritten]
    /\ todo' = [todo EXCEPT ![c] = {}]
    /\ UNCHANGED <<attempt, readAt, resume, watchedAt>>

\* Mutant of NextAttempt: one attempt more than MAX_RETRIES.
NextAttemptOneMore(c) ==
    /\ attempt' = [attempt EXCEPT ![c] = @ + 1]
    /\ IF attempt[c] + 1 <= Budget(c)
       THEN /\ Goto(c, "load")
            /\ UNCHANGED <<loaded, draft, readAt, todo, resume, watchedAt, result>>
       ELSE /\ Goto(c, "done")
            /\ result' = [result EXCEPT ![c] = "exceeded"]
            /\ UNCHANGED <<loaded, draft, readAt, todo, resume, watchedAt>>

\* Mutant of NextAttempt: one attempt fewer.
NextAttemptOneFewer(c) ==
    /\ attempt' = [attempt EXCEPT ![c] = @ + 1]
    /\ IF attempt[c] + 2 < Budget(c)
       THEN /\ Goto(c, "load")
            /\ UNCHANGED <<loaded, draft, readAt, todo, resume, watchedAt, result>>
       ELSE /\ Goto(c, "done")
            /\ result' = [result EXCEPT ![c] = "exceeded"]
            /\ UNCHANGED <<loaded, draft, readAt, todo, resume, watchedAt>>

\* The next turn of "for attempt in 0..MAX_RETRIES".
NextAttempt(c) ==
    /\ attempt' = [attempt EXCEPT ![c] = @ + 1]
    /\ \/ /\ attempt[c] + 1 < Budget(c)
          /\ Goto(c, "load")
          /\ UNCHANGED <<loaded, draft, readAt, todo, resume, watchedAt, result>>
       \/ /\ attempt[c] + 1 >= Budget(c)
          /\ Goto(c, "done")
          /\ result' = [result EXCEPT ![c] = "exceeded"]
          /\ loaded' = [loaded EXCEPT ![c] = Unwritten]
          /\ draft' = [draft EXCEPT ![c] = Unwritten]
          /\ todo' = [todo EXCEPT ![c] = {}]
          /\ UNCHANGED <<readAt, resume, watchedAt>>

\* atomic_update returned false.  The loops of subscribe "continue" with the
\* next node of the pass, and keep the edits already made to st.
Conflict(c) ==
    \/ /\ resume[c] = "load"
       /\ NextAttempt(c)
    \/ /\ resume[c] # "load"
       /\ Goto(c, resume[c])
       /\ UNCHANGED locals

Fault == faults < MaxFaults /\ faults' = faults + 1

\* The edited copy st is handed to atomic_update, remaining is what the pass
\* has left to visit and label where a conflict continues.
Submit(c, st, remaining, label) ==
    /\ Goto(c, "check")
    /\ draft' = [draft EXCEPT ![c] = st]
    /\ todo' = [todo EXCEPT ![c] = remaining]
    /\ resume' = [resume EXCEPT ![c] = label]
    /\ UNCHANGED <<store, alive, faults, attempt, loaded, readAt, watchedAt, result>>

-----------------------------------------------------------------------------
(* The beginning of an attempt: GET, and what follows without Redis. *)

\* What the operations other than subscribe write over st.
Edited(c, st) ==
    CASE Op[c] = "publisher"  -> AddPublisher(st, Who[c])
      [] Op[c] = "proxy"      -> AddProxy(st, Who[c])
      [] Op[c] = "disconnect" -> Detach(st, Who[c])
      [] Op[c] = "cleanup"    -> CleanUp(st, Who[c])

StartEdit(c, st) ==
    /\ Op[c] # "subscribe"
    /\ Goto(c, "check")
    /\ draft' = [draft EXCEPT ![c] = Edited(c, st)]
    /\ UNCHANGED todo

\* subscribe begins its first pass.
StartSubscribe(c, st) ==
    /\ Op[c] = "subscribe"
    /\ st.publishers # <<>>
    /\ ~HasParent(st, Who[c])
    /\ Goto(c, "pass1")
    /\ draft' = [draft EXCEPT ![c] = Stamp(st, Who[c])]
    /\ todo' = [todo EXCEPT ![c] = Reach(st)]

\* subscribe has nothing to do: no publisher to attach to, or a parent already.
ReturnEarly(c, st) ==
    /\ Op[c] = "subscribe"
    /\ \/ st.publishers = <<>> /\ Return(c, "noPublisher")
       \/ st.publishers # <<>> /\ HasParent(st, Who[c]) /\ Return(c, "ok")

Begin(c, st) ==
    /\ \/ ReturnEarly(c, st)
       \/ /\ StartEdit(c, st) \/ StartSubscribe(c, st)
          /\ loaded' = [loaded EXCEPT ![c] = st]
          /\ readAt' = [readAt EXCEPT ![c] = version]
          /\ UNCHANGED <<attempt, resume, watchedAt, result>>
    /\ UNCHANGED <<store, alive>>

Load(c) ==
    /\ pc[c] = "load"
    /\ Begin(c, table)
    /\ UNCHANGED faults

\* A GET that fails reads as an absent key: unwrap_or(None).  disconnect_node
\* opens its connection first, and returns if it cannot.
LoadFails(c) ==
    /\ pc[c] = "load"
    /\ Fault
    /\ \/ Begin(c, Unwritten)
       \/ /\ Op[c] = "cleanup"
          /\ Return(c, "redisError")
          /\ UNCHANGED <<store, alive>>

-----------------------------------------------------------------------------
(* subscribe, pass 1: attach to the first visited node with spare fanout.  *)
(* The passes visit the tree that was loaded and count the children it     *)
(* had; the edges go into the draft.                                       *)

\* n is the next node of pass 1.
Visit1(c, n) ==
    /\ pc[c] = "pass1"
    /\ n \in todo[c]
    /\ LET order == BfsOrder(loaded[c])
       IN  \A m \in todo[c] \ {n} : VisitedFirst(order, n, m)

Pass1Skip(c, n) ==
    /\ Visit1(c, n)
    /\ ~Usable(loaded[c], alive, n) \/ Full(loaded[c], n)
    /\ todo' = [todo EXCEPT ![c] = @ \ {n}]
    /\ UNCHANGED <<store, alive, faults, pc, attempt, loaded, draft, readAt,
                   resume, watchedAt, result>>

Pass1Attach(c, n) ==
    /\ Visit1(c, n)
    /\ Usable(loaded[c], alive, n)
    /\ ~Full(loaded[c], n)
    /\ Submit(c, Attach(draft[c], n, Who[c]), todo[c] \ {n}, "pass1")

Pass1End(c) ==
    /\ pc[c] = "pass1"
    /\ todo[c] = {}
    /\ Goto(c, "pass2")
    /\ todo' = [todo EXCEPT ![c] = Reach(loaded[c])]
    /\ UNCHANGED <<store, alive, faults, attempt, loaded, draft, readAt,
                   resume, watchedAt, result>>

-----------------------------------------------------------------------------
(* subscribe, pass 2: bring in an unused proxy between a node and some of  *)
(* its listeners.                                                          *)

Visit2(c, n) ==
    /\ pc[c] = "pass2"
    /\ n \in todo[c]
    /\ LET order == BfsOrder(loaded[c])
       IN  \A m \in todo[c] \ {n} : GraftedFirst(order, n, m)

\* n is usable and has a child that is not a proxy (or a graft would be useless).
Graftable(c, n) ==
    /\ Usable(loaded[c], alive, n)
    /\ ~(Children(loaded[c], n) \subseteq Proxies(loaded[c]))

Pass2Skip(c, n) ==
    /\ Visit2(c, n)
    /\ ~Graftable(c, n)
    /\ todo' = [todo EXCEPT ![c] = @ \ {n}]
    /\ UNCHANGED <<store, alive, faults, pc, attempt, loaded, draft, readAt,
                   resume, watchedAt, result>>

Pass2Graft(c, n) ==
    /\ Visit2(c, n)
    /\ Graftable(c, n)
    /\ \E x \in Node : \E M \in Moves(loaded[c], n) :
          /\ IsPick(draft[c], alive, x)
          /\ Submit(c, Graft(draft[c], n, x, Who[c], M), todo[c] \ {n}, "pass2")

\* Mutant of Pass2NoProxy: it waits until a proxy is there.
Pass2AwaitsProxy(c, n) ==
    /\ Visit2(c, n)
    /\ Graftable(c, n)
    /\ ~\E x \in Node : IsPick(draft[c], alive, x)
    /\ UNCHANGED vars

Pass2NoProxy(c, n) ==
    /\ Visit2(c, n)
    /\ Graftable(c, n)
    /\ ~\E x \in Node : IsPick(draft[c], alive, x)
    /\ Return(c, "noProxy")
    /\ UNCHANGED <<store, alive, faults>>

\* "could not find a place; retrying".
Pass2End(c) ==
    /\ pc[c] = "pass2"
    /\ todo[c] = {}
    /\ NextAttempt(c)
    /\ UNCHANGED <<store, alive, faults>>

-----------------------------------------------------------------------------
(* try_atomic_update. *)

\* Mutant of Check: the value is watched but not compared with "old".
CheckWithoutCompare(c) ==
    /\ pc[c] = "check"
    /\ Goto(c, "exec")
    /\ watchedAt' = [watchedAt EXCEPT ![c] = version]
    /\ UNCHANGED <<store, alive, faults, attempt, loaded, draft, readAt, todo,
                   resume, result>>

\* WATCH and the GET that is compared with "old".
Check(c) ==
    /\ pc[c] = "check"
    /\ table = loaded[c]
    /\ Goto(c, "exec")
    /\ watchedAt' = [watchedAt EXCEPT ![c] = version]
    /\ UNCHANGED <<store, alive, faults, attempt, loaded, draft, readAt, todo,
                   resume, result>>

\* The text differs.  Equal tables written at different times may differ too,
\* in the order of the edges and in the timestamps.
CheckDiffers(c) ==
    /\ pc[c] = "check"
    /\ table # loaded[c] \/ version # readAt[c]
    /\ Conflict(c)
    /\ UNCHANGED <<store, alive, faults>>

\* disconnect_node removed its node from publishers or proxies, so the node's
\* name will be deleted from gdpname_map.
Deregisters(c) ==
    /\ Op[c] = "cleanup"
    /\ Who[c] \in Intermediates(loaded[c])

Set(c) ==
    /\ table' = draft[c]
    /\ version' = version + 1
    /\ UNCHANGED named

\* Mutant of ExecCommits: a plain SET, without WATCH.
SetWithoutWatch(c) ==
    /\ pc[c] = "exec"
    /\ Set(c)
    /\ \/ ~Deregisters(c) /\ Return(c, "ok")
       \/ Deregisters(c) /\ Goto(c, "hdel") /\ UNCHANGED locals
    /\ UNCHANGED <<alive, faults>>

\* EXEC finds the key untouched since WATCH.
ExecCommits(c) ==
    /\ pc[c] = "exec"
    /\ version = watchedAt[c]
    /\ Set(c)
    /\ \/ ~Deregisters(c) /\ Return(c, "ok")
       \/ Deregisters(c) /\ Goto(c, "hdel") /\ UNCHANGED locals
    /\ UNCHANGED <<alive, faults>>

\* EXEC replies nil: the key was SET, to whatever value.
ExecAborts(c) ==
    /\ pc[c] = "exec"
    /\ version # watchedAt[c]
    /\ Conflict(c)
    /\ UNCHANGED <<store, alive, faults>>

\* The connection fails: before the commands, or with the reply of an EXEC
\* that did commit.  The caller cannot tell, and returns the error.
UpdateFails(c) ==
    /\ pc[c] \in {"check", "exec"}
    /\ Fault
    /\ Return(c, "redisError")
    /\ \/ UNCHANGED store
       \/ /\ pc[c] = "exec"
          /\ version = watchedAt[c]
          /\ Set(c)
    /\ UNCHANGED alive

\* Mutant of Hdel: the names below the node are deleted with it.
HdelSubtree(c) ==
    /\ pc[c] = "hdel"
    /\ Return(c, "ok")
    /\ named' = named \ Subtree(loaded[c], Who[c])
    /\ UNCHANGED <<table, version, alive, faults>>

\* cleanup_gdpname_map, after the commit; an error is only logged.
Hdel(c) ==
    /\ pc[c] = "hdel"
    /\ Return(c, "ok")
    /\ \/ /\ named' = named \ {Who[c]}
          /\ UNCHANGED faults
       \/ /\ Fault
          /\ UNCHANGED named
    /\ UNCHANGED <<table, version, alive>>

-----------------------------------------------------------------------------
(* Heartbeats: SETEX by a running proxy, and the end of its 10 s. *)

Heartbeats == { Who[c] : c \in { d \in Call : Op[d] = "proxy" } } \cup Proxies(Start)

Beat(x) ==
    /\ x \in Heartbeats \ alive
    /\ alive' = alive \cup {x}
    /\ UNCHANGED <<store, faults, pc, locals>>

Expire(x) ==
    /\ x \in alive
    /\ alive' = alive \ {x}
    /\ UNCHANGED <<store, faults, pc, locals>>

-----------------------------------------------------------------------------
Pass1(c) ==
    \/ \E n \in Node : Pass1Skip(c, n) \/ Pass1Attach(c, n)
    \/ Pass1End(c)

Pass2(c) ==
    \/ \E n \in Node : Pass2Skip(c, n) \/ Pass2Graft(c, n) \/ Pass2NoProxy(c, n)
    \/ Pass2End(c)

Update(c) == Check(c) \/ CheckDiffers(c) \/ ExecCommits(c) \/ ExecAborts(c) \/ Hdel(c)

\* The steps of call c when Redis answers.
Step(c) == Load(c) \/ Pass1(c) \/ Pass2(c) \/ Update(c)

StepFails(c) == LoadFails(c) \/ UpdateFails(c)

Next ==
    \/ \E c \in Call : Step(c) \/ StepFails(c)
    \/ \E x \in Node : Beat(x) \/ Expire(x)

Spec == Init /\ [][Next]_vars

\* Redis keeps answering and the calling task keeps running.
FairSpec == Spec /\ \A c \in Call : WF_vars(Step(c))

-----------------------------------------------------------------------------
(* Properties of the stored table. *)

\* routing.rs promises "For all parents, children.len() <= fanout()": no
\* interleaving of attaches and grafts overfills a node.
FanoutBound == Bounded(table)

\* Every edge hangs from the root: its parent is reached from publishers[1]
\* through publishers and proxies.  No detach or clean-up leaves a piece of
\* the tree behind, and so no proxy ever has children without a parent.
Rooted == Hanging(table)

\* The edges form a tree: subscribe gives a node one parent, and never a
\* second one to a node that is attached meanwhile by another call.
SingleParent ==
    \A n \in Node : \A p, q \in Node :
        <<p, n>> \in table.edges /\ <<q, n>> \in table.edges => p = q

\* Call c commits in this step.
Commits(c) == pc[c] = "exec" /\ version = watchedAt[c] /\ version' # version

\* No update is lost: a node that has a parent is without one after a step
\* only if the step commits a detach or clean-up of it or of a node above it.
OnlyDetachOrphans ==
    [][\A n \in Node :
          HasParent(table, n) /\ ~HasParent(table', n) =>
              \E c \in Call : /\ Commits(c)
                              /\ Op[c] \in {"disconnect", "cleanup"}
                              /\ n \in Subtree(table, Who[c])]_vars

\* No registration is lost: a publisher or proxy leaves the table only by the
\* commit of its own clean-up.
OnlyCleanUpDeregisters ==
    [][\A n \in Intermediates(table) \ Intermediates(table') :
          \E c \in Call : Commits(c) /\ Op[c] = "cleanup" /\ Who[c] = n]_vars

\* Every commit is one atomic operation on the tree that is stored: a call of
\* subscribe places its node once, under one parent, and only if the stored
\* tree has none for it, however many attempts and edits it took.
Tree == INSTANCE TopicTree WITH tree <- table
OneAtomicUpdate == Tree!Spec

\* What the comparison of texts is to ensure: a subscribe that can still commit
\* does so over the very SET that it loaded, and not over one that restores the
\* text after others changed it, as its copy may then hold the edits of an update
\* that failed.
NothingRestored ==
    \A c \in Call :
        Op[c] = "subscribe" /\ pc[c] = "exec" /\ watchedAt[c] = version =>
            readAt[c] = version

-----------------------------------------------------------------------------
(* Properties of the calls. *)

\* A call that edits without searching (all but subscribe) exhausts its
\* attempts only if as many other commits and faults interfered: it never
\* fails an attempt on its own.
GivesUpOnlyUnderContention ==
    \A c \in Call :
        result[c] = "exceeded" /\ Op[c] # "subscribe" => version + faults >= Budget(c)

\* The breadth-first walk of subscribe visits every node it can reach, once,
\* and none before one that is less deep.
BfsVisitsReach ==
    \A c \in Call :
        pc[c] = "pass1" =>
            LET order == BfsOrder(loaded[c])
            IN  /\ { order[i][1] : i \in DOMAIN order } = Reach(loaded[c])
                /\ Len(order) = Cardinality(Reach(loaded[c]))
                /\ \A i, j \in DOMAIN order : i < j => order[i][2] <= order[j][2]

\* disconnect_node deletes the name of a node only after the commit that
\* deregistered it: a registered node keeps its entry in gdpname_map.
RegisteredAreNamed == Intermediates(table) \subseteq named

\* subscribe: "Pass 2: no capacity anywhere => grow with a proxy graft".  The
\* second pass grafts, or finds no proxy to graft, only for a tree whose root
\* has no spare fanout.
GrowsOnlyWhenFull ==
    [][\A c \in Call :
          /\ pc[c] = "pass2"
          /\ pc'[c] = "check" \/ (result'[c] = "noProxy" /\ result[c] = "none")
          => Full(loaded[c], Root(loaded[c]))]_vars

\* Every call returns, whatever the heartbeats and the other calls do.
EveryCallReturns == \A c \in Call : <>(pc[c] = "done")

=============================================================================
