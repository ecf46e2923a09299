--------------------------- MODULE RoutingCasProofs ---------------------------
(***************************************************************************)
(* Theorems about RoutingCas, for every set of nodes and calls, every      *)
(* fanout and every number of retries and faults.                          *)
(***************************************************************************)
EXTENDS RoutingCas, WalkProofs

-----------------------------------------------------------------------------
(* Why the table stays sound: what holds of every call between its steps. *)

\* EXEC commits only over the value that was loaded.
CommitsOverLoaded ==
    \A c \in Call :
        /\ watchedAt[c] <= version
        /\ pc[c] = "exec" /\ watchedAt[c] = version => table = loaded[c]

Busy(c) == pc[c] \in {"pass1", "pass2", "check", "exec", "hdel"}

\* subscribe between the beginning of a pass and the end of the attempt, and
\* the pass it is in (a failed update goes back to it).
Searching(c) == Op[c] = "subscribe" /\ pc[c] \in {"pass1", "pass2", "check", "exec"}
Phase(c) == IF pc[c] \in {"check", "exec"} THEN resume[c] ELSE pc[c]

\* The control of a call fits its operation.
ControlInv(c) ==
    /\ Op[c] = "subscribe" =>
          pc[c] # "hdel" /\ (pc[c] \in {"check", "exec"} => resume[c] # "load")
    /\ Op[c] # "subscribe" =>
          resume[c] = "load" /\ pc[c] \notin {"pass1", "pass2"}

\* What was loaded hangs from its root; what is to be written is an edit of it.
\* The draft of subscribe may hold several edits, as a conflict does not undo
\* them, but it loses nothing that was loaded, and the nodes still to be
\* visited are reached in it.
DraftInv(c) ==
    /\ Busy(c) => Unique(loaded[c]) /\ Hanging(loaded[c])
    /\ Op[c] # "subscribe" /\ pc[c] \in {"check", "exec"} =>
          draft[c] = Edited(c, loaded[c])
    /\ Searching(c) =>
          /\ loaded[c].publishers # <<>>
          /\ draft[c].publishers = loaded[c].publishers
          /\ draft[c].proxies = loaded[c].proxies
          /\ todo[c] \subseteq Reach(loaded[c])
          /\ Reach(loaded[c]) \subseteq Reach(draft[c])
          /\ Hanging(draft[c])
          /\ \A m \in Node : HasParent(loaded[c], m) => HasParent(draft[c], m)

\* The draft is within the fanout, and a node still to be visited has the
\* children that were loaded: all of them in pass 1, at least them in pass 2.
FanoutInv(c) ==
    /\ Busy(c) => Bounded(loaded[c])
    /\ Searching(c) =>
          /\ Bounded(draft[c])
          /\ Phase(c) = "pass1" =>
                /\ \A n \in Node : Children(loaded[c], n) \subseteq Children(draft[c], n)
                /\ \A n \in todo[c] : Children(draft[c], n) = Children(loaded[c], n)
          /\ Phase(c) = "pass2" =>
                \A n \in todo[c] : Children(loaded[c], n) \subseteq Children(draft[c], n)

\* The inductive invariant behind Rooted, and with FanoutInv behind FanoutBound.
RootedInv ==
    /\ CommitsOverLoaded
    /\ Unique(table) /\ Hanging(table)
    /\ \A c \in Call : ControlInv(c) /\ DraftInv(c)

BoundInv == Bounded(table) /\ \A c \in Call : FanoutInv(c)

\* The inductive invariant behind GivesUpOnlyUnderContention: every lost
\* attempt is charged to a SET by another call or to a fault.  A failed GET
\* charges its attempt when the value is loaded.
Charged(c) ==
    /\ readAt[c] <= version
    /\ Op[c] # "subscribe" =>
          /\ pc[c] = "load" => attempt[c] <= version + faults
          /\ pc[c] \in {"check", "exec"} =>
                /\ attempt[c] <= readAt[c] + faults
                /\ version = readAt[c] /\ table # loaded[c] =>
                      attempt[c] < readAt[c] + faults
          /\ pc[c] = "exec" => readAt[c] <= watchedAt[c]
          /\ result[c] = "exceeded" => Budget(c) <= version + faults

ChargeInv == \A c \in Call : Charged(c)

\* The draft of subscribe is one edit of what was loaded, below a node with a
\* free place, or with a new proxy if the root has none.
OnePlace(c) ==
    LET st == Stamp(loaded[c], Who[c])
    IN  \/ \E n \in Reach(loaded[c]) :
              ~Full(loaded[c], n) /\ draft[c] = Attach(st, n, Who[c])
        \/ /\ Full(loaded[c], Root(loaded[c]))
           /\ \E n \in Reach(loaded[c]) :
              \E x \in (Proxies(loaded[c]) \cap Heartbeats) \ UsedNodes(loaded[c]) :
              \E M \in Moves(loaded[c], n) :
                 draft[c] = Graft(st, n, x, Who[c], M)

\* The inductive invariant behind OneAtomicUpdate: as long as nobody has SET the
\* key since subscribe loaded it, no update of the call has failed, and its copy
\* holds no edit before the first one.
Placing(c) ==
    /\ readAt[c] <= version
    /\ pc[c] = "exec" => readAt[c] <= watchedAt[c]
    /\ Searching(c) => ~HasParent(loaded[c], Who[c])
    /\ Searching(c) /\ readAt[c] = version =>
          /\ table = loaded[c]
          /\ pc[c] \in {"pass1", "pass2"} => draft[c] = Stamp(loaded[c], Who[c])
          /\ pc[c] = "pass1" /\ Root(loaded[c]) \notin todo[c] =>
                Full(loaded[c], Root(loaded[c]))
          /\ pc[c] = "pass2" => Full(loaded[c], Root(loaded[c]))
          /\ pc[c] \in {"check", "exec"} => OnePlace(c)

PlacingInv == alive \subseteq Heartbeats /\ \A c \in Call : Placing(c)

\* The inductive invariant behind RegisteredAreNamed, if no node that is lost
\* registers again: a name is deleted after its node left the registries.
NamingInv ==
    /\ \A c \in Call :
          pc[c] = "hdel" => Op[c] = "cleanup" /\ Who[c] \notin Intermediates(table)
    /\ \A n \in Node \ named : \E c \in Call : Op[c] = "cleanup" /\ Who[c] = n
-----------------------------------------------------------------------------
(* The types of the variables. *)

\* The conjuncts of TypeOK about the calls, with a running call within budget.
LocalsOK ==
    /\ pc \in [Call -> PCs]
    /\ attempt \in [Call -> Nat]
    /\ loaded \in [Call -> Table]
    /\ draft \in [Call -> Table]
    /\ readAt \in [Call -> Nat]
    /\ todo \in [Call -> SUBSET Node]
    /\ resume \in [Call -> {"load", "pass1", "pass2"}]
    /\ watchedAt \in [Call -> Nat]
    /\ result \in [Call -> Results]
    /\ \A c \in Call : attempt[c] <= Budget(c)
    /\ \A c \in Call : pc[c] # "done" => attempt[c] < Budget(c)

StoreOK ==
    /\ table \in Table
    /\ version \in Nat
    /\ alive \subseteq Node
    /\ named \subseteq Node
    /\ faults \in 0 .. MaxFaults

TypeInv == StoreOK /\ LocalsOK

-----------------------------------------------------------------------------
(* Type correctness. *)

\* Every call has at least one attempt.
LEMMA BudgetType == \A c \in Call : Budget(c) \in Nat \ {0}
BY BoundAssumption DEF Budget

\* Returning keeps the types.
LEMMA ReturnTypes ==
    ASSUME LocalsOK, NEW c \in Call, NEW r \in Results, Return(c, r)
    PROVE  LocalsOK'
<1> USE DEF LocalsOK
<1>1. /\ pc' \in [Call -> PCs]
      /\ result' \in [Call -> Results]
      /\ todo' \in [Call -> SUBSET Node]
  BY DEF Return, Goto, PCs
<1>2. loaded' \in [Call -> Table] /\ draft' \in [Call -> Table]
  BY UnwrittenType DEF Return
<1>3. UNCHANGED <<attempt, readAt, resume, watchedAt>>
  BY DEF Return
<1>4. \A d \in Call : pc'[d] # "done" => pc[d] # "done"
  BY DEF Return, Goto
<1> QED BY <1>1, <1>2, <1>3, <1>4 DEF Budget

\* The next attempt keeps the types, and the count within the budget.
LEMMA NextAttemptTypes ==
    ASSUME LocalsOK, NEW c \in Call, pc[c] # "done", NextAttempt(c)
    PROVE  LocalsOK'
<1> USE DEF LocalsOK
<1>1. /\ attempt' \in [Call -> Nat]
      /\ \A d \in Call : attempt'[d] = IF d = c THEN attempt[c] + 1 ELSE attempt[d]
  BY DEF NextAttempt
<1>2. /\ pc' \in [Call -> PCs]
      /\ result' \in [Call -> Results]
      /\ todo' \in [Call -> SUBSET Node]
      /\ UNCHANGED <<readAt, resume, watchedAt>>
  BY DEF NextAttempt, Goto, PCs, Results
<1>3. loaded' \in [Call -> Table] /\ draft' \in [Call -> Table]
  BY UnwrittenType DEF NextAttempt
<1>4. \A d \in Call : attempt'[d] <= Budget(d)
  BY <1>1, BudgetType
<1>5. \A d \in Call : pc'[d] # "done" => attempt'[d] < Budget(d)
  BY <1>1, BudgetType DEF NextAttempt, Goto, PCs
<1> QED BY <1>1, <1>2, <1>3, <1>4, <1>5 DEF Budget

\* So does a conflict, for every operation.
LEMMA ConflictTypes ==
    ASSUME LocalsOK, NEW c \in Call, pc[c] # "done", Conflict(c)
    PROVE  LocalsOK'
<1>1. CASE NextAttempt(c)
  BY <1>1, NextAttemptTypes
<1>2. CASE Goto(c, resume[c]) /\ UNCHANGED locals
  <2>1. resume[c] \in {"load", "pass1", "pass2"}
    BY DEF LocalsOK
  <2> QED BY <1>2, <2>1 DEF LocalsOK, Goto, PCs, locals, Budget
<1> QED BY <1>1, <1>2 DEF Conflict

\* Handing a well-typed copy to atomic_update keeps the types.
LEMMA SubmitTypes ==
    ASSUME LocalsOK, NEW c \in Call, pc[c] # "done",
           NEW st \in Table, NEW remaining \in SUBSET Node,
           NEW label \in {"pass1", "pass2"}, Submit(c, st, remaining, label)
    PROVE  LocalsOK'
BY DEF Submit, LocalsOK, Goto, PCs, Budget
\* What the calls other than subscribe write is a table.
LEMMA EditedType ==
    ASSUME NEW c \in Call, Op[c] # "subscribe", NEW st \in Table
    PROVE  Edited(c, st) \in Table
<1>1. Op[c] \in {"publisher", "proxy", "disconnect", "cleanup"} /\ Who[c] \in Node
  BY CallAssumption DEF Ops
<1> QED BY <1>1, EditTypes DEF Edited

\* Beginning an attempt with any well-typed table keeps the types.
LEMMA BeginTypes ==
    ASSUME TypeInv, NEW c \in Call, pc[c] = "load", NEW st \in Table, Begin(c, st)
    PROVE  LocalsOK'
<1> USE DEF TypeInv
<1>1. CASE ReturnEarly(c, st)
  BY <1>1, ReturnTypes DEF ReturnEarly, Results
<1>2. CASE /\ StartEdit(c, st) \/ StartSubscribe(c, st)
           /\ loaded' = [loaded EXCEPT ![c] = st]
           /\ readAt' = [readAt EXCEPT ![c] = version]
           /\ UNCHANGED <<attempt, resume, watchedAt, result>>
  <2>1. Who[c] \in Node
    BY CallAssumption
  <2>2. CASE StartEdit(c, st)
    <3>1. Edited(c, st) \in Table
      BY <2>2, EditedType DEF StartEdit
    <3> QED BY <1>2, <2>2, <3>1 DEF StartEdit, LocalsOK, StoreOK, Goto, PCs, Budget
  <2>3. CASE StartSubscribe(c, st)
    <3>1. Stamp(st, Who[c]) \in Table /\ Reach(st) \in SUBSET Node
      BY <2>1, EditTypes, ReachType
    <3> QED BY <1>2, <2>3, <3>1 DEF StartSubscribe, LocalsOK, StoreOK, Goto, PCs, Budget
  <2> QED BY <1>2, <2>2, <2>3
<1> QED BY <1>1, <1>2 DEF Begin

\* A SET stores the draft of a call.
LEMMA SetTypes ==
    ASSUME TypeInv, NEW c \in Call, Set(c)
    PROVE  table' \in Table /\ version' \in Nat /\ named' \subseteq Node
BY DEF TypeInv, StoreOK, LocalsOK, Set

\* The faults stay within their bound.
LEMMA FaultType ==
    ASSUME StoreOK, Fault
    PROVE  faults' \in 0 .. MaxFaults
BY BoundAssumption DEF StoreOK, Fault

\* The steps of both passes of subscribe keep the types.
LEMMA PassTypes ==
    ASSUME TypeInv, NEW c \in Call, Pass1(c) \/ Pass2(c)
    PROVE  TypeInv'
<1> USE DEF TypeInv
<1>1. Who[c] \in Node
  BY CallAssumption
<1>2. ASSUME NEW n \in Node, Pass1Skip(c, n) \/ Pass2Skip(c, n)
      PROVE  TypeInv'
  BY <1>2 DEF Pass1Skip, Pass2Skip, LocalsOK, StoreOK, store, Budget
<1>3. ASSUME NEW n \in Node, Pass1Attach(c, n)
      PROVE  TypeInv'
  <2>1. Attach(draft[c], n, Who[c]) \in Table /\ todo[c] \ {n} \in SUBSET Node
    BY <1>1, EditTypes DEF LocalsOK
  <2>2. pc[c] # "done"
    BY <1>3 DEF Pass1Attach, Visit1
  <2>3. LocalsOK'
    BY <1>3, <2>1, <2>2, SubmitTypes DEF Pass1Attach
  <2> QED BY <1>3, <2>3 DEF Pass1Attach, Submit, StoreOK, store
<1>4. CASE Pass1End(c)
  <2>1. Reach(loaded[c]) \in SUBSET Node
    BY ReachType DEF LocalsOK
  <2> QED BY <1>4, <2>1 DEF Pass1End, Goto, PCs, LocalsOK, StoreOK, store, Budget
<1>5. ASSUME NEW n \in Node, Pass2Graft(c, n)
      PROVE  TypeInv'
  <2>1. PICK x \in Node, M \in Moves(loaded[c], n) :
            Submit(c, Graft(draft[c], n, x, Who[c], M), todo[c] \ {n}, "pass2")
    BY <1>5 DEF Pass2Graft
  <2>2. M \in SUBSET Node
    BY DEF Moves, Children
  <2>3. Graft(draft[c], n, x, Who[c], M) \in Table /\ todo[c] \ {n} \in SUBSET Node
    BY <1>1, <2>2, EditTypes DEF LocalsOK
  <2>4. pc[c] # "done"
    BY <1>5 DEF Pass2Graft, Visit2
  <2>5. LocalsOK'
    BY <2>1, <2>3, <2>4, SubmitTypes
  <2> QED BY <2>1, <2>5 DEF Submit, StoreOK, store
<1>6. ASSUME NEW n \in Node, Pass2NoProxy(c, n)
      PROVE  TypeInv'
  <2>1. LocalsOK'
    BY <1>6, ReturnTypes DEF Pass2NoProxy, Results
  <2> QED BY <1>6, <2>1 DEF Pass2NoProxy, StoreOK, store
<1>7. CASE Pass2End(c)
  <2>1. LocalsOK'
    BY <1>7, NextAttemptTypes DEF Pass2End
  <2> QED BY <1>7, <2>1 DEF Pass2End, StoreOK, store
<1> QED BY <1>2, <1>3, <1>4, <1>5, <1>6, <1>7 DEF Pass1, Pass2

\* The steps of try_atomic_update and HDEL keep the types.
LEMMA UpdateTypes ==
    ASSUME TypeInv, NEW c \in Call, Update(c) \/ UpdateFails(c)
    PROVE  TypeInv'
<1> USE DEF TypeInv
<1>1. CASE Check(c)
  BY <1>1 DEF Check, Goto, PCs, LocalsOK, StoreOK, store, Budget
<1>2. CASE CheckDiffers(c) \/ ExecAborts(c)
  <2>1. pc[c] # "done" /\ Conflict(c)
    BY <1>2 DEF CheckDiffers, ExecAborts
  <2>2. LocalsOK'
    BY <2>1, ConflictTypes
  <2> QED BY <1>2, <2>2 DEF CheckDiffers, ExecAborts, StoreOK, store
<1>3. CASE ExecCommits(c)
  <2>1. StoreOK'
    BY <1>3, SetTypes DEF ExecCommits, StoreOK
  <2>2. CASE Return(c, "ok")
    BY <2>1, <2>2, ReturnTypes DEF Results
  <2>3. CASE Goto(c, "hdel") /\ UNCHANGED locals
    <3>1. pc[c] # "done"
      BY <1>3 DEF ExecCommits
    <3> QED BY <2>1, <2>3, <3>1 DEF Goto, PCs, LocalsOK, locals, Budget
  <2> QED BY <1>3, <2>2, <2>3 DEF ExecCommits
<1>4. CASE Hdel(c)
  <2>1. LocalsOK'
    BY <1>4, ReturnTypes DEF Hdel, Results
  <2>2. faults' \in 0 .. MaxFaults
    BY <1>4, FaultType DEF Hdel, StoreOK
  <2> QED BY <1>4, <2>1, <2>2 DEF Hdel, StoreOK
<1>5. CASE UpdateFails(c)
  <2>1. LocalsOK'
    BY <1>5, ReturnTypes DEF UpdateFails, Results
  <2>2. faults' \in 0 .. MaxFaults
    BY <1>5, FaultType DEF UpdateFails
  <2>3. table' \in Table /\ version' \in Nat /\ named' \subseteq Node
    BY <1>5, SetTypes DEF UpdateFails, StoreOK, store
  <2> QED BY <1>5, <2>1, <2>2, <2>3 DEF UpdateFails, StoreOK
<1> QED BY <1>1, <1>2, <1>3, <1>4, <1>5 DEF Update

\* Every step of the system keeps the types.
LEMMA TypeInvStep == TypeInv /\ [Next]_vars => TypeInv'
<1> SUFFICES ASSUME TypeInv, [Next]_vars
             PROVE  TypeInv'
  OBVIOUS
<1>1. ASSUME NEW c \in Call, Load(c)
      PROVE  TypeInv'
  <2>1. LocalsOK'
    BY <1>1, BeginTypes DEF Load, TypeInv, StoreOK
  <2> QED BY <1>1, <2>1 DEF Load, Begin, TypeInv, StoreOK, store
<1>2. ASSUME NEW c \in Call, LoadFails(c)
      PROVE  TypeInv'
  <2>1. LocalsOK'
    BY <1>2, BeginTypes, UnwrittenType, ReturnTypes DEF LoadFails, TypeInv, Results
  <2>2. faults' \in 0 .. MaxFaults
    BY <1>2, FaultType DEF LoadFails, TypeInv
  <2> QED BY <1>2, <2>1, <2>2 DEF LoadFails, Begin, TypeInv, StoreOK, store
<1>3. ASSUME NEW c \in Call, Pass1(c) \/ Pass2(c)
      PROVE  TypeInv'
  BY <1>3, PassTypes
<1>4. ASSUME NEW c \in Call, Update(c) \/ UpdateFails(c)
      PROVE  TypeInv'
  BY <1>4, UpdateTypes
<1>5. ASSUME NEW x \in Node, Beat(x) \/ Expire(x)
      PROVE  TypeInv'
  BY <1>5 DEF Beat, Expire, TypeInv, StoreOK, LocalsOK, store, locals, Budget
<1>6. CASE UNCHANGED vars
  BY <1>6 DEF vars, TypeInv, StoreOK, LocalsOK, store, locals, Budget
<1> QED BY <1>1, <1>2, <1>3, <1>4, <1>5, <1>6 DEF Next, Step, StepFails

\* The strengthened type invariant holds in every behaviour.
LEMMA TypeInvAlways == Spec => []TypeInv
<1>1. Init => TypeInv
  BY StartAssumption, UnwrittenType, BoundAssumption, BudgetType
     DEF Init, TypeInv, StoreOK, LocalsOK, PCs, Results
<1> QED BY <1>1, TypeInvStep, PTL DEF Spec

\* Every variable keeps its type, and no call makes more attempts than its
\* budget: MAX_RETRIES in routing.rs, 32 in disconnect_node.
THEOREM TypeCorrect == Spec => []TypeOK
<1>1. TypeInv => TypeOK
  BY DEF TypeInv, StoreOK, LocalsOK, TypeOK
<1> QED BY <1>1, TypeInvAlways, PTL
-----------------------------------------------------------------------------
(* A step of one call leaves the other calls alone.                        *)

SameCall(d) ==
    /\ pc'[d] = pc[d]
    /\ loaded'[d] = loaded[d]
    /\ draft'[d] = draft[d]
    /\ todo'[d] = todo[d]
    /\ resume'[d] = resume[d]
    /\ watchedAt'[d] = watchedAt[d]

\* The end of an attempt or of a call, and an update that is handed over, leave
\* the local variables of the other calls alone.
LEMMA EndFrame ==
    ASSUME LocalsOK, NEW c \in Call, NEW d \in Call, d # c,
           \/ \E r \in Results : Return(c, r)
           \/ NextAttempt(c)
           \/ Conflict(c)
           \/ \E st \in Table : \E R \in SUBSET Node : \E l \in {"pass1", "pass2"} :
                 Submit(c, st, R, l)
    PROVE  SameCall(d)
<1> USE DEF LocalsOK, SameCall
<1>1. ASSUME NEW r \in Results, Return(c, r)
      PROVE  SameCall(d)
  BY <1>1 DEF Return, Goto
<1>2. CASE NextAttempt(c)
  BY <1>2 DEF NextAttempt, Goto
<1>3. CASE Conflict(c)
  BY <1>2, <1>3 DEF Conflict, Goto, locals, NextAttempt
<1>4. ASSUME NEW st \in Table, NEW R \in SUBSET Node, NEW l \in {"pass1", "pass2"},
             Submit(c, st, R, l)
      PROVE  SameCall(d)
  BY <1>4 DEF Submit, Goto
<1> QED BY <1>1, <1>2, <1>3, <1>4

\* So does every step of a call.
LEMMA StepFrame ==
    ASSUME TypeInv, NEW c \in Call, NEW d \in Call, d # c, Step(c) \/ StepFails(c)
    PROVE  SameCall(d)
<1> USE DEF TypeInv
<1>0. LocalsOK /\ Who[c] \in Node
  BY CallAssumption
<1>1. ASSUME NEW st \in Table, Begin(c, st)
      PROVE  SameCall(d)
  <2>1. CASE ReturnEarly(c, st)
    BY <2>1, EndFrame DEF ReturnEarly, Results
  <2>2. CASE StartEdit(c, st) \/ StartSubscribe(c, st)
    BY <1>1, <2>2
    DEF Begin, ReturnEarly, Return, StartEdit, StartSubscribe, Goto, LocalsOK, SameCall
  <2> QED BY <1>1, <2>1, <2>2 DEF Begin
<1>2. CASE Load(c)
  BY <1>1, <1>2 DEF Load, StoreOK
<1>3. CASE LoadFails(c)
  BY <1>1, <1>3, UnwrittenType, EndFrame DEF LoadFails, Results
<1>4. ASSUME NEW n \in Node, Pass1Skip(c, n) \/ Pass2Skip(c, n)
      PROVE  SameCall(d)
  BY <1>4 DEF Pass1Skip, Pass2Skip, LocalsOK, SameCall
<1>5. ASSUME NEW n \in Node, Pass1Attach(c, n)
      PROVE  SameCall(d)
  <2>1. Attach(draft[c], n, Who[c]) \in Table /\ todo[c] \ {n} \in SUBSET Node
    BY <1>0, EditTypes DEF LocalsOK
  <2> QED BY <1>5, <2>1, EndFrame DEF Pass1Attach
<1>6. CASE Pass1End(c)
  BY <1>6 DEF Pass1End, Goto, LocalsOK, SameCall
<1>7. ASSUME NEW n \in Node, Pass2Graft(c, n)
      PROVE  SameCall(d)
  <2>1. PICK x \in Node, M \in Moves(loaded[c], n) :
            Submit(c, Graft(draft[c], n, x, Who[c], M), todo[c] \ {n}, "pass2")
    BY <1>7 DEF Pass2Graft
  <2>2. M \in SUBSET Node
    BY DEF Moves, Children
  <2>3. Graft(draft[c], n, x, Who[c], M) \in Table /\ todo[c] \ {n} \in SUBSET Node
    BY <1>0, <2>2, EditTypes DEF LocalsOK
  <2> QED BY <2>1, <2>3, EndFrame
<1>8. ASSUME NEW n \in Node, Pass2NoProxy(c, n)
      PROVE  SameCall(d)
  BY <1>8, EndFrame DEF Pass2NoProxy, Results
<1>9. CASE Pass2End(c)
  BY <1>9, EndFrame DEF Pass2End
<1>10. CASE Check(c)
  BY <1>10 DEF Check, Goto, LocalsOK, SameCall
<1>11. CASE CheckDiffers(c) \/ ExecAborts(c)
  BY <1>11, EndFrame DEF CheckDiffers, ExecAborts
<1>12. CASE ExecCommits(c)
  <2>1. CASE Return(c, "ok")
    BY <2>1, EndFrame DEF Results
  <2>2. CASE Goto(c, "hdel") /\ UNCHANGED locals
    BY <2>2 DEF Goto, locals, LocalsOK, SameCall
  <2> QED BY <1>12, <2>1, <2>2 DEF ExecCommits
<1>13. CASE Hdel(c) \/ UpdateFails(c)
  BY <1>13, EndFrame DEF Hdel, UpdateFails, Results
<1> QED BY <1>2, <1>3, <1>4, <1>5, <1>6, <1>7, <1>8, <1>9, <1>10, <1>11, <1>12, <1>13
        DEF Step, StepFails, Pass1, Pass2, Update
-----------------------------------------------------------------------------
(* What a step does to the stored table.                                   *)

StoreKept(c) ==
    /\ UNCHANGED <<table, version>>
    /\ Check(c) \/ (pc'[c] # "exec" /\ UNCHANGED watchedAt)

StoreWritten(c) ==
    /\ pc[c] = "exec"
    /\ version = watchedAt[c]
    /\ Set(c)
    /\ UNCHANGED watchedAt
    /\ pc'[c] # "exec"

\* A step leaves the table as it is, or stores the draft of a call whose WATCH
\* saw no later SET.
LEMMA StoreStep ==
    ASSUME TypeInv, NEW c \in Call, Step(c) \/ StepFails(c)
    PROVE  StoreKept(c) \/ StoreWritten(c)
<1> USE DEF TypeInv, StoreKept
<1>1. ASSUME NEW r \in Results, Return(c, r)
      PROVE  pc'[c] # "exec" /\ UNCHANGED watchedAt
  BY <1>1 DEF Return, Goto, LocalsOK
<1>2. ASSUME NextAttempt(c)
      PROVE  pc'[c] # "exec" /\ UNCHANGED watchedAt
  BY <1>2 DEF NextAttempt, Goto, LocalsOK
<1>3. ASSUME Conflict(c)
      PROVE  pc'[c] # "exec" /\ UNCHANGED watchedAt
  BY <1>2, <1>3 DEF Conflict, Goto, LocalsOK, locals
<1>4. ASSUME NEW st, NEW R, NEW l, Submit(c, st, R, l)
      PROVE  StoreKept(c)
  BY <1>4 DEF Submit, Goto, LocalsOK, store
<1>5. ASSUME NEW st, Begin(c, st)
      PROVE  StoreKept(c)
  <2>1. CASE ReturnEarly(c, st)
    BY <1>1, <1>5, <2>1 DEF Begin, ReturnEarly, Results, store
  <2>2. CASE /\ StartEdit(c, st) \/ StartSubscribe(c, st)
             /\ UNCHANGED watchedAt
    BY <1>5, <2>2 DEF Begin, StartEdit, StartSubscribe, Goto, LocalsOK, store
  <2> QED BY <1>5, <2>1, <2>2 DEF Begin
<1>6. CASE Load(c)
  BY <1>5, <1>6 DEF Load
<1>7. CASE LoadFails(c)
  BY <1>1, <1>5, <1>7 DEF LoadFails, Results, store
<1>8. CASE Pass1(c)
  <2>1. ASSUME NEW n \in Node, Pass1Skip(c, n)
        PROVE  StoreKept(c)
    BY <2>1 DEF Pass1Skip, Visit1, store
  <2>2. ASSUME NEW n \in Node, Pass1Attach(c, n)
        PROVE  StoreKept(c)
    BY <1>4, <2>2 DEF Pass1Attach
  <2>3. CASE Pass1End(c)
    BY <2>3 DEF Pass1End, Goto, LocalsOK, store
  <2> QED BY <1>8, <2>1, <2>2, <2>3 DEF Pass1
<1>9. CASE Pass2(c)
  <2>1. ASSUME NEW n \in Node, Pass2Skip(c, n)
        PROVE  StoreKept(c)
    BY <2>1 DEF Pass2Skip, Visit2, store
  <2>2. ASSUME NEW n \in Node, Pass2Graft(c, n)
        PROVE  StoreKept(c)
    BY <1>4, <2>2 DEF Pass2Graft
  <2>3. ASSUME NEW n \in Node, Pass2NoProxy(c, n)
        PROVE  StoreKept(c)
    BY <1>1, <2>3 DEF Pass2NoProxy, Results, store
  <2>4. CASE Pass2End(c)
    BY <1>2, <2>4 DEF Pass2End, store
  <2> QED BY <1>9, <2>1, <2>2, <2>3, <2>4 DEF Pass2
<1>10. CASE Check(c)
  BY <1>10 DEF Check, store
<1>11. CASE CheckDiffers(c) \/ ExecAborts(c)
  BY <1>3, <1>11 DEF CheckDiffers, ExecAborts, store
<1>12. CASE ExecCommits(c)
  <2>1. pc'[c] # "exec" /\ UNCHANGED watchedAt
    BY <1>1, <1>12 DEF ExecCommits, Goto, locals, LocalsOK, Results
  <2> QED BY <1>12, <2>1 DEF ExecCommits, StoreWritten
<1>13. CASE Hdel(c)
  BY <1>1, <1>13 DEF Hdel, Results
<1>14. CASE UpdateFails(c)
  BY <1>1, <1>14 DEF UpdateFails, Results, store, StoreWritten
<1> QED BY <1>6, <1>7, <1>8, <1>9, <1>10, <1>11, <1>12, <1>13, <1>14
        DEF Step, StepFails, Update

\* EXEC still commits only over the loaded value: whoever writes in between
\* raises the version.
LEMMA CommitsOverLoadedStep ==
    ASSUME TypeInv, CommitsOverLoaded, NEW c \in Call, Step(c) \/ StepFails(c)
    PROVE  CommitsOverLoaded'
<1> SUFFICES ASSUME NEW d \in Call
             PROVE  /\ watchedAt'[d] <= version'
                    /\ pc'[d] = "exec" /\ watchedAt'[d] = version' => table' = loaded'[d]
  BY DEF CommitsOverLoaded
<1>1. /\ watchedAt[d] <= version
      /\ pc[d] = "exec" /\ watchedAt[d] = version => table = loaded[d]
  BY DEF CommitsOverLoaded
<1>2. watchedAt[d] \in Nat /\ version \in Nat
  BY DEF TypeInv, StoreOK, LocalsOK
<1>3. CASE StoreWritten(c)
  BY <1>1, <1>2, <1>3 DEF StoreWritten, Set
<1>4. CASE Check(c)
  <2>1. CASE d = c
    BY <1>2, <1>4, <2>1 DEF Check, store, TypeInv, LocalsOK
  <2>2. CASE d # c
    BY <1>1, <1>4, <2>2, StepFrame DEF Check, store, SameCall
  <2> QED BY <2>1, <2>2
<1>5. CASE UNCHANGED <<table, version>> /\ pc'[c] # "exec" /\ UNCHANGED watchedAt
  BY <1>1, <1>5, StepFrame DEF SameCall
<1> QED BY <1>3, <1>4, <1>5, StoreStep DEF StoreKept
-----------------------------------------------------------------------------
(* The edits of a call.                                                    *)

\* What the calls other than subscribe write is sound if what they loaded is.
LEMMA EditedIsSound ==
    ASSUME NEW c \in Call, Op[c] # "subscribe", NEW st \in Table,
           Unique(st), Hanging(st)
    PROVE  /\ Unique(Edited(c, st))
           /\ Hanging(Edited(c, st))
           /\ Bounded(st) => Bounded(Edited(c, st))
           /\ \A m \in Node :
                 HasParent(st, m) /\ ~HasParent(Edited(c, st), m) =>
                    Op[c] \in {"disconnect", "cleanup"} /\ m \in Subtree(st, Who[c])
           /\ \A m \in Intermediates(st) \ Intermediates(Edited(c, st)) :
                 Op[c] = "cleanup" /\ Who[c] = m
<1>1. Op[c] \in {"publisher", "proxy", "disconnect", "cleanup"} /\ Who[c] \in Node
  BY CallAssumption DEF Ops
<1>2. Edited(c, st) \in Table
  BY EditedType
<1>3. CASE Op[c] \in {"publisher", "proxy"}
  <2>1. Edited(c, st) = AddPublisher(st, Who[c]) \/ Edited(c, st) = AddProxy(st, Who[c])
    BY <1>3 DEF Edited
  <2>2. Edited(c, st).edges = st.edges
    BY <1>1, <2>1 DEF AddPublisher, AddProxy, Table
  <2> QED BY <1>1, <1>2, <2>1, <2>2, RegistrationIsSound DEF HasParent
<1>4. CASE Op[c] \in {"disconnect", "cleanup"}
  <2>1. /\ Edited(c, st).edges = DropEdges(st, Subtree(st, Who[c]))
        /\ Edited(c, st).publishers \in {st.publishers, Without(st.publishers, Who[c])}
        /\ Edited(c, st).proxies \in {st.proxies, Without(st.proxies, Who[c])}
    BY <1>4 DEF Edited, Detach, CleanUp, Table
  <2>2. Op[c] = "disconnect" => Intermediates(Edited(c, st)) = Intermediates(st)
    BY DEF Edited, Detach, Table, Intermediates, Publishers, Proxies
  <2>3. /\ Unique(Edited(c, st))
        /\ Hanging(Edited(c, st))
        /\ Bounded(st) => Bounded(Edited(c, st))
        /\ Intermediates(st) \ {Who[c]} \subseteq Intermediates(Edited(c, st))
        /\ \A m \in Node \ Subtree(st, Who[c]) :
              HasParent(st, m) => HasParent(Edited(c, st), m)
    BY <1>1, <1>2, <2>1, DropIsSound
  <2> QED BY <1>4, <2>2, <2>3
<1> QED BY <1>1, <1>3, <1>4

\* The end of an attempt or of a call leaves nothing to keep sound.
LEMMA EndInv ==
    ASSUME TypeInv, NEW c \in Call, ControlInv(c), pc[c] # "done",
           (\E r \in Results : Return(c, r)) \/ NextAttempt(c)
    PROVE  /\ ControlInv(c)'
           /\ DraftInv(c)'
           /\ FanoutInv(c)'
<1>1. pc'[c] \in {"load", "done"} /\ resume'[c] = resume[c]
  BY DEF Return, NextAttempt, Goto, TypeInv, LocalsOK
<1> QED BY <1>1 DEF ControlInv, DraftInv, FanoutInv, Busy, Searching

\* A conflict keeps the facts about loaded and draft: it edits neither.
LEMMA ConflictInv ==
    ASSUME TypeInv, NEW c \in Call, ControlInv(c), pc[c] \in {"check", "exec"}, Conflict(c)
    PROVE  /\ ControlInv(c)'
           /\ DraftInv(c) => DraftInv(c)'
           /\ FanoutInv(c) => FanoutInv(c)'
<1>1. CASE NextAttempt(c)
  BY <1>1, EndInv
<1>2. CASE resume[c] # "load" /\ Goto(c, resume[c]) /\ UNCHANGED locals
  <2>1. /\ Op[c] = "subscribe"
        /\ resume[c] \in {"pass1", "pass2"}
        /\ pc'[c] = resume[c]
        /\ UNCHANGED <<loaded, draft, todo, resume>>
    BY <1>2 DEF ControlInv, Goto, TypeInv, LocalsOK, locals
  <2> QED BY <2>1 DEF ControlInv, DraftInv, FanoutInv, Busy, Searching, Phase
<1> QED BY <1>1, <1>2 DEF Conflict

\* The beginning of an attempt over a sound value.
LEMMA BeginInv ==
    ASSUME TypeInv, NEW c \in Call, ControlInv(c), pc[c] = "load",
           NEW st \in Table, Unique(st), Hanging(st), Begin(c, st)
    PROVE  /\ ControlInv(c)'
           /\ DraftInv(c)'
           /\ Bounded(st) => FanoutInv(c)'
<1>0. Who[c] \in Node
  BY CallAssumption
<1>1. CASE ReturnEarly(c, st)
  BY <1>1, EndInv DEF ReturnEarly, Results
<1>2. CASE /\ StartEdit(c, st)
           /\ loaded' = [loaded EXCEPT ![c] = st]
           /\ UNCHANGED resume
  <2>1. /\ Op[c] # "subscribe"
        /\ pc'[c] = "check"
        /\ loaded'[c] = st
        /\ draft'[c] = Edited(c, st)
        /\ resume'[c] = resume[c]
    BY <1>2 DEF StartEdit, Goto, TypeInv, LocalsOK
  <2>2. Edited(c, loaded[c])' = Edited(c, loaded'[c])
    BY DEF Edited
  <2> QED BY <2>1, <2>2 DEF ControlInv, DraftInv, FanoutInv, Busy, Searching
<1>3. CASE /\ StartSubscribe(c, st)
           /\ loaded' = [loaded EXCEPT ![c] = st]
           /\ UNCHANGED resume
  <2>1. /\ Op[c] = "subscribe"
        /\ st.publishers # <<>>
        /\ pc'[c] = "pass1"
        /\ loaded'[c] = st
        /\ draft'[c] = Stamp(st, Who[c])
        /\ todo'[c] = Reach(st)
    BY <1>3 DEF StartSubscribe, Goto, TypeInv, LocalsOK
  <2> DEFINE new == Stamp(st, Who[c])
  <2>2. /\ new.edges = st.edges
        /\ new.publishers = st.publishers
        /\ new.proxies = st.proxies
    BY <1>0, StampKeeps
  <2> HIDE DEF new
  <2>3. /\ Reach(new) = Reach(st)
        /\ \A n \in Node : Children(new, n) = Children(st, n)
        /\ \A n \in Node : HasParent(new, n) <=> HasParent(st, n)
    BY <2>2 DEF Reach, ReachClosed, Root, Intermediates, Publishers, Proxies,
                Children, HasParent
  <2>4. Hanging(new) /\ (Bounded(st) => Bounded(new))
    BY <2>2, <2>3 DEF Hanging, Bounded
  <2>5. /\ draft'[c] = new
        /\ pc'[c] # "hdel"
        /\ pc'[c] \notin {"check", "exec"}
    BY <2>1 DEF new
  <2>6. ControlInv(c)'
    BY <2>1 DEF ControlInv
  <2>7. DraftInv(c)'
    BY <2>1, <2>2, <2>3, <2>4, <2>5 DEF DraftInv
  <2>8. Bounded(st) => FanoutInv(c)'
    <3>1. Reach(st) \subseteq Node
      BY ReachType
    <3> QED BY <2>1, <2>3, <2>4, <2>5, <3>1 DEF FanoutInv, Phase
  <2> QED BY <2>6, <2>7, <2>8
<1> QED BY <1>1, <1>2, <1>3 DEF Begin
-----------------------------------------------------------------------------
(* The passes of subscribe.                                                *)

\* What the invariants say of a call after it has handed an edited copy to
\* atomic_update.
LEMMA SubmitFacts ==
    ASSUME TypeInv, NEW c \in Call, NEW st, NEW R, NEW l, Submit(c, st, R, l)
    PROVE  /\ pc'[c] = "check"
           /\ draft'[c] = st
           /\ todo'[c] = R
           /\ resume'[c] = l
           /\ loaded' = loaded
BY DEF Submit, Goto, TypeInv, LocalsOK

\* An attachment under a node to be visited keeps what holds of the draft.
LEMMA Pass1AttachInv ==
    ASSUME TypeInv, NEW c \in Call, ControlInv(c), DraftInv(c),
           NEW n \in Node, Pass1Attach(c, n)
    PROVE  /\ ControlInv(c)'
           /\ DraftInv(c)'
           /\ FanoutInv(c) => FanoutInv(c)'
<1> DEFINE s == Who[c]
           new == Attach(draft[c], n, s)
<1>1. /\ s \in Node
      /\ draft[c] \in Table
      /\ loaded[c] \in Table
  BY CallAssumption DEF TypeInv, LocalsOK
<1>2. /\ pc[c] = "pass1"
      /\ n \in todo[c]
      /\ ~Full(loaded[c], n)
  BY DEF Pass1Attach, Visit1
<1>3. /\ pc'[c] = "check"
      /\ draft'[c] = new
      /\ todo'[c] = todo[c] \ {n}
      /\ resume'[c] = "pass1"
      /\ loaded'[c] = loaded[c]
  BY SubmitFacts DEF Pass1Attach
<1>4. Op[c] = "subscribe"
  BY <1>2 DEF ControlInv
<1>5. /\ Unique(loaded[c]) /\ Hanging(loaded[c])
      /\ loaded[c].publishers # <<>>
      /\ draft[c].publishers = loaded[c].publishers
      /\ draft[c].proxies = loaded[c].proxies
      /\ todo[c] \subseteq Reach(loaded[c])
      /\ Reach(loaded[c]) \subseteq Reach(draft[c])
      /\ Hanging(draft[c])
      /\ \A m \in Node : HasParent(loaded[c], m) => HasParent(draft[c], m)
  BY <1>2, <1>4 DEF DraftInv, Busy, Searching
<1>6. Hanging(new) /\ Reach(draft[c]) \subseteq Reach(new)
  BY <1>1, <1>2, <1>5, AttachHangs
<1>7. /\ new.publishers = draft[c].publishers
      /\ new.proxies = draft[c].proxies
      /\ new.edges = draft[c].edges \cup {<<n, s>>}
      /\ Children(new, n) = Children(draft[c], n) \cup {s}
      /\ \A m \in Node \ {n} : Children(new, m) = Children(draft[c], m)
  BY <1>1, AttachKeeps
<1>8. ASSUME FanoutInv(c)
      PROVE  /\ Bounded(loaded[c])
             /\ Bounded(new)
             /\ \A m \in Node : Children(loaded[c], m) \subseteq Children(new, m)
             /\ \A m \in todo[c] \ {n} : Children(new, m) = Children(loaded[c], m)
  <2>1. /\ Bounded(loaded[c])
        /\ Bounded(draft[c])
        /\ \A m \in Node : Children(loaded[c], m) \subseteq Children(draft[c], m)
        /\ \A m \in todo[c] : Children(draft[c], m) = Children(loaded[c], m)
    BY <1>2, <1>4, <1>8 DEF FanoutInv, Busy, Searching, Phase
  <2>2. ~Full(draft[c], n)
    BY <1>2, <2>1 DEF Full
  <2>3. Bounded(new)
    BY <1>1, <2>1, <2>2, AttachBounded
  <2>4. todo[c] \subseteq Node
    BY DEF TypeInv, LocalsOK
  <2> QED BY <1>7, <2>1, <2>3, <2>4
<1> HIDE DEF new
<1>9. \A m \in Node : HasParent(draft[c], m) => HasParent(new, m)
  BY <1>7 DEF HasParent
<1>10. ControlInv(c)'
  BY <1>3, <1>4 DEF ControlInv
<1>11. DraftInv(c)'
  BY <1>3, <1>4, <1>5, <1>6, <1>7, <1>9 DEF DraftInv
<1>12. FanoutInv(c) => FanoutInv(c)'
  BY <1>3, <1>8 DEF FanoutInv, Phase
<1> QED BY <1>10, <1>11, <1>12

\* A graft does too, if the fanout leaves the new proxy room for two children.
LEMMA Pass2GraftInv ==
    ASSUME TypeInv, NEW c \in Call, ControlInv(c), DraftInv(c),
           NEW n \in Node, Pass2Graft(c, n)
    PROVE  /\ ControlInv(c)'
           /\ DraftInv(c)'
           /\ Fanout >= 2 /\ FanoutInv(c) => FanoutInv(c)'
<1>1. PICK x \in Node, M \in Moves(loaded[c], n) :
          /\ IsPick(draft[c], alive, x)
          /\ Submit(c, Graft(draft[c], n, x, Who[c], M), todo[c] \ {n}, "pass2")
  BY DEF Pass2Graft
<1> DEFINE s == Who[c]
           new == Graft(draft[c], n, x, s, M)
<1>2. /\ s \in Node
      /\ draft[c] \in Table
      /\ loaded[c] \in Table
      /\ todo[c] \subseteq Node
      /\ M \in SUBSET Node
  BY CallAssumption DEF TypeInv, LocalsOK, Moves, Children
<1>3. /\ pc[c] = "pass2"
      /\ n \in todo[c]
      /\ ~(Children(loaded[c], n) \subseteq Proxies(loaded[c]))
  BY DEF Pass2Graft, Visit2, Graftable
<1>4. /\ pc'[c] = "check"
      /\ draft'[c] = new
      /\ todo'[c] = todo[c] \ {n}
      /\ resume'[c] = "pass2"
      /\ loaded'[c] = loaded[c]
  BY <1>1, SubmitFacts
<1>5. Op[c] = "subscribe"
  BY <1>3 DEF ControlInv
<1>6. /\ Unique(loaded[c]) /\ Hanging(loaded[c])
      /\ loaded[c].publishers # <<>>
      /\ draft[c].publishers = loaded[c].publishers
      /\ draft[c].proxies = loaded[c].proxies
      /\ todo[c] \subseteq Reach(loaded[c])
      /\ Reach(loaded[c]) \subseteq Reach(draft[c])
      /\ Hanging(draft[c])
      /\ \A m \in Node : HasParent(loaded[c], m) => HasParent(draft[c], m)
  BY <1>3, <1>5 DEF DraftInv, Busy, Searching
<1>7. x \in Proxies(draft[c]) /\ x \notin UsedNodes(draft[c])
  BY <1>1 DEF IsPick, Proxies, Range
<1>8. Hanging(new) /\ Reach(draft[c]) \subseteq Reach(new)
  BY <1>2, <1>3, <1>6, <1>7, GraftHangs
<1>9. /\ new.publishers = draft[c].publishers
      /\ new.proxies = draft[c].proxies
      /\ \A e \in draft[c].edges : e \in new.edges \/ (e[1] = n /\ e[2] \in M)
      /\ \A m \in M : <<x, m>> \in new.edges
  <2>1. n \in Node /\ x \in Node
    BY <1>1
  <2>2. new = Graft(draft[c], n, x, s, M)
    OBVIOUS
  <2> HIDE DEF new, s
  <2> QED BY <1>2, <2>1, <2>2, GraftKeeps
<1>10. ASSUME Fanout >= 2, FanoutInv(c)
       PROVE  /\ Bounded(loaded[c])
              /\ Bounded(new)
              /\ \A m \in todo[c] \ {n} : Children(loaded[c], m) \subseteq Children(new, m)
  <2>1. /\ Bounded(loaded[c])
        /\ Bounded(draft[c])
        /\ \A m \in todo[c] : Children(loaded[c], m) \subseteq Children(draft[c], m)
    BY <1>3, <1>5, <1>10 DEF FanoutInv, Busy, Searching, Phase
  <2>2. /\ M \subseteq Children(loaded[c], n)
        /\ M # {}
        /\ Cardinality(M) <= Fanout - 1
    BY <1>3, <1>10, MovesFacts
  <2>3. Children(draft[c], x) = {}
    BY <1>7 DEF UsedNodes
  <2>4. M \in SUBSET Children(draft[c], n) /\ x # n
    BY <1>3, <2>1, <2>2, <2>3
  <2>5. Bounded(new)
    BY <1>2, <2>1, <2>2, <2>3, <2>4, GraftBounded
  <2>6. /\ Children(new, x) = Children(draft[c], x) \cup M \cup {s}
        /\ \A m \in Node \ {n, x} : Children(new, m) = Children(draft[c], m)
    BY <1>2, <2>4, GraftChildren
  <2>7. ASSUME NEW m \in todo[c] \ {n}
        PROVE  Children(loaded[c], m) \subseteq Children(new, m)
    BY <1>2, <2>1, <2>6, <2>7
  <2> QED BY <2>1, <2>5, <2>7
<1> HIDE DEF new
<1>11. ASSUME NEW m \in Node, HasParent(draft[c], m)
       PROVE  HasParent(new, m)
  <2>1. PICK p \in Node : <<p, m>> \in draft[c].edges
    BY <1>11 DEF HasParent
  <2>2. <<p, m>> \in new.edges \/ m \in M
    BY <1>9, <2>1
  <2> QED BY <1>9, <2>2 DEF HasParent
<1>12. ControlInv(c)'
  BY <1>4, <1>5 DEF ControlInv
<1>13. DraftInv(c)'
  BY <1>4, <1>5, <1>6, <1>8, <1>9, <1>11 DEF DraftInv
<1>14. Fanout >= 2 /\ FanoutInv(c) => FanoutInv(c)'
  BY <1>4, <1>10 DEF FanoutInv, Phase
<1> QED BY <1>12, <1>13, <1>14

\* The steps of both passes keep the facts about draft and fanout.
LEMMA PassInv ==
    ASSUME TypeInv, NEW c \in Call, ControlInv(c), DraftInv(c), Pass1(c) \/ Pass2(c)
    PROVE  /\ ControlInv(c)'
           /\ DraftInv(c)'
           /\ Fanout >= 2 /\ FanoutInv(c) => FanoutInv(c)'
<1>1. ASSUME NEW n \in Node, Pass1Skip(c, n) \/ Pass2Skip(c, n)
      PROVE  ControlInv(c)' /\ DraftInv(c)' /\ (FanoutInv(c) => FanoutInv(c)')
  <2>1. /\ pc[c] \in {"pass1", "pass2"}
        /\ todo'[c] = todo[c] \ {n}
        /\ UNCHANGED <<pc, loaded, draft, resume>>
    BY <1>1 DEF Pass1Skip, Pass2Skip, Visit1, Visit2, TypeInv, LocalsOK
  <2>2. ControlInv(c)'
    BY <2>1 DEF ControlInv
  <2>3. DraftInv(c)'
    BY <2>1 DEF DraftInv, Busy, Searching, ControlInv
  <2>4. FanoutInv(c) => FanoutInv(c)'
    BY <2>1 DEF FanoutInv, Busy, Searching, Phase, ControlInv
  <2> QED BY <2>2, <2>3, <2>4
<1>2. CASE Pass1End(c)
  <2>1. /\ pc[c] = "pass1"
        /\ pc'[c] = "pass2"
        /\ todo'[c] = Reach(loaded[c])
        /\ UNCHANGED <<loaded, draft, resume>>
    BY <1>2 DEF Pass1End, Goto, TypeInv, LocalsOK
  <2>2. ControlInv(c)' /\ Op[c] = "subscribe"
    BY <2>1 DEF ControlInv
  <2>3. DraftInv(c)'
    BY <2>1, <2>2 DEF DraftInv, Busy, Searching
  <2>4. Reach(loaded[c]) \subseteq Node
    BY ReachType DEF TypeInv, LocalsOK
  <2>5. FanoutInv(c) => FanoutInv(c)'
    BY <2>1, <2>2, <2>4 DEF FanoutInv, Busy, Searching, Phase
  <2> QED BY <2>2, <2>3, <2>5
<1>3. ASSUME NEW n \in Node, Pass2NoProxy(c, n)
      PROVE  ControlInv(c)' /\ DraftInv(c)' /\ FanoutInv(c)'
  BY <1>3, EndInv DEF Pass2NoProxy, Visit2, Results
<1>4. CASE Pass2End(c)
  BY <1>4, EndInv DEF Pass2End
<1> QED BY <1>1, <1>2, <1>3, <1>4, Pass1AttachInv, Pass2GraftInv DEF Pass1, Pass2

\* Every step of a call keeps what holds of it.
LEMMA OwnStepInv ==
    ASSUME TypeInv, NEW c \in Call, ControlInv(c), DraftInv(c),
           Unique(table), Hanging(table), Step(c) \/ StepFails(c)
    PROVE  /\ ControlInv(c)'
           /\ DraftInv(c)'
           /\ Fanout >= 2 /\ Bounded(table) /\ FanoutInv(c) => FanoutInv(c)'
<1>0. Unique(Unwritten) /\ Hanging(Unwritten) /\ Bounded(Unwritten) /\ Unwritten \in Table
  <2>1. \A n \in Node : Children(Unwritten, n) = {}
    BY DEF Children, Unwritten
  <2>2. Bounded(Unwritten)
    BY <2>1, FS_EmptySet, FanoutAssumption DEF Bounded
  <2> QED BY <2>2, UnwrittenType DEF Unique, IsInjective, Hanging, Unwritten
<1>1. CASE Load(c)
  <2>1. pc[c] = "load" /\ Begin(c, table) /\ table \in Table
    BY <1>1 DEF Load, TypeInv, StoreOK
  <2> QED BY <2>1, BeginInv
<1>2. CASE LoadFails(c)
  <2>1. pc[c] = "load" /\ (Begin(c, Unwritten) \/ Return(c, "redisError"))
    BY <1>2 DEF LoadFails
  <2> QED BY <1>0, <2>1, BeginInv, EndInv DEF Results
<1>3. CASE Pass1(c) \/ Pass2(c)
  BY <1>3, PassInv
<1>4. CASE Check(c)
  <2>1. /\ pc[c] = "check"
        /\ pc'[c] = "exec"
        /\ UNCHANGED <<loaded, draft, todo, resume>>
    BY <1>4 DEF Check, Goto, TypeInv, LocalsOK
  <2>2. Edited(c, loaded[c])' = Edited(c, loaded[c])
    BY <2>1 DEF Edited
  <2> QED BY <2>1, <2>2 DEF ControlInv, DraftInv, FanoutInv, Busy, Searching, Phase
<1>5. CASE CheckDiffers(c) \/ ExecAborts(c)
  BY <1>5, ConflictInv DEF CheckDiffers, ExecAborts
<1>6. CASE ExecCommits(c)
  <2>1. CASE Return(c, "ok")
    BY <1>6, <2>1, EndInv DEF ExecCommits, Results
  <2>2. CASE Deregisters(c) /\ Goto(c, "hdel") /\ UNCHANGED locals
    <3>1. /\ pc[c] = "exec"
          /\ pc'[c] = "hdel"
          /\ Op[c] = "cleanup"
          /\ UNCHANGED <<loaded, draft, todo, resume>>
      BY <1>6, <2>2 DEF ExecCommits, Deregisters, Goto, TypeInv, LocalsOK, locals
    <3> QED BY <3>1 DEF ControlInv, DraftInv, FanoutInv, Busy, Searching
  <2> QED BY <1>6, <2>1, <2>2 DEF ExecCommits
<1>7. CASE Hdel(c) \/ UpdateFails(c)
  <2>1. pc[c] # "done" /\ \E r \in Results : Return(c, r)
    BY <1>7 DEF Hdel, UpdateFails, Results
  <2> QED BY <2>1, EndInv
<1> QED BY <1>1, <1>2, <1>3, <1>4, <1>5, <1>6, <1>7 DEF Step, StepFails, Update
-----------------------------------------------------------------------------
(* The theorems about the stored table.                                    *)

\* A commit stores a sound table.
LEMMA CommitIsSound ==
    ASSUME TypeInv, RootedInv, NEW c \in Call, StoreWritten(c)
    PROVE  /\ Unique(table')
           /\ Hanging(table')
           /\ Fanout >= 2 /\ BoundInv => Bounded(table')
<1>1. /\ pc[c] = "exec"
      /\ table = loaded[c]
      /\ table' = draft[c]
  BY DEF StoreWritten, Set, RootedInv, CommitsOverLoaded
<1>2. ControlInv(c) /\ DraftInv(c) /\ Unique(table) /\ Hanging(table) /\ table \in Table
  BY DEF RootedInv, TypeInv, StoreOK
<1>3. CASE Op[c] = "subscribe"
  <2>1. Searching(c)
    BY <1>1, <1>3 DEF Searching
  <2>2. /\ draft[c].publishers = table.publishers
        /\ draft[c].proxies = table.proxies
        /\ Hanging(draft[c])
    BY <1>1, <1>2, <2>1 DEF DraftInv
  <2>3. BoundInv => Bounded(draft[c])
    BY <2>1 DEF BoundInv, FanoutInv
  <2> QED BY <1>1, <1>2, <2>2, <2>3 DEF Unique
<1>4. CASE Op[c] # "subscribe"
  <2>1. draft[c] = Edited(c, table)
    BY <1>1, <1>2, <1>4 DEF DraftInv
  <2> QED BY <1>1, <1>2, <1>4, <2>1, EditedIsSound DEF BoundInv
<1> QED BY <1>3, <1>4

\* What holds of a call holds as long as its own variables are unchanged.
LEMMA OtherCallInv ==
    ASSUME NEW d \in Call, SameCall(d)
    PROVE  /\ ControlInv(d) => ControlInv(d)'
           /\ DraftInv(d) => DraftInv(d)'
           /\ FanoutInv(d) => FanoutInv(d)'
<1>1. Edited(d, loaded[d])' = Edited(d, loaded[d])
  BY DEF Edited, SameCall
<1> QED BY <1>1 DEF SameCall, ControlInv, DraftInv, FanoutInv, Busy, Searching, Phase

\* RootedInv is inductive.
LEMMA RootedInvStep == TypeInv /\ RootedInv /\ [Next]_vars => RootedInv'
<1> SUFFICES ASSUME TypeInv, RootedInv, [Next]_vars
             PROVE  RootedInv'
  OBVIOUS
<1>1. ASSUME NEW c \in Call, Step(c) \/ StepFails(c)
      PROVE  RootedInv'
  <2>1. CommitsOverLoaded'
    BY <1>1, CommitsOverLoadedStep DEF RootedInv
  <2>2. Unique(table') /\ Hanging(table')
    BY <1>1, StoreStep, CommitIsSound DEF StoreKept, RootedInv
  <2>3. ASSUME NEW d \in Call
        PROVE  ControlInv(d)' /\ DraftInv(d)'
    <3>1. CASE d = c
      BY <1>1, <3>1, OwnStepInv DEF RootedInv
    <3>2. CASE d # c
      BY <1>1, <3>2, StepFrame, OtherCallInv DEF RootedInv
    <3> QED BY <3>1, <3>2
  <2> QED BY <2>1, <2>2, <2>3 DEF RootedInv
<1>2. CASE UNCHANGED <<store, pc, locals>>
  <2>1. \A d \in Call : SameCall(d)
    BY <1>2 DEF SameCall, locals
  <2>2. \A d \in Call : ControlInv(d)' /\ DraftInv(d)'
    BY <2>1, OtherCallInv DEF RootedInv
  <2>3. CommitsOverLoaded' /\ Unique(table') /\ Hanging(table')
    BY <1>2 DEF CommitsOverLoaded, RootedInv, store, locals
  <2> QED BY <2>2, <2>3 DEF RootedInv
<1> QED BY <1>1, <1>2 DEF Next, Beat, Expire, vars

\* BoundInv is inductive given RootedInv, for a fanout of at least two.
LEMMA BoundInvStep ==
    ASSUME Fanout >= 2
    PROVE  TypeInv /\ RootedInv /\ BoundInv /\ [Next]_vars => BoundInv'
<1> SUFFICES ASSUME TypeInv, RootedInv, BoundInv, [Next]_vars
             PROVE  BoundInv'
  OBVIOUS
<1>1. ASSUME NEW c \in Call, Step(c) \/ StepFails(c)
      PROVE  BoundInv'
  <2>1. Bounded(table')
    BY <1>1, StoreStep, CommitIsSound DEF StoreKept, BoundInv
  <2>2. ASSUME NEW d \in Call
        PROVE  FanoutInv(d)'
    <3>1. CASE d = c
      BY <1>1, <3>1, OwnStepInv DEF RootedInv, BoundInv
    <3>2. CASE d # c
      BY <1>1, <3>2, StepFrame, OtherCallInv DEF BoundInv
    <3> QED BY <3>1, <3>2
  <2> QED BY <2>1, <2>2 DEF BoundInv
<1>2. CASE UNCHANGED <<store, pc, locals>>
  <2>1. \A d \in Call : SameCall(d)
    BY <1>2 DEF SameCall, locals
  <2> QED BY <1>2, <2>1, OtherCallInv DEF BoundInv, store
<1> QED BY <1>1, <1>2 DEF Next, Beat, Expire, vars

\* RootedInv holds of a sound table that no call has read yet.
LEMMA RootedInvInit == Init => RootedInv
<1> SUFFICES ASSUME Init
             PROVE  RootedInv
  OBVIOUS
<1>1. \A c \in Call : pc[c] = "load" /\ resume[c] = "load" /\ watchedAt[c] = 0
  BY DEF Init
<1>2. version = 0 /\ Unique(table) /\ Hanging(table)
  BY StartAssumption DEF Init, Sound
<1> QED BY <1>1, <1>2 DEF RootedInv, CommitsOverLoaded, ControlInv, DraftInv, Busy, Searching

\* RootedInv holds in every reachable state.
LEMMA RootedInvAlways == Spec => [](TypeInv /\ RootedInv)
BY RootedInvInit, RootedInvStep, TypeInvAlways, PTL DEF Spec

\* Whatever calls run, fail or are retried, every edge of the stored table
\* hangs from the root.
THEOREM AlwaysRooted == Spec => []Rooted
<1>1. RootedInv => Rooted
  BY DEF RootedInv, Rooted
<1> QED BY <1>1, RootedInvAlways, PTL

\* The first pass of subscribe visits every publisher and proxy that the table
\* it loaded can reach from its root, once, and none before one that is less deep.
THEOREM PassVisitsReach == Spec => []BfsVisitsReach
<1>1. ASSUME TypeInv, RootedInv, NEW c \in Call, pc[c] = "pass1"
      PROVE  loaded[c] \in Table /\ loaded[c].publishers # <<>>
  BY <1>1 DEF TypeInv, LocalsOK, RootedInv, ControlInv, DraftInv, Searching
<1>2. TypeInv /\ RootedInv => BfsVisitsReach
  BY <1>1, BfsOrderVisitsReach DEF BfsVisitsReach
<1> QED BY <1>2, RootedInvAlways, PTL

\* With a fanout of at least two, no node of the stored table ever has more
\* children than the fanout.
THEOREM FanoutNeverExceeded ==
    ASSUME Fanout >= 2
    PROVE  Spec => []FanoutBound
<1>1. Init => BoundInv
  <2> SUFFICES ASSUME Init
               PROVE  BoundInv
    OBVIOUS
  <2>1. \A c \in Call : pc[c] = "load"
    BY DEF Init
  <2>2. Bounded(table)
    BY StartAssumption DEF Init, Sound
  <2> QED BY <2>1, <2>2 DEF BoundInv, FanoutInv, Busy, Searching
<1>2. TypeInv /\ RootedInv /\ BoundInv /\ [Next]_vars => BoundInv'
  BY BoundInvStep
<1>3. BoundInv => FanoutBound
  BY DEF BoundInv, FanoutBound
<1> QED BY <1>1, <1>2, <1>3, RootedInvAlways, PTL DEF Spec
-----------------------------------------------------------------------------
(* The theorems about single steps.                                        *)

\* What a step may take out of the table, and which call must have done it.
LEMMA Losses ==
    ASSUME TypeInv, RootedInv, [Next]_vars
    PROVE  /\ \A n \in Node :
                 HasParent(table, n) /\ ~HasParent(table', n) =>
                    \E c \in Call : /\ Commits(c)
                                    /\ Op[c] \in {"disconnect", "cleanup"}
                                    /\ n \in Subtree(table, Who[c])
           /\ \A n \in Intermediates(table) \ Intermediates(table') :
                 \E c \in Call : Commits(c) /\ Op[c] = "cleanup" /\ Who[c] = n
<1>1. ASSUME NEW c \in Call, StoreWritten(c)
      PROVE  /\ Commits(c)
             /\ \A n \in Node :
                   HasParent(table, n) /\ ~HasParent(table', n) =>
                      Op[c] \in {"disconnect", "cleanup"} /\ n \in Subtree(table, Who[c])
             /\ \A n \in Intermediates(table) \ Intermediates(table') :
                   Op[c] = "cleanup" /\ Who[c] = n
  <2>1. /\ pc[c] = "exec"
        /\ table = loaded[c]
        /\ table' = draft[c]
    BY <1>1 DEF StoreWritten, Set, RootedInv, CommitsOverLoaded
  <2>2. DraftInv(c) /\ Unique(table) /\ Hanging(table) /\ table \in Table
    BY DEF RootedInv, TypeInv, StoreOK
  <2>3. Commits(c)
    BY <1>1 DEF StoreWritten, Set, Commits, TypeInv, StoreOK
  <2>4. CASE Op[c] = "subscribe"
    <3>1. Searching(c)
      BY <2>1, <2>4 DEF Searching
    <3>2. /\ \A m \in Node : HasParent(table, m) => HasParent(table', m)
          /\ table'.publishers = table.publishers
          /\ table'.proxies = table.proxies
      BY <2>1, <2>2, <3>1 DEF DraftInv
    <3> QED BY <2>3, <3>2 DEF Intermediates, Publishers, Proxies
  <2>5. CASE Op[c] # "subscribe"
    <3>1. table' = Edited(c, table)
      BY <2>1, <2>2, <2>5 DEF DraftInv
    <3> QED BY <2>2, <2>3, <2>5, <3>1, EditedIsSound
  <2> QED BY <2>4, <2>5
<1>2. CASE \E c \in Call : StoreWritten(c)
  BY <1>1, <1>2
<1>3. CASE table' = table
  BY <1>3
<1>4. ASSUME NEW c \in Call, Step(c) \/ StepFails(c)
      PROVE  StoreWritten(c) \/ table' = table
  BY <1>4, StoreStep DEF StoreKept
<1>5. (\E c \in Call : StoreWritten(c)) \/ table' = table
  BY <1>4 DEF Next, Beat, Expire, vars, store
<1> QED BY <1>2, <1>3, <1>5

\* No update is lost: only the commit of a detach or clean-up of a node, or of
\* one above it, leaves the node without a parent.
THEOREM NoAttachmentLost == Spec => OnlyDetachOrphans
<1>1. TypeInv /\ RootedInv /\ [Next]_vars =>
        [\A n \in Node :
            HasParent(table, n) /\ ~HasParent(table', n) =>
              \E c \in Call : /\ Commits(c)
                              /\ Op[c] \in {"disconnect", "cleanup"}
                              /\ n \in Subtree(table, Who[c])]_vars
  BY Losses
<1> QED BY <1>1, RootedInvAlways, PTL DEF Spec, OnlyDetachOrphans

\* No registration is lost: only the commit of its own clean-up takes a
\* publisher or proxy out of the table.
THEOREM NoRegistrationLost == Spec => OnlyCleanUpDeregisters
<1>1. TypeInv /\ RootedInv /\ [Next]_vars =>
        [\A n \in Intermediates(table) \ Intermediates(table') :
            \E c \in Call : Commits(c) /\ Op[c] = "cleanup" /\ Who[c] = n]_vars
  BY Losses
<1> QED BY <1>1, RootedInvAlways, PTL DEF Spec, OnlyCleanUpDeregisters
-----------------------------------------------------------------------------
(* The theorem about giving up.                                            *)

\* The variables of call d that Charged reads, unchanged.
SameCharge(d) ==
    /\ pc'[d] = pc[d]
    /\ attempt'[d] = attempt[d]
    /\ loaded'[d] = loaded[d]
    /\ readAt'[d] = readAt[d]
    /\ watchedAt'[d] = watchedAt[d]
    /\ result'[d] = result[d]

\* Between two steps the versions and the faults only grow, and a table that
\* differs has a later version.
Advances ==
    /\ version' \in Nat /\ faults' \in Nat
    /\ version <= version' /\ faults <= faults'
    /\ version' = version => table' = table

\* The table changes only with the version; neither the version nor the number
\* of faults ever decreases.
LEMMA StepAdvances ==
    ASSUME TypeInv, [Next]_vars
    PROVE  Advances
<1>1. version \in Nat /\ faults \in Nat
  BY BoundAssumption DEF TypeInv, StoreOK
<1>2. faults' = faults \/ faults' = faults + 1
  BY DEF Next, Step, StepFails, Load, LoadFails, Pass1, Pass2, Pass1Skip, Pass1Attach,
         Pass1End, Pass2Skip, Pass2Graft, Pass2NoProxy, Pass2End, Update, Check,
         CheckDiffers, ExecCommits, ExecAborts, Hdel, UpdateFails, Submit, Fault,
         Beat, Expire, vars
<1>3. UNCHANGED <<table, version>> \/ version' = version + 1
  <2>1. ASSUME NEW c \in Call, Step(c) \/ StepFails(c)
        PROVE  UNCHANGED <<table, version>> \/ version' = version + 1
    BY <2>1, StoreStep DEF StoreKept, StoreWritten, Set
  <2> QED BY <2>1 DEF Next, Beat, Expire, vars, store
<1> QED BY <1>1, <1>2, <1>3 DEF Advances

\* The charge of a call survives the steps of the others.
LEMMA ChargeKept ==
    ASSUME TypeInv, Advances, NEW d \in Call, Charged(d), SameCharge(d)
    PROVE  Charged(d)'
<1>1. /\ version \in Nat /\ faults \in Nat
      /\ readAt[d] \in Nat /\ attempt[d] \in Nat /\ watchedAt[d] \in Nat
      /\ Budget(d) \in Nat /\ Budget(d)' = Budget(d)
  BY BoundAssumption, BudgetType DEF TypeInv, StoreOK, LocalsOK, Budget
<1> QED BY <1>1 DEF Advances, Charged, SameCharge

\* The end of a call that has not given up.
LEMMA ChargeReturn ==
    ASSUME TypeInv, Advances, NEW c \in Call, Charged(c),
           NEW r \in Results \ {"exceeded"}, Return(c, r)
    PROVE  Charged(c)'
<1>1. /\ version \in Nat /\ readAt[c] \in Nat
      /\ pc'[c] = "done" /\ result'[c] = r /\ readAt'[c] = readAt[c]
  BY DEF Return, Goto, TypeInv, StoreOK, LocalsOK
<1> QED BY <1>1 DEF Charged, Advances

\* An attempt that is lost to another call has been charged to it.
LEMMA ChargeNext ==
    ASSUME TypeInv, NEW c \in Call, Charged(c), NextAttempt(c),
           pc[c] # "done",
           UNCHANGED <<table, version, faults>>,
           Op[c] # "subscribe" => attempt[c] < version + faults
    PROVE  Charged(c)'
<1>1. /\ version \in Nat /\ faults \in Nat
      /\ attempt[c] \in Nat /\ readAt[c] \in Nat
      /\ Budget(c) \in Nat /\ Budget(c)' = Budget(c)
  BY BoundAssumption, BudgetType DEF TypeInv, StoreOK, LocalsOK, Budget
<1>2. /\ attempt'[c] = attempt[c] + 1
      /\ readAt'[c] = readAt[c]
  BY DEF NextAttempt, TypeInv, LocalsOK
<1>3. \/ /\ pc'[c] = "load"
         /\ result'[c] = result[c]
      \/ /\ attempt[c] + 1 >= Budget(c)
         /\ pc'[c] = "done"
         /\ result'[c] = "exceeded"
  BY DEF NextAttempt, Goto, TypeInv, LocalsOK
<1> QED BY <1>1, <1>2, <1>3 DEF Charged
\* A step reads the version only at the beginning of an attempt.
LEMMA ReadAtStep ==
    ASSUME TypeInv, NEW c \in Call, NEW d \in Call, Step(c) \/ StepFails(c)
    PROVE  readAt'[d] \in {readAt[d], version}
<1> USE DEF TypeInv, LocalsOK
<1>1. ASSUME NEW r, Return(c, r)
      PROVE  readAt' = readAt
  BY <1>1 DEF Return
<1>2. ASSUME NextAttempt(c)
      PROVE  readAt' = readAt
  BY <1>2 DEF NextAttempt
<1>3. ASSUME Conflict(c)
      PROVE  readAt' = readAt
  BY <1>2, <1>3 DEF Conflict, locals
<1>4. ASSUME NEW st, Begin(c, st)
      PROVE  readAt'[d] \in {readAt[d], version}
  BY <1>1, <1>4 DEF Begin, ReturnEarly
<1>5. CASE Load(c) \/ LoadFails(c)
  BY <1>1, <1>4, <1>5 DEF Load, LoadFails
<1>6. CASE Pass1(c) \/ Pass2(c)
  BY <1>1, <1>2, <1>6 DEF Pass1, Pass2, Pass1Skip, Pass1Attach, Pass1End, Pass2Skip,
                          Pass2Graft, Pass2NoProxy, Pass2End, Submit
<1>7. CASE Update(c) \/ UpdateFails(c)
  BY <1>1, <1>3, <1>7 DEF Update, UpdateFails, Check, CheckDiffers, ExecCommits,
                          ExecAborts, Hdel, locals
<1> QED BY <1>5, <1>6, <1>7 DEF Step, StepFails

\* A call's own steps keep its charge: each lost attempt has its commit or fault.
LEMMA ChargeOwn ==
    ASSUME TypeInv, RootedInv, Advances, NEW c \in Call, Charged(c),
           Step(c) \/ StepFails(c)
    PROVE  Charged(c)'
<1>1. /\ version \in Nat /\ faults \in Nat
      /\ attempt[c] \in Nat /\ readAt[c] \in Nat /\ watchedAt[c] \in Nat
      /\ ControlInv(c)
      /\ watchedAt[c] <= version
  BY BoundAssumption DEF TypeInv, StoreOK, LocalsOK, RootedInv, CommitsOverLoaded
<1>2. CASE Op[c] = "subscribe"
  BY <1>1, <1>2, ReadAtStep DEF Charged, Advances
<1>3. CASE Op[c] # "subscribe" /\ (Load(c) \/ LoadFails(c))
  <2>1. CASE \E r \in Results \ {"exceeded"} : Return(c, r)
    BY <2>1, ChargeReturn
  <2>2. ASSUME NEW st \in {table, Unwritten}, StartEdit(c, st),
               loaded' = [loaded EXCEPT ![c] = st],
               readAt' = [readAt EXCEPT ![c] = version],
               UNCHANGED <<table, version, attempt, watchedAt, result>>,
               pc[c] = "load",
               st = table \/ faults' = faults + 1
        PROVE  Charged(c)'
    <3>1. /\ pc'[c] = "check"
          /\ loaded'[c] = st
          /\ readAt'[c] = version
          /\ Budget(c)' = Budget(c)
      BY <2>2 DEF StartEdit, Goto, TypeInv, LocalsOK, Budget
    <3>2. Budget(c) \in Nat
      BY BudgetType
    <3> QED BY <1>1, <2>2, <3>1, <3>2 DEF Charged, Advances
  <2>3. ~ReturnEarly(c, table) /\ ~ReturnEarly(c, Unwritten) /\
        ~StartSubscribe(c, table) /\ ~StartSubscribe(c, Unwritten)
    BY <1>3 DEF ReturnEarly, StartSubscribe
  <2>4. CASE Load(c)
    BY <2>2, <2>3, <2>4 DEF Load, Begin, store
  <2>5. CASE LoadFails(c)
    BY <2>1, <2>2, <2>3, <2>5 DEF LoadFails, Begin, Fault, store, Results
  <2> QED BY <1>3, <2>4, <2>5
<1>4. ASSUME Op[c] # "subscribe", Pass1(c) \/ Pass2(c)
      PROVE  FALSE
  BY <1>1, <1>4 DEF ControlInv, Pass1, Pass2, Pass1Skip, Pass1Attach, Pass1End, Pass2Skip,
                    Pass2Graft, Pass2NoProxy, Pass2End, Visit1, Visit2
<1>5. CASE Op[c] # "subscribe" /\ Check(c)
  <2>1. /\ pc[c] = "check" /\ pc'[c] = "exec"
        /\ watchedAt'[c] = version
        /\ table = loaded[c]
        /\ UNCHANGED <<table, version, faults, attempt, loaded, readAt, result>>
        /\ Budget(c)' = Budget(c)
    BY <1>5 DEF Check, Goto, store, TypeInv, LocalsOK, Budget
  <2> QED BY <1>1, <2>1 DEF Charged
<1>6. CASE Op[c] # "subscribe" /\ (CheckDiffers(c) \/ ExecAborts(c))
  <2>1. /\ pc[c] \in {"check", "exec"}
        /\ NextAttempt(c)
        /\ UNCHANGED <<table, version, faults>>
    BY <1>1, <1>6 DEF CheckDiffers, ExecAborts, Conflict, ControlInv, store
  <2>2. attempt[c] < version + faults
    BY <1>1, <1>6 DEF CheckDiffers, ExecAborts, Charged
  <2> QED BY <2>1, <2>2, ChargeNext
<1>7. CASE Op[c] # "subscribe" /\ ExecCommits(c)
  <2>1. CASE Return(c, "ok")
    BY <2>1, ChargeReturn DEF Results
  <2>2. CASE Goto(c, "hdel") /\ UNCHANGED locals
    <3>1. /\ pc'[c] = "hdel"
          /\ UNCHANGED <<readAt, result>>
          /\ Budget(c)' = Budget(c)
          /\ Budget(c) \in Nat
      BY <2>2, BudgetType DEF Goto, locals, TypeInv, LocalsOK, Budget
    <3> QED BY <1>1, <3>1 DEF Charged, Advances
  <2> QED BY <1>7, <2>1, <2>2 DEF ExecCommits
<1>8. CASE Hdel(c) \/ UpdateFails(c)
  BY <1>8, ChargeReturn DEF Hdel, UpdateFails, Results
<1> QED BY <1>2, <1>3, <1>4, <1>5, <1>6, <1>7, <1>8 DEF Step, StepFails, Update

\* A step of one call leaves alone what the charge of another speaks of.
LEMMA ChargeFrame ==
    ASSUME TypeInv, NEW c \in Call, NEW d \in Call, d # c, Step(c) \/ StepFails(c)
    PROVE  SameCharge(d)
<1> USE DEF TypeInv, LocalsOK, SameCharge
<1>1. ASSUME NEW r, Return(c, r)
      PROVE  SameCharge(d)
  BY <1>1 DEF Return, Goto
<1>2. ASSUME NextAttempt(c)
      PROVE  SameCharge(d)
  BY <1>2 DEF NextAttempt, Goto
<1>3. ASSUME Conflict(c)
      PROVE  SameCharge(d)
  BY <1>2, <1>3 DEF Conflict, Goto, locals
<1>4. ASSUME NEW st, Begin(c, st)
      PROVE  SameCharge(d)
  BY <1>1, <1>4 DEF Begin, ReturnEarly, StartEdit, StartSubscribe, Goto
<1>5. CASE Load(c) \/ LoadFails(c)
  BY <1>1, <1>4, <1>5 DEF Load, LoadFails
<1>6. CASE Pass1(c)
  BY <1>6 DEF Pass1, Pass1Skip, Pass1Attach, Pass1End, Submit, Goto
<1>7. CASE Pass2(c)
  BY <1>1, <1>2, <1>7 DEF Pass2, Pass2Skip, Pass2Graft, Pass2NoProxy, Pass2End, Submit, Goto
<1>8. CASE Check(c)
  BY <1>8 DEF Check, Goto
<1>9. CASE CheckDiffers(c) \/ ExecAborts(c) \/ Hdel(c) \/ UpdateFails(c)
  BY <1>1, <1>3, <1>9 DEF CheckDiffers, ExecAborts, Hdel, UpdateFails
<1>10. CASE ExecCommits(c)
  BY <1>1, <1>10 DEF ExecCommits, Goto, locals
<1> QED BY <1>5, <1>6, <1>7, <1>8, <1>9, <1>10 DEF Step, StepFails, Update

\* ChargeInv is inductive given RootedInv.
LEMMA ChargeInvStep == TypeInv /\ RootedInv /\ ChargeInv /\ [Next]_vars => ChargeInv'
<1> SUFFICES ASSUME TypeInv, RootedInv, ChargeInv, [Next]_vars, NEW d \in Call
             PROVE  Charged(d)'
  BY DEF ChargeInv
<1>1. Charged(d) /\ Advances
  BY StepAdvances DEF ChargeInv
<1>2. ASSUME NEW c \in Call, Step(c) \/ StepFails(c)
      PROVE  Charged(d)'
  <2>1. CASE d = c
    BY <1>1, <1>2, <2>1, ChargeOwn
  <2>2. CASE d # c
    BY <1>1, <1>2, <2>2, ChargeFrame, ChargeKept
  <2> QED BY <2>1, <2>2
<1>3. CASE UNCHANGED <<pc, locals>>
  <2>1. SameCharge(d)
    BY <1>3 DEF SameCharge, locals
  <2> QED BY <1>1, <2>1, ChargeKept
<1> QED BY <1>2, <1>3 DEF Next, Beat, Expire, vars

\* A register, disconnect or clean-up gives up ("CAS retries exceeded") only
\* after as many commits of others, or faults, as it had attempts.
THEOREM NeverGivesUpAlone == Spec => []GivesUpOnlyUnderContention
<1>1. Init => ChargeInv
  <2> SUFFICES ASSUME Init, NEW c \in Call
               PROVE  Charged(c)
    BY DEF ChargeInv
  <2>1. /\ version = 0 /\ faults = 0 /\ attempt[c] = 0 /\ readAt[c] = 0
        /\ pc[c] = "load" /\ result[c] = "none"
    BY DEF Init
  <2> QED BY <2>1 DEF Charged
<1>2. TypeInv /\ ChargeInv => GivesUpOnlyUnderContention
  BY BudgetType, BoundAssumption
     DEF ChargeInv, Charged, GivesUpOnlyUnderContention, TypeInv, StoreOK
<1> QED BY <1>1, <1>2, ChargeInvStep, RootedInvAlways, PTL DEF Spec
-----------------------------------------------------------------------------
(* Every commit is one atomic operation on the tree. *)

\* The copy of a call with its only edit stays what it is.
LEMMA SamePlace ==
    ASSUME NEW c \in Call, loaded'[c] = loaded[c], draft'[c] = draft[c]
    PROVE  OnePlace(c)' <=> OnePlace(c)
BY DEF OnePlace

\* The steps of the others keep what Placing says of a call.
LEMMA PlacingKept ==
    ASSUME TypeInv, NEW d \in Call, Placing(d), Advances, SameCall(d), SameCharge(d)
    PROVE  Placing(d)'
<1>1. /\ version \in Nat /\ readAt[d] \in Nat /\ version' \in Nat
      /\ version <= version' /\ (version' = version => table' = table)
  BY DEF TypeInv, StoreOK, LocalsOK, Advances
<1>2. /\ pc'[d] = pc[d] /\ loaded'[d] = loaded[d] /\ draft'[d] = draft[d]
      /\ todo'[d] = todo[d] /\ watchedAt'[d] = watchedAt[d] /\ readAt'[d] = readAt[d]
  BY DEF SameCall, SameCharge
<1>3. readAt'[d] = version' => version' = version
  BY <1>1, <1>2 DEF Placing
<1>4. Searching(d)' <=> Searching(d)
  BY <1>2 DEF Searching
<1> QED BY <1>1, <1>2, <1>3, <1>4, SamePlace DEF Placing

\* A call between two attempts, or at its end.
LEMMA PlacingIdle ==
    ASSUME TypeInv, NEW c \in Call, Placing(c), Advances,
           pc'[c] \in {"load", "hdel", "done"}, readAt'[c] = readAt[c]
    PROVE  Placing(c)'
<1>1. version \in Nat /\ readAt[c] \in Nat /\ version' \in Nat /\ version <= version'
  BY DEF TypeInv, StoreOK, LocalsOK, Advances
<1>2. ~Searching(c)' /\ pc'[c] # "exec"
  BY DEF Searching
<1> QED BY <1>1, <1>2 DEF Placing

\* The beginning of an attempt: it loads the table, or nothing.
LEMMA PlacingBegin ==
    ASSUME TypeInv, NEW c \in Call, Placing(c), Advances, NEW st \in {table, Unwritten},
           Begin(c, st)
    PROVE  Placing(c)'
<1>0. /\ version \in Nat /\ version' = version /\ table' = table /\ table \in Table
  BY DEF TypeInv, StoreOK, Begin, store
<1>1. CASE ReturnEarly(c, st)
  <2>1. pc'[c] = "done" /\ readAt'[c] = readAt[c]
    BY <1>1 DEF ReturnEarly, Return, Goto, TypeInv, LocalsOK
  <2> QED BY <2>1, PlacingIdle
<1>2. CASE StartEdit(c, st) /\ readAt' = [readAt EXCEPT ![c] = version]
  <2>1. Op[c] # "subscribe" /\ pc'[c] = "check" /\ readAt'[c] = version
    BY <1>2 DEF StartEdit, Goto, TypeInv, LocalsOK
  <2> QED BY <1>0, <2>1 DEF Placing, Searching
<1>3. CASE /\ StartSubscribe(c, st)
           /\ readAt' = [readAt EXCEPT ![c] = version]
           /\ loaded' = [loaded EXCEPT ![c] = st]
  <2>1. /\ st.publishers # <<>> /\ ~HasParent(st, Who[c])
        /\ pc'[c] = "pass1" /\ readAt'[c] = version /\ loaded'[c] = st
        /\ draft'[c] = Stamp(st, Who[c]) /\ todo'[c] = Reach(st)
    BY <1>3 DEF StartSubscribe, Goto, TypeInv, LocalsOK
  <2>2. st = table
    BY <2>1 DEF Unwritten
  <2>3. Root(st) \in Reach(st)
    BY <1>0, <2>1, <2>2, ReachIsClosed DEF ReachClosed
  <2> QED BY <1>0, <2>1, <2>2, <2>3 DEF Placing
<1> QED BY <1>1, <1>2, <1>3 DEF Begin

\* The passes.
LEMMA PlacingPass ==
    ASSUME TypeInv, RootedInv, NEW c \in Call, Placing(c), Advances,
           alive \subseteq Heartbeats, Pass1(c) \/ Pass2(c)
    PROVE  Placing(c)'
<1>0. /\ version \in Nat /\ readAt[c] \in Nat /\ watchedAt[c] \in Nat
      /\ loaded[c] \in Table /\ Who[c] \in Node
      /\ pc[c] \in {"pass1", "pass2"}
      /\ UNCHANGED <<table, version, alive>>
  <2>1. UNCHANGED <<table, version, alive>>
    BY DEF Pass1, Pass2, Pass1Skip, Pass1Attach, Pass1End, Pass2Skip, Pass2Graft,
           Pass2NoProxy, Pass2End, Submit, store
  <2>2. pc[c] \in {"pass1", "pass2"}
    BY DEF Pass1, Pass2, Pass1Skip, Pass1Attach, Pass1End, Pass2Skip, Pass2Graft,
           Pass2NoProxy, Pass2End, Visit1, Visit2
  <2> QED BY <2>1, <2>2, CallAssumption DEF TypeInv, StoreOK, LocalsOK
<1>1. Searching(c) /\ ControlInv(c) /\ DraftInv(c)
  BY <1>0 DEF RootedInv, ControlInv, Searching
<1>2. /\ loaded[c].publishers # <<>> /\ todo[c] \subseteq Reach(loaded[c])
      /\ ~HasParent(loaded[c], Who[c])
      /\ readAt[c] <= version
  BY <1>1 DEF DraftInv, Placing
<1>3. ASSUME readAt[c] = version
      PROVE  /\ table = loaded[c] /\ draft[c] = Stamp(loaded[c], Who[c])
             /\ pc[c] = "pass1" /\ Root(loaded[c]) \notin todo[c] =>
                  Full(loaded[c], Root(loaded[c]))
             /\ pc[c] = "pass2" => Full(loaded[c], Root(loaded[c]))
  BY <1>0, <1>1, <1>3 DEF Placing
<1>4. ASSUME NEW n \in Node, Pass1Skip(c, n) \/ Pass2Skip(c, n)
      PROVE  Placing(c)'
  <2>1. /\ UNCHANGED <<pc, loaded, draft, readAt, watchedAt>>
        /\ todo'[c] = todo[c] \ {n}
    BY <1>4 DEF Pass1Skip, Pass2Skip, TypeInv, LocalsOK
  <2>2. Usable(loaded[c], alive, Root(loaded[c]))
    BY <1>0, <1>2 DEF Usable, Root, Publishers, Range, Table
  <2>3. pc[c] = "pass1" /\ n = Root(loaded[c]) => Full(loaded[c], Root(loaded[c]))
    BY <1>4, <2>2 DEF Pass1Skip, Pass2Skip, Visit2
  <2> QED BY <1>0, <1>1, <1>2, <1>3, <2>1, <2>3 DEF Placing, Searching
<1>5. CASE Pass1End(c)
  <2>1. /\ UNCHANGED <<loaded, draft, readAt, watchedAt>>
        /\ pc[c] = "pass1" /\ pc'[c] = "pass2" /\ todo[c] = {}
    BY <1>5 DEF Pass1End, Goto, TypeInv, LocalsOK
  <2> QED BY <1>0, <1>1, <1>2, <1>3, <2>1 DEF Placing
<1>6. ASSUME NEW st, NEW R, NEW l, Submit(c, st, R, l), readAt[c] = version => OnePlace(c)'
      PROVE  Placing(c)'
  <2>1. pc'[c] = "check" /\ UNCHANGED <<loaded, readAt>>
    BY <1>6 DEF Submit, Goto, TypeInv, LocalsOK
  <2> QED BY <1>0, <1>2, <1>3, <1>6, <2>1 DEF Placing
<1>7. ASSUME NEW n \in Node, Pass1Attach(c, n)
      PROVE  Placing(c)'
  <2>1. /\ Submit(c, Attach(draft[c], n, Who[c]), todo[c] \ {n}, "pass1")
        /\ ~Full(loaded[c], n) /\ n \in Reach(loaded[c])
    BY <1>2, <1>7 DEF Pass1Attach, Visit1
  <2>2. loaded'[c] = loaded[c] /\ draft'[c] = Attach(draft[c], n, Who[c])
    BY <2>1 DEF Submit, TypeInv, LocalsOK
  <2>3. readAt[c] = version => OnePlace(c)'
    BY <1>3, <2>1, <2>2 DEF OnePlace
  <2> QED BY <1>6, <2>1, <2>3
<1>8. ASSUME NEW n \in Node, Pass2Graft(c, n)
      PROVE  Placing(c)'
  <2>1. PICK x \in Node, M \in Moves(loaded[c], n) :
          /\ IsPick(draft[c], alive, x)
          /\ Submit(c, Graft(draft[c], n, x, Who[c], M), todo[c] \ {n}, "pass2")
    BY <1>8 DEF Pass2Graft
  <2>2. pc[c] = "pass2" /\ n \in Reach(loaded[c])
    BY <1>2, <1>8 DEF Pass2Graft, Visit2
  <2>3. loaded'[c] = loaded[c] /\ draft'[c] = Graft(draft[c], n, x, Who[c], M)
    BY <2>1 DEF Submit, TypeInv, LocalsOK
  <2>4. ASSUME readAt[c] = version
        PROVE  OnePlace(c)'
    <3>1. /\ Stamp(loaded[c], Who[c]).edges = loaded[c].edges
          /\ Stamp(loaded[c], Who[c]).publishers = loaded[c].publishers
          /\ Stamp(loaded[c], Who[c]).proxies = loaded[c].proxies
      BY <1>0, StampKeeps
    <3>2. x \in Proxies(draft[c]) /\ x \in alive /\ x \notin UsedNodes(draft[c])
      BY <2>1 DEF IsPick, Proxies, Range
    <3>3. x \in (Proxies(loaded[c]) \cap Heartbeats) \ UsedNodes(loaded[c])
      BY <1>3, <2>4, <3>1, <3>2
         DEF Proxies, UsedNodes, Publishers, HasParent, Children
    <3> QED BY <1>3, <2>2, <2>3, <2>4, <3>3 DEF OnePlace
  <2> QED BY <1>6, <2>1, <2>4
<1>9. CASE (\E n \in Node : Pass2NoProxy(c, n)) \/ Pass2End(c)
  <2>1. pc'[c] \in {"load", "done"} /\ readAt' = readAt
    BY <1>9 DEF Pass2NoProxy, Pass2End, Return, NextAttempt, Goto, TypeInv, LocalsOK
  <2> QED BY <2>1, PlacingIdle
<1> QED BY <1>4, <1>5, <1>7, <1>8, <1>9 DEF Pass1, Pass2

\* The update of the key.
LEMMA PlacingUpdate ==
    ASSUME TypeInv, RootedInv, NEW c \in Call, Placing(c), Advances,
           Update(c) \/ UpdateFails(c)
    PROVE  Placing(c)'
<1>0. /\ version \in Nat /\ readAt[c] \in Nat /\ watchedAt[c] \in Nat
      /\ readAt[c] <= version /\ watchedAt[c] <= version
      /\ ControlInv(c)
  BY DEF TypeInv, StoreOK, LocalsOK, RootedInv, CommitsOverLoaded, Placing
<1>1. ASSUME NEW r, Return(c, r)
      PROVE  Placing(c)'
  <2>1. pc'[c] = "done" /\ readAt' = readAt
    BY <1>1 DEF Return, Goto, TypeInv, LocalsOK
  <2> QED BY <2>1, PlacingIdle
<1>2. ASSUME pc[c] \in {"check", "exec"}, Conflict(c), UNCHANGED <<table, version>>,
             Searching(c) => readAt[c] # version
      PROVE  Placing(c)'
  <2>1. CASE NextAttempt(c)
    <3>1. pc'[c] \in {"load", "done"} /\ readAt' = readAt
      BY <2>1 DEF NextAttempt, Goto, TypeInv, LocalsOK
    <3> QED BY <3>1, PlacingIdle
  <2>2. CASE resume[c] # "load" /\ Goto(c, resume[c]) /\ UNCHANGED locals
    <3>1. Searching(c) /\ pc'[c] \in {"pass1", "pass2"}
      BY <1>0, <1>2, <2>2 DEF ControlInv, Searching, Goto, TypeInv, LocalsOK
    <3>2. UNCHANGED <<loaded, readAt>>
      BY <2>2 DEF locals
    <3> QED BY <1>0, <1>2, <3>1, <3>2 DEF Placing
  <2> QED BY <1>2, <2>1, <2>2 DEF Conflict
<1>3. CASE Check(c)
  <2>1. /\ pc[c] = "check" /\ pc'[c] = "exec" /\ watchedAt'[c] = version
        /\ UNCHANGED <<table, version, loaded, draft, readAt>>
    BY <1>3 DEF Check, Goto, TypeInv, LocalsOK, store
  <2>2. Searching(c)' <=> Searching(c)
    BY <2>1 DEF Searching
  <2>3. OnePlace(c)' <=> OnePlace(c)
    BY <2>1, SamePlace
  <2> QED BY <1>0, <2>1, <2>2, <2>3 DEF Placing
<1>4. CASE CheckDiffers(c)
  <2>1. Searching(c) => readAt[c] # version
    BY <1>4 DEF CheckDiffers, Placing
  <2> QED BY <1>2, <1>4, <2>1 DEF CheckDiffers, store
<1>5. CASE ExecAborts(c)
  <2>1. readAt[c] # version
    BY <1>0, <1>5 DEF ExecAborts, Placing
  <2> QED BY <1>2, <1>5, <2>1 DEF ExecAborts, store
<1>6. CASE ExecCommits(c)
  <2>1. CASE Goto(c, "hdel") /\ UNCHANGED locals
    <3>1. pc'[c] = "hdel" /\ readAt' = readAt
      BY <2>1 DEF Goto, locals, TypeInv, LocalsOK
    <3> QED BY <3>1, PlacingIdle
  <2> QED BY <1>1, <1>6, <2>1 DEF ExecCommits
<1>7. CASE Hdel(c) \/ UpdateFails(c)
  BY <1>1, <1>7 DEF Hdel, UpdateFails
<1> QED BY <1>3, <1>4, <1>5, <1>6, <1>7 DEF Update

LEMMA PlacingInvStep == TypeInv /\ RootedInv /\ PlacingInv /\ [Next]_vars => PlacingInv'
<1> SUFFICES ASSUME TypeInv, RootedInv, PlacingInv, [Next]_vars
             PROVE  PlacingInv'
  OBVIOUS
<1>0. Advances
  BY StepAdvances
<1>1. alive' \subseteq Heartbeats
  <2>1. \/ alive' \subseteq alive
        \/ \E x \in Node : Beat(x)
    BY DEF Next, Step, StepFails, Load, LoadFails, Begin, Pass1, Pass2, Pass1Skip,
           Pass1Attach, Pass1End, Pass2Skip, Pass2Graft, Pass2NoProxy, Pass2End, Update,
           Check, CheckDiffers, ExecCommits, ExecAborts, Hdel, UpdateFails, Submit,
           Expire, vars
  <2> QED BY <2>1 DEF Beat, PlacingInv
<1>2. ASSUME NEW d \in Call
      PROVE  Placing(d)'
  <2>0. Placing(d) /\ alive \subseteq Heartbeats
    BY DEF PlacingInv
  <2>1. ASSUME NEW c \in Call, Step(c) \/ StepFails(c), d # c
        PROVE  Placing(d)'
    BY <1>0, <2>0, <2>1, StepFrame, ChargeFrame, PlacingKept
  <2>2. CASE Load(d) \/ LoadFails(d)
    <3>1. (\E st \in {table, Unwritten} : Begin(d, st))
            \/ Return(d, "redisError")
      BY <2>2 DEF Load, LoadFails
    <3>2. ASSUME Return(d, "redisError")
          PROVE  pc'[d] = "done" /\ readAt' = readAt
      BY <3>2 DEF Return, Goto, TypeInv, LocalsOK
    <3> QED BY <1>0, <2>0, <3>1, <3>2, PlacingBegin, PlacingIdle
  <2>3. CASE Pass1(d) \/ Pass2(d)
    BY <1>0, <2>0, <2>3, PlacingPass
  <2>4. CASE Update(d) \/ UpdateFails(d)
    BY <1>0, <2>0, <2>4, PlacingUpdate
  <2>5. CASE UNCHANGED <<pc, locals>>
    <3>1. SameCall(d) /\ SameCharge(d)
      BY <2>5 DEF SameCall, SameCharge, locals
    <3> QED BY <1>0, <2>0, <3>1, PlacingKept
  <2> QED BY <2>1, <2>2, <2>3, <2>4, <2>5 DEF Next, Step, StepFails, Beat, Expire, vars
<1> QED BY <1>1, <1>2 DEF PlacingInv

LEMMA PlacingInvInit == Init => PlacingInv
<1> SUFFICES ASSUME Init
             PROVE  PlacingInv
  OBVIOUS
<1>1. /\ alive = {} /\ version = 0
      /\ \A c \in Call : pc[c] = "load" /\ readAt[c] = 0
  BY DEF Init
<1> QED BY <1>1 DEF PlacingInv, Placing, Searching

LEMMA PlacingInvAlways == Spec => [](TypeInv /\ RootedInv /\ PlacingInv)
BY PlacingInvInit, PlacingInvStep, RootedInvAlways, PTL DEF Spec

\* The operators of TopicTree are those of RoutingTable.
LEMMA TreeOperators ==
    ASSUME NEW st, NEW n, NEW s, NEW x, NEW M
    PROVE  /\ Tree!AddPublisher(st, n) = AddPublisher(st, n)
           /\ Tree!AddProxy(st, n) = AddProxy(st, n)
           /\ Tree!HasParent(st, n) <=> HasParent(st, n)
           /\ Tree!Reach(st) = Reach(st)
           /\ Tree!Full(st, n) <=> Full(st, n)
           /\ Tree!Root(st) = Root(st)
           /\ Tree!Stamp(st, s) = Stamp(st, s)
           /\ Tree!Attach(st, n, s) = Attach(st, n, s)
           /\ Tree!Proxies(st) = Proxies(st)
           /\ Tree!UsedNodes(st) = UsedNodes(st)
           /\ Tree!Moves(st, n) = Moves(st, n)
           /\ Tree!Graft(st, n, x, s, M) = Graft(st, n, x, s, M)
           /\ Tree!Detach(st, n) = Detach(st, n)
           /\ Tree!CleanUp(st, n) = CleanUp(st, n)
<1>0. \A S : Tree!Cardinality(S) = Cardinality(S)
  BY DEF Tree!Cardinality, Cardinality
<1>1. /\ Tree!AddPublisher(st, n) = AddPublisher(st, n)
      /\ Tree!AddProxy(st, n) = AddProxy(st, n)
  BY DEF Tree!AddPublisher, Tree!AddProxy, AddPublisher, AddProxy, Tree!AppendUnique,
         AppendUnique, Tree!Range, Range
<1>2. /\ Tree!Publishers(st) = Publishers(st)
      /\ Tree!Proxies(st) = Proxies(st)
  BY DEF Tree!Publishers, Publishers, Tree!Proxies, Proxies, Tree!Range, Range
<1>3. Tree!Intermediates(st) = Intermediates(st) /\ Tree!Root(st) = Root(st)
  BY <1>2 DEF Tree!Intermediates, Intermediates, Tree!Root, Root
<1>4. \A m : /\ Tree!HasParent(st, m) <=> HasParent(st, m)
             /\ Tree!Children(st, m) = Children(st, m)
             /\ Tree!Full(st, m) <=> Full(st, m)
  <2>1. \A m : Tree!Children(st, m) = Children(st, m)
    BY DEF Tree!Children, Children
  <2>2. \A m : Tree!HasParent(st, m) <=> HasParent(st, m)
    BY DEF Tree!HasParent, HasParent
  <2>3. \A m : Tree!Full(st, m) <=> Full(st, m)
    BY <1>0, <2>1 DEF Tree!Full, Full
  <2> QED BY <2>1, <2>2, <2>3
<1>5. Tree!Reach(st) = Reach(st)
  <2>1. \A S : Tree!ReachClosed(st, S) = ReachClosed(st, S)
    BY <1>3 DEF Tree!ReachClosed, ReachClosed, Tree!Root, Root
  <2> QED BY <1>3, <2>1 DEF Tree!Reach, Reach
<1>6. Tree!Stamp(st, s) = Stamp(st, s)
  BY <1>3, <1>4 DEF Tree!Stamp, Stamp
<1>7. Tree!UsedNodes(st) = UsedNodes(st)
  BY <1>2, <1>4 DEF Tree!UsedNodes, UsedNodes
<1>8. Tree!Moves(st, n) = Moves(st, n)
  <2>1. \A S : Tree!Max(S) = Max(S) /\ Tree!Min(S) = Min(S)
    BY DEF Tree!Max, Max, Tree!Min, Min
  <2>2. \A k : Tree!MoveCount(k) = MoveCount(k)
    BY <2>1 DEF Tree!MoveCount, MoveCount
  <2> QED BY <1>0, <1>2, <1>4, <2>2 DEF Tree!Moves, Moves
<1>9. Tree!Detach(st, n) = Detach(st, n) /\ Tree!CleanUp(st, n) = CleanUp(st, n)
  <2>1. \A vec : Tree!Without(vec, n) = Without(vec, n)
    BY DEF Tree!Without, Without, Tree!RemoveAt, RemoveAt, Tree!Range, Range
  <2>2. Tree!Subtree(st, n) = Subtree(st, n)
    BY DEF Tree!Subtree, Subtree, Tree!SubtreeClosed, SubtreeClosed
  <2> QED BY <2>1, <2>2 DEF Tree!CleanUp, CleanUp, Tree!Detach, Detach, Tree!DropEdges, DropEdges
<1> QED
  BY <1>1, <1>2, <1>3, <1>4, <1>5, <1>6, <1>7, <1>8, <1>9
     DEF Tree!Attach, Attach, Tree!Graft, Graft

\* What a step does to the stored table: nothing, or one edit by a call.
LEMMA StoredEdit ==
    ASSUME TypeInv, RootedInv, PlacingInv, NothingRestored, [Next]_vars
    PROVE  \/ table' = table
           \/ \E c \in Call : Op[c] # "subscribe" /\ table' = Edited(c, table)
           \/ \E c \in Call :
                 /\ Op[c] = "subscribe" /\ table.publishers # <<>>
                 /\ loaded[c] = table /\ draft[c] = table'
                 /\ ~HasParent(table, Who[c])
                 /\ OnePlace(c)
<1>1. ASSUME NEW c \in Call, StoreWritten(c)
      PROVE  \/ Op[c] # "subscribe" /\ table' = Edited(c, table)
             \/ /\ Op[c] = "subscribe" /\ table.publishers # <<>>
                /\ loaded[c] = table /\ draft[c] = table'
                /\ ~HasParent(table, Who[c])
                /\ OnePlace(c)
  <2>1. /\ pc[c] = "exec" /\ version = watchedAt[c]
        /\ table = loaded[c] /\ table' = draft[c]
        /\ DraftInv(c) /\ Placing(c)
    BY <1>1 DEF StoreWritten, Set, RootedInv, CommitsOverLoaded, PlacingInv
  <2>2. CASE Op[c] = "subscribe"
    <3>1. Searching(c) /\ readAt[c] = version
      BY <2>1, <2>2 DEF Searching, NothingRestored
    <3> QED BY <2>1, <2>2, <3>1 DEF Placing, DraftInv
  <2>3. CASE Op[c] # "subscribe"
    BY <2>1, <2>3 DEF DraftInv
  <2> QED BY <2>2, <2>3
<1>2. ASSUME NEW c \in Call, Step(c) \/ StepFails(c)
      PROVE  StoreWritten(c) \/ table' = table
  BY <1>2, StoreStep DEF StoreKept
<1>3. (\E c \in Call : StoreWritten(c)) \/ table' = table
  BY <1>2 DEF Next, Beat, Expire, vars, store
<1> QED BY <1>1, <1>3

\* Every step of the calls is a step of the tree, or none.
LEMMA StepIsAtomic ==
    ASSUME TypeInv, RootedInv, PlacingInv, NothingRestored, [Next]_vars
    PROVE  [Tree!Next]_table
<1>1. ASSUME NEW c \in Call, Op[c] # "subscribe", table' = Edited(c, table)
      PROVE  Tree!Next
  <2>1. Op[c] \in {"publisher", "proxy", "disconnect", "cleanup"} /\ Who[c] \in Node
    BY <1>1, CallAssumption DEF Ops
  <2>2. \/ Tree!RegisterPublisher(Who[c]) \/ Tree!RegisterProxy(Who[c])
        \/ Tree!Disconnect(Who[c]) \/ Tree!Lose(Who[c])
    BY <1>1, <2>1, TreeOperators
       DEF Edited, Tree!RegisterPublisher, Tree!RegisterProxy, Tree!Disconnect, Tree!Lose
  <2> QED BY <2>1, <2>2 DEF Tree!Next
<1>2. ASSUME NEW c \in Call, table.publishers # <<>>,
             loaded[c] = table, draft[c] = table', ~HasParent(table, Who[c]), OnePlace(c)
      PROVE  Tree!Next
  <2> DEFINE s == Who[c]
             st == Stamp(table, s)
  <2>1. s \in Node /\ Reach(table) \subseteq Node
    BY CallAssumption, ReachType DEF TypeInv, StoreOK
  <2>2. Tree!Joins(s)
    BY <1>2, TreeOperators DEF Tree!Joins
  <2>3. CASE \E n \in Reach(table) : ~Full(table, n) /\ table' = Attach(st, n, s)
    <3>1. PICK n \in Reach(table) : ~Full(table, n) /\ table' = Attach(st, n, s)
      BY <2>3
    <3>2. Tree!JoinUnder(s, n)
      BY <2>2, <3>1, TreeOperators DEF Tree!JoinUnder
    <3> QED BY <2>1, <3>2 DEF Tree!Next
  <2>4. CASE /\ Full(table, Root(table))
             /\ \E n \in Reach(table) :
                \E x \in (Proxies(table) \cap Heartbeats) \ UsedNodes(table) :
                \E M \in Moves(table, n) : table' = Graft(st, n, x, s, M)
    <3>0. PICK n \in Reach(table) :
            \E x \in (Proxies(table) \cap Heartbeats) \ UsedNodes(table) :
            \E M \in Moves(table, n) : table' = Graft(st, n, x, s, M)
      BY <2>4
    <3>1. PICK x \in (Proxies(table) \cap Heartbeats) \ UsedNodes(table), M \in Moves(table, n) :
            table' = Graft(st, n, x, s, M)
      BY <3>0
    <3>2. table' = Tree!Graft(Tree!Stamp(table, s), n, x, s, M)
      <4>1. Tree!Stamp(table, s) = st
        BY TreeOperators
      <4> HIDE DEF st
      <4>2. Tree!Graft(st, n, x, s, M) = Graft(st, n, x, s, M)
        BY TreeOperators
      <4> QED BY <3>1, <4>1, <4>2
    <3>3. M \in Tree!Moves(table, n)
      BY <3>1, TreeOperators
    <3>4. /\ n \in Tree!Reach(table) /\ Tree!Full(table, Tree!Root(table))
          /\ x \in Tree!Proxies(table) \ Tree!UsedNodes(table)
      BY <2>4, <3>1, TreeOperators
    <3>5. Tree!JoinByGraft(s, n, x)
      BY <2>2, <3>2, <3>3, <3>4 DEF Tree!JoinByGraft
    <3>6. x \in Node
      BY <3>1, ReachType DEF Intermediates, TypeInv, StoreOK
    <3> QED BY <2>1, <3>5, <3>6 DEF Tree!Next
  <2> QED BY <1>2, <2>3, <2>4 DEF OnePlace
<1> QED BY <1>1, <1>2, StoredEdit

\* Unless the text of the key is restored under a call that has read it, every
\* interleaving of loads, walks, failed updates and retries does one atomic
\* operation on the tree with each commit: a subscribe puts its node under one
\* parent, and only if the stored tree has none for it.
THEOREM CommitsAreAtomic == Spec /\ []NothingRestored => OneAtomicUpdate
<1>1. Init => Tree!Init
  BY DEF Init, Tree!Init
<1>2. TypeInv /\ RootedInv /\ PlacingInv /\ NothingRestored /\ [Next]_vars => [Tree!Next]_table
  BY StepIsAtomic
<1> QED BY <1>1, <1>2, PlacingInvAlways, PTL DEF Spec, OneAtomicUpdate, Tree!Spec

\* The edges of a table form a tree.
Single(st) ==
    \A n \in Node : \A p, q \in Node : <<p, n>> \in st.edges /\ <<q, n>> \in st.edges => p = q

\* No process that registers as a proxy calls subscribe.
OnlyListenersSubscribe ==
    \A c \in Call : Op[c] = "subscribe" => Who[c] \notin Heartbeats

\* A node without a parent that is placed leaves the others the parent they have.
LEMMA PlacedOnce ==
    ASSUME TypeInv, Single(table), NEW c \in Call, OnlyListenersSubscribe,
           Op[c] = "subscribe", loaded[c] = table, draft[c] = table',
           ~HasParent(table, Who[c]), OnePlace(c)
    PROVE  Single(table')
<1> DEFINE s == Who[c]
           st == Stamp(table, s)
<1>1. /\ s \in Node /\ Reach(table) \subseteq Node /\ table \in Table
      /\ Intermediates(table) \subseteq Node
  BY CallAssumption, ReachType DEF TypeInv, StoreOK
<1>2. st \in Table /\ st.edges = table.edges
  BY <1>1, EditTypes, StampKeeps
<1> HIDE DEF st
<1>3. \A p \in Node : <<p, s>> \notin table.edges
  BY DEF HasParent
<1>4. CASE \E n \in Reach(table) : ~Full(table, n) /\ table' = Attach(st, n, s)
  <2>1. PICK n \in Reach(table) : table' = Attach(st, n, s)
    BY <1>4
  <2>2. table'.edges = table.edges \cup {<<n, s>>}
    BY <1>1, <1>2, <2>1, AttachKeeps
  <2>3. ASSUME NEW m \in Node, NEW p \in Node, NEW q \in Node,
               <<p, m>> \in table'.edges, <<q, m>> \in table'.edges
        PROVE  p = q
    <3>1. CASE m = s
      BY <1>3, <2>2, <2>3, <3>1
    <3>2. CASE m # s
      BY <2>2, <2>3, <3>2 DEF Single
    <3> QED BY <3>1, <3>2
  <2> QED BY <2>3 DEF Single
<1>5. CASE \E n \in Reach(table) :
           \E x \in (Proxies(table) \cap Heartbeats) \ UsedNodes(table) :
           \E M \in Moves(table, n) : table' = Graft(st, n, x, s, M)
  <2>1. PICK n \in Reach(table) :
           \E x \in (Proxies(table) \cap Heartbeats) \ UsedNodes(table) :
           \E M \in Moves(table, n) : table' = Graft(st, n, x, s, M)
    BY <1>5
  <2>2. PICK x \in (Proxies(table) \cap Heartbeats) \ UsedNodes(table), M \in Moves(table, n) :
           table' = Graft(st, n, x, s, M)
    BY <2>1
  <2>3. /\ n \in Node /\ x \in Node
        /\ \A p \in Node : <<p, x>> \notin table.edges
    BY <1>1, <2>2 DEF UsedNodes, HasParent, Intermediates
  <2>4. x # s
    BY <2>2 DEF OnlyListenersSubscribe
  <2>5. \A m \in M : m \in Node /\ <<n, m>> \in table.edges
    BY <2>2 DEF Moves, Children
  <2>6. x \notin M /\ s \notin M
    BY <1>3, <2>3, <2>5
  <2>7. table'.edges = (table.edges \ ({n} \X M)) \cup {<<n, x>>, <<x, s>>} \cup ({x} \X M)
    <3> DEFINE E == (st.edges \ ({n} \X M)) \cup {<<n, x>>, <<x, s>>} \cup ({x} \X M)
    <3>1. table' = [st EXCEPT !.edges = E, !.attach_ms = @ \cup M]
      BY <2>2 DEF Graft
    <3> HIDE DEF E
    <3>2. table'.edges = E
      BY <1>2, <3>1 DEF Table
    <3> QED BY <1>2, <3>2 DEF E
  <2>8. ASSUME NEW m \in Node, NEW p \in Node, NEW q \in Node,
               <<p, m>> \in table'.edges, <<q, m>> \in table'.edges
        PROVE  p = q
    <3>1. CASE m = x
      BY <2>3, <2>4, <2>6, <2>7, <2>8, <3>1
    <3>2. CASE m = s
      BY <1>3, <2>4, <2>6, <2>7, <2>8, <3>2
    <3>3. CASE m \in M
      <4>1. \A r \in Node : <<r, m>> \in table.edges => r = n
        BY <2>3, <2>5, <3>3 DEF Single
      <4>2. \A r \in Node : <<r, m>> \in table'.edges => r = x
        BY <2>6, <2>7, <3>3, <4>1
      <4> QED BY <2>8, <4>2
    <3>4. CASE m # x /\ m # s /\ m \notin M
      <4>1. <<p, m>> \in table.edges /\ <<q, m>> \in table.edges
        BY <2>7, <2>8, <3>4
      <4> QED BY <4>1 DEF Single
    <3> QED BY <3>1, <3>2, <3>3, <3>4
  <2> QED BY <2>8 DEF Single
<1> QED BY <1>4, <1>5 DEF OnePlace, st

\* Unless the text of the key is restored under a call that has read it, the
\* edges always form a tree, if they do at the start and proxies do not
\* subscribe: no node is given a second parent by a call that found it without
\* one, although another call attached it meanwhile.
THEOREM OneParent ==
    ASSUME Single(Start), OnlyListenersSubscribe
    PROVE  Spec /\ []NothingRestored => []SingleParent
<1>1. Init => Single(table)
  BY DEF Init
<1>2. ASSUME TypeInv, RootedInv, PlacingInv, NothingRestored, Single(table), [Next]_vars
      PROVE  Single(table')
  <2>1. ASSUME NEW c \in Call, Op[c] # "subscribe", table' = Edited(c, table)
        PROVE  Single(table')
    <3>1. Op[c] \in {"publisher", "proxy", "disconnect", "cleanup"} /\ table \in Table
      BY <1>2, <2>1, CallAssumption DEF Ops, TypeInv, StoreOK
    <3>2. table'.edges \subseteq table.edges
      BY <2>1, <3>1 DEF Edited, AddPublisher, AddProxy, Detach, CleanUp, DropEdges, Table
    <3> QED BY <1>2, <3>2 DEF Single
  <2> QED BY <1>2, <2>1, StoredEdit, PlacedOnce
<1>3. TypeInv /\ RootedInv /\ PlacingInv /\ NothingRestored /\ Single(table) /\ [Next]_vars
        => Single(table)'
  BY <1>2 DEF Single
<1>4. Single(table) => SingleParent
  BY DEF Single, SingleParent
<1> QED BY <1>1, <1>3, <1>4, PlacingInvAlways, PTL DEF Spec
-----------------------------------------------------------------------------
(* The names of the registered nodes. *)

\* Where the name of a node may be deleted, and from where.
LEMMA NamesStep ==
    ASSUME TypeInv, NEW c \in Call, Step(c) \/ StepFails(c)
    PROVE  /\ named' = named \/ (pc[c] = "hdel" /\ named' = named \ {Who[c]})
           /\ pc'[c] = "hdel" => pc[c] = "exec" /\ Set(c) /\ version = watchedAt[c]
                                  /\ Deregisters(c)
<1> DEFINE Names == /\ named' = named \/ (pc[c] = "hdel" /\ named' = named \ {Who[c]})
                    /\ pc'[c] = "hdel" => pc[c] = "exec" /\ Set(c) /\ version = watchedAt[c]
                                           /\ Deregisters(c)
<1> USE DEF TypeInv, LocalsOK
<1>1. ASSUME NEW r, Return(c, r)
      PROVE  pc'[c] # "hdel"
  BY <1>1 DEF Return, Goto
<1>2. ASSUME NextAttempt(c)
      PROVE  pc'[c] # "hdel"
  BY <1>2 DEF NextAttempt, Goto
<1>3. ASSUME Conflict(c)
      PROVE  pc'[c] # "hdel"
  <2>1. CASE resume[c] # "load" /\ Goto(c, resume[c])
    <3>1. resume[c] \in {"load", "pass1", "pass2"}
      OBVIOUS
    <3> QED BY <2>1, <3>1 DEF Goto
  <2> QED BY <1>2, <1>3, <2>1 DEF Conflict
<1>4. ASSUME NEW st, Begin(c, st)
      PROVE  Names
  <2>1. pc'[c] # "hdel"
    BY <1>1, <1>4 DEF Begin, ReturnEarly, StartEdit, StartSubscribe, Goto
  <2> QED BY <1>4, <2>1 DEF Begin, store
<1>5. CASE Load(c) \/ LoadFails(c)
  BY <1>1, <1>4, <1>5 DEF Load, LoadFails, store
<1>6. CASE Pass1(c)
  <2>1. UNCHANGED named
    BY <1>6 DEF Pass1, Pass1Skip, Pass1Attach, Pass1End, Submit, store
  <2>2. pc'[c] # "hdel"
    BY <1>6 DEF Pass1, Pass1Skip, Pass1Attach, Pass1End, Visit1, Submit, Goto
  <2> QED BY <2>1, <2>2
<1>7. CASE Pass2(c)
  <2>1. UNCHANGED named
    BY <1>7 DEF Pass2, Pass2Skip, Pass2Graft, Pass2NoProxy, Pass2End, Submit, store
  <2>2. pc'[c] # "hdel"
    BY <1>1, <1>2, <1>7 DEF Pass2, Pass2Skip, Pass2Graft, Pass2NoProxy, Pass2End, Visit2,
                            Submit, Goto
  <2> QED BY <2>1, <2>2
<1>8. CASE Check(c)
  BY <1>8 DEF Check, Goto, store
<1>9. CASE CheckDiffers(c) \/ ExecAborts(c)
  BY <1>3, <1>9 DEF CheckDiffers, ExecAborts, store
<1>10. CASE ExecCommits(c)
  <2>1. pc'[c] = "hdel" => Deregisters(c)
    BY <1>1, <1>10 DEF ExecCommits
  <2> QED BY <1>10, <2>1 DEF ExecCommits, Set
<1>11. CASE Hdel(c) \/ UpdateFails(c)
  BY <1>1, <1>11 DEF Hdel, UpdateFails, Set, store
<1> QED BY <1>5, <1>6, <1>7, <1>8, <1>9, <1>10, <1>11 DEF Step, StepFails, Update

\* A node that is lost does not register again: processes register as they start.
LostForGood ==
    \A c, d \in Call : Op[c] = "cleanup" /\ Op[d] \in {"publisher", "proxy"} => Who[c] # Who[d]

\* What a commit makes of the registries.
LEMMA RegistriesStep ==
    ASSUME TypeInv, RootedInv, NEW c \in Call, StoreWritten(c)
    PROVE  /\ \A n \in Intermediates(table') \ Intermediates(table) :
                 Op[c] \in {"publisher", "proxy"} /\ n = Who[c]
           /\ Op[c] = "cleanup" => Who[c] \notin Intermediates(table')
<1>1. /\ pc[c] = "exec" /\ table = loaded[c] /\ table' = draft[c] /\ DraftInv(c)
      /\ table \in Table /\ Unique(table) /\ Who[c] \in Node /\ Op[c] \in Ops
  BY CallAssumption DEF StoreWritten, Set, RootedInv, CommitsOverLoaded, TypeInv, StoreOK
<1>2. CASE Op[c] = "subscribe"
  <2>1. table'.publishers = table.publishers /\ table'.proxies = table.proxies
    BY <1>1, <1>2 DEF DraftInv, Searching
  <2> QED BY <1>2, <2>1 DEF Intermediates, Publishers, Proxies
<1>3. CASE Op[c] # "subscribe"
  <2>1. table' = Edited(c, table)
    BY <1>1, <1>3 DEF DraftInv
  <2>2. CASE Op[c] \in {"publisher", "proxy"}
    <3>1. table' = AddPublisher(table, Who[c]) \/ table' = AddProxy(table, Who[c])
      BY <2>1, <2>2 DEF Edited
    <3>2. /\ table'.publishers \in {table.publishers, AppendUnique(table.publishers, Who[c])}
          /\ table'.proxies \in {table.proxies, AppendUnique(table.proxies, Who[c])}
      BY <1>1, <3>1 DEF AddPublisher, AddProxy, Table
    <3>3. /\ Range(AppendUnique(table.publishers, Who[c])) = Publishers(table) \cup {Who[c]}
          /\ Range(AppendUnique(table.proxies, Who[c])) = Proxies(table) \cup {Who[c]}
      BY <1>1, AppendFacts DEF Unique, Table, Publishers, Proxies
    <3>4. Intermediates(table') \subseteq Intermediates(table) \cup {Who[c]}
      BY <3>2, <3>3 DEF Intermediates, Publishers, Proxies
    <3> QED BY <2>2, <3>4
  <2>3. CASE Op[c] = "disconnect"
    <3>1. table'.publishers = table.publishers /\ table'.proxies = table.proxies
      BY <1>1, <2>1, <2>3 DEF Edited, Detach, Table
    <3> QED BY <2>3, <3>1 DEF Intermediates, Publishers, Proxies
  <2>4. CASE Op[c] = "cleanup"
    <3>1. /\ table'.publishers = Without(table.publishers, Who[c])
          /\ table'.proxies = Without(table.proxies, Who[c])
      BY <1>1, <2>1, <2>4 DEF Edited, CleanUp, Table
    <3>2. /\ Range(Without(table.publishers, Who[c])) = Publishers(table) \ {Who[c]}
          /\ Range(Without(table.proxies, Who[c])) = Proxies(table) \ {Who[c]}
      BY <1>1, WithoutFacts DEF Unique, Table, Publishers, Proxies
    <3> QED BY <3>1, <3>2 DEF Intermediates, Publishers, Proxies
  <2> QED BY <1>1, <1>3, <2>2, <2>3, <2>4 DEF Ops
<1> QED BY <1>2, <1>3

\* A registered node keeps its entry in gdpname_map, if no node that is lost
\* registers again: its name is deleted only after the commit that deregistered it.
THEOREM RegisteredKeepNames ==
    ASSUME LostForGood
    PROVE  Spec => []RegisteredAreNamed
<1>1. Init => RegisteredAreNamed /\ NamingInv
  <2> SUFFICES ASSUME Init
               PROVE  RegisteredAreNamed /\ NamingInv
    OBVIOUS
  <2>1. named = Node /\ table \in Table /\ \A c \in Call : pc[c] = "load"
    BY StartAssumption DEF Init
  <2> QED BY <2>1, ReachType DEF RegisteredAreNamed, NamingInv
<1>2. ASSUME TypeInv, RootedInv, RegisteredAreNamed, NamingInv, [Next]_vars
      PROVE  RegisteredAreNamed' /\ NamingInv'
  <2> DEFINE Lost == { Who[d] : d \in { e \in Call : Op[e] = "cleanup" } }
  <2>0. /\ Intermediates(table) \subseteq named /\ Node \ named \subseteq Lost
        /\ \A d \in Call :
              pc[d] = "hdel" => Op[d] = "cleanup" /\ Who[d] \notin Intermediates(table)
    BY <1>2 DEF RegisteredAreNamed, NamingInv
  <2> SUFFICES /\ Intermediates(table') \subseteq named' /\ Node \ named' \subseteq Lost
               /\ \A d \in Call : pc'[d] = "hdel" =>
                     Op[d] = "cleanup" /\ Who[d] \notin Intermediates(table')
    BY DEF RegisteredAreNamed, NamingInv, Intermediates, Publishers, Proxies
  <2>1. CASE UNCHANGED <<table, named, pc>>
    BY <2>0, <2>1
  <2>2. ASSUME NEW c \in Call, Step(c) \/ StepFails(c)
        PROVE  /\ Intermediates(table') \subseteq named' /\ Node \ named' \subseteq Lost
               /\ \A d \in Call : pc'[d] = "hdel" =>
                     Op[d] = "cleanup" /\ Who[d] \notin Intermediates(table')
    <3>1. \A d \in Call \ {c} : pc'[d] = pc[d]
      BY <1>2, <2>2, StepFrame DEF SameCall
    <3>2. /\ named' = named \/ (pc[c] = "hdel" /\ named' = named \ {Who[c]})
          /\ pc'[c] = "hdel" => pc[c] = "exec" /\ Set(c) /\ version = watchedAt[c]
                                 /\ Deregisters(c)
      BY <1>2, <2>2, NamesStep
    <3>3. Node \ named' \subseteq Lost
      BY <2>0, <3>2
    <3>4. CASE StoreKept(c)
      <4>1. table' = table /\ pc'[c] # "hdel"
        BY <1>2, <3>2, <3>4 DEF StoreKept, Set, TypeInv, StoreOK
      <4> QED BY <2>0, <3>1, <3>2, <3>3, <4>1
    <3>5. CASE StoreWritten(c)
      <4>1. /\ \A n \in Intermediates(table') \ Intermediates(table) :
                  Op[c] \in {"publisher", "proxy"} /\ n = Who[c]
            /\ Op[c] = "cleanup" => Who[c] \notin Intermediates(table')
        BY <1>2, <3>5, RegistriesStep
      <4>2. named' = named /\ (pc'[c] = "hdel" => Op[c] = "cleanup")
        BY <3>2, <3>5 DEF StoreWritten, Deregisters
      <4>3. Who[c] \in Node
        BY CallAssumption
      <4>4. Op[c] \in {"publisher", "proxy"} => Who[c] \notin Lost
        BY DEF LostForGood
      <4>5. Intermediates(table') \subseteq named'
        BY <2>0, <4>1, <4>2, <4>3, <4>4
      <4>6. ASSUME NEW d \in Call, pc'[d] = "hdel"
            PROVE  Op[d] = "cleanup" /\ Who[d] \notin Intermediates(table')
        <5>1. CASE d = c
          BY <4>1, <4>2, <4>6, <5>1
        <5>2. CASE d # c
          <6>1. Op[d] = "cleanup" /\ Who[d] \notin Intermediates(table)
            BY <2>0, <3>1, <4>6, <5>2
          <6> QED BY <4>1, <4>4, <6>1
        <5> QED BY <5>1, <5>2
      <4> QED BY <3>3, <4>5, <4>6
    <3> QED BY <1>2, <2>2, <3>4, <3>5, StoreStep
  <2> QED BY <1>2, <2>1, <2>2 DEF Next, Beat, Expire, vars, store
<1>3. TypeInv /\ RootedInv /\ RegisteredAreNamed /\ NamingInv /\ [Next]_vars
        => RegisteredAreNamed' /\ NamingInv'
  BY <1>2
<1> QED BY <1>1, <1>3, RootedInvAlways, PTL DEF Spec
-----------------------------------------------------------------------------
(* Topics that only grow. *)

\* b has every publisher, every proxy and every node with a parent that a has.
Within(a, b) ==
    /\ Publishers(a) \subseteq Publishers(b) /\ Proxies(a) \subseteq Proxies(b)
    /\ \A n \in Node : HasParent(a, n) => HasParent(b, n)

\* The calls only bring nodes in, and none registers a node that is registered
\* already or that another one registers in the same way.
JoinsOnly ==
    /\ \A c \in Call : Op[c] \in {"publisher", "proxy", "subscribe"}
    /\ \A c, d \in Call : Op[c] = Op[d] /\ Op[c] # "subscribe" /\ Who[c] = Who[d] => c = d
    /\ \A c \in Call : /\ Op[c] = "publisher" => Who[c] \notin Publishers(Start)
                       /\ Op[c] = "proxy" => Who[c] \notin Proxies(Start)

\* The inductive invariant behind NothingRestored in a topic that only grows: a
\* table that was SET again holds more than what a subscribe has loaded, so it
\* cannot be what was loaded.
Growing(c) ==
    /\ pc[c] # "done" =>
          /\ Op[c] = "publisher" => Who[c] \notin Publishers(table)
          /\ Op[c] = "proxy" => Who[c] \notin Proxies(table)
    /\ Searching(c) =>
          /\ pc[c] \in {"check", "exec"} => HasParent(draft[c], Who[c])
          /\ Within(loaded[c], table)
          /\ readAt[c] # version => ~Within(table, loaded[c])

GrowingInv == \A c \in Call : Growing(c)

\* What a commit of a joining call does: it brings something in.
LEMMA CommitGrows ==
    ASSUME JoinsOnly, TypeInv, RootedInv, PlacingInv, GrowingInv,
           NEW c \in Call, StoreWritten(c)
    PROVE  Within(table, table') /\ ~Within(table', table)
<1>1. /\ pc[c] = "exec" /\ table = loaded[c] /\ table' = draft[c]
      /\ DraftInv(c) /\ Placing(c) /\ Growing(c)
      /\ Unique(table) /\ table \in Table /\ Who[c] \in Node
  BY CallAssumption DEF StoreWritten, Set, RootedInv, CommitsOverLoaded, PlacingInv,
     GrowingInv, TypeInv, StoreOK
<1>2. CASE Op[c] = "publisher"
  <2>1. table' = AddPublisher(table, Who[c]) /\ Who[c] \notin Publishers(table)
    BY <1>1, <1>2 DEF DraftInv, Edited, Growing
  <2>2. /\ table'.publishers = AppendUnique(table.publishers, Who[c])
        /\ table'.proxies = table.proxies /\ table'.edges = table.edges
    BY <1>1, <2>1 DEF AddPublisher, Table
  <2>3. Publishers(table') = Publishers(table) \cup {Who[c]}
    BY <1>1, <2>2, AppendFacts DEF Publishers, Unique, Table
  <2> QED BY <2>1, <2>2, <2>3 DEF Within, Proxies, HasParent
<1>3. CASE Op[c] = "proxy"
  <2>1. table' = AddProxy(table, Who[c]) /\ Who[c] \notin Proxies(table)
    BY <1>1, <1>3 DEF DraftInv, Edited, Growing
  <2>2. /\ table'.proxies = AppendUnique(table.proxies, Who[c])
        /\ table'.publishers = table.publishers /\ table'.edges = table.edges
    BY <1>1, <2>1 DEF AddProxy, Table
  <2>3. Proxies(table') = Proxies(table) \cup {Who[c]}
    BY <1>1, <2>2, AppendFacts DEF Proxies, Unique, Table
  <2> QED BY <2>1, <2>2, <2>3 DEF Within, Publishers, HasParent
<1>4. CASE Op[c] = "subscribe"
  <2>1. Searching(c)
    BY <1>1, <1>4 DEF Searching
  <2>2. /\ table'.publishers = table.publishers /\ table'.proxies = table.proxies
        /\ \A m \in Node : HasParent(table, m) => HasParent(table', m)
    BY <1>1, <2>1 DEF DraftInv
  <2>3. HasParent(table', Who[c]) /\ ~HasParent(table, Who[c])
    BY <1>1, <2>1 DEF Growing, Placing
  <2> QED BY <1>1, <2>2, <2>3 DEF Within, Publishers, Proxies
<1> QED BY <1>2, <1>3, <1>4 DEF JoinsOnly

\* A registration that is not made yet stays so until it is made.
LEMMA UnregisteredKept ==
    ASSUME JoinsOnly, TypeInv, RootedInv, NEW c \in Call, StoreWritten(c),
           NEW d \in Call, d # c
    PROVE  /\ Op[d] = "publisher" /\ Who[d] \notin Publishers(table) =>
                 Who[d] \notin Publishers(table')
           /\ Op[d] = "proxy" /\ Who[d] \notin Proxies(table) => Who[d] \notin Proxies(table')
<1>1. /\ pc[c] = "exec" /\ table = loaded[c] /\ table' = draft[c] /\ DraftInv(c)
      /\ Unique(table) /\ table \in Table /\ Who[c] \in Node
  BY CallAssumption DEF StoreWritten, Set, RootedInv, CommitsOverLoaded, TypeInv, StoreOK
<1>2. CASE Op[c] = "publisher"
  <2>1. table' = AddPublisher(table, Who[c])
    BY <1>1, <1>2 DEF DraftInv, Edited
  <2>2. /\ table'.publishers = AppendUnique(table.publishers, Who[c])
        /\ table'.proxies = table.proxies
    BY <1>1, <2>1 DEF AddPublisher, Table
  <2>3. Publishers(table') = Publishers(table) \cup {Who[c]}
    BY <1>1, <2>2, AppendFacts DEF Publishers, Unique, Table
  <2>4. Op[d] = "publisher" => Who[d] # Who[c]
    BY <1>2 DEF JoinsOnly
  <2> QED BY <2>2, <2>3, <2>4 DEF Proxies
<1>3. CASE Op[c] = "proxy"
  <2>1. table' = AddProxy(table, Who[c])
    BY <1>1, <1>3 DEF DraftInv, Edited
  <2>2. /\ table'.proxies = AppendUnique(table.proxies, Who[c])
        /\ table'.publishers = table.publishers
    BY <1>1, <2>1 DEF AddProxy, Table
  <2>3. Proxies(table') = Proxies(table) \cup {Who[c]}
    BY <1>1, <2>2, AppendFacts DEF Proxies, Unique, Table
  <2>4. Op[d] = "proxy" => Who[d] # Who[c]
    BY <1>3 DEF JoinsOnly
  <2> QED BY <2>2, <2>3, <2>4 DEF Publishers
<1>4. CASE Op[c] = "subscribe"
  <2>1. table'.publishers = table.publishers /\ table'.proxies = table.proxies
    BY <1>1, <1>4 DEF DraftInv, Searching
  <2> QED BY <2>1 DEF Publishers, Proxies
<1> QED BY <1>2, <1>3, <1>4 DEF JoinsOnly

\* What a step of a call does to what that call knows while it searches: it
\* begins with the stored table, or goes on with the one it loaded, and hands
\* over a copy in which its node has a parent.
LEMMA SearchStep ==
    ASSUME JoinsOnly, TypeInv, RootedInv, NEW c \in Call, Step(c) \/ StepFails(c),
           Searching(c)'
    PROVE  /\ UNCHANGED <<table, version>>
           /\ \/ loaded'[c] = table /\ readAt'[c] = version /\ pc'[c] = "pass1"
              \/ /\ Searching(c) /\ loaded'[c] = loaded[c] /\ readAt'[c] = readAt[c]
                 /\ pc'[c] \in {"check", "exec"} =>
                       \/ HasParent(draft'[c], Who[c])
                       \/ pc[c] = "check" /\ draft'[c] = draft[c]
<1>0. /\ Op[c] = "subscribe" /\ pc'[c] \in {"pass1", "pass2", "check", "exec"}
      /\ ControlInv(c) /\ Who[c] \in Node /\ LocalsOK
  BY CallAssumption DEF Searching, RootedInv, TypeInv
<1>1. ASSUME NEW r, Return(c, r)
      PROVE  FALSE
  BY <1>0, <1>1 DEF Return, Goto, LocalsOK
<1>2. ASSUME NextAttempt(c)
      PROVE  FALSE
  BY <1>0, <1>2 DEF NextAttempt, Goto, LocalsOK
<1>3. ASSUME Conflict(c), pc[c] \in {"check", "exec"}
      PROVE  Searching(c) /\ UNCHANGED <<loaded, readAt>> /\ pc'[c] \in {"pass1", "pass2"}
  BY <1>0, <1>2, <1>3 DEF Conflict, Goto, locals, LocalsOK, Searching
<1>4. ASSUME NEW st \in {table, Unwritten}, Begin(c, st)
      PROVE  /\ UNCHANGED <<table, version>>
             /\ loaded'[c] = table /\ readAt'[c] = version /\ pc'[c] = "pass1"
  <2>1. ~ReturnEarly(c, st) /\ ~StartEdit(c, st)
    BY <1>0, <1>1 DEF ReturnEarly, StartEdit
  <2>2. /\ StartSubscribe(c, st)
        /\ loaded' = [loaded EXCEPT ![c] = st] /\ readAt' = [readAt EXCEPT ![c] = version]
        /\ UNCHANGED <<table, version>>
    BY <1>4, <2>1 DEF Begin, store
  <2>3. st = table
    BY <2>2 DEF StartSubscribe, Unwritten
  <2> QED BY <1>0, <2>2, <2>3 DEF StartSubscribe, Goto, LocalsOK
<1>5. CASE Load(c) \/ LoadFails(c)
  BY <1>1, <1>4, <1>5 DEF Load, LoadFails
<1>6. CASE Pass1(c) \/ Pass2(c)
  <2>1. /\ UNCHANGED <<table, version, loaded, readAt>> /\ pc[c] \in {"pass1", "pass2"}
    BY <1>1, <1>2, <1>6
    DEF Pass1, Pass2, Pass1Skip, Pass1Attach, Pass1End, Pass2Skip, Pass2Graft, Pass2NoProxy,
        Pass2End, Submit, Visit1, Visit2, store
  <2>2. ASSUME NEW n \in Node, Pass1Attach(c, n)
        PROVE  HasParent(draft'[c], Who[c])
    <3>1. draft'[c] = Attach(draft[c], n, Who[c]) /\ draft[c] \in Table
      BY <1>0, <2>2 DEF Pass1Attach, Submit, LocalsOK
    <3>2. <<n, Who[c]>> \in draft'[c].edges
      BY <3>1 DEF Attach, Table
    <3> QED BY <3>2 DEF HasParent
  <2>3. ASSUME NEW n \in Node, Pass2Graft(c, n)
        PROVE  HasParent(draft'[c], Who[c])
    <3>1. PICK x \in Node, M \in Moves(loaded[c], n) :
              Submit(c, Graft(draft[c], n, x, Who[c], M), todo[c] \ {n}, "pass2")
      BY <2>3 DEF Pass2Graft
    <3>2. draft'[c] = Graft(draft[c], n, x, Who[c], M) /\ draft[c] \in Table
      BY <1>0, <3>1 DEF Submit, LocalsOK
    <3>3. <<x, Who[c]>> \in draft'[c].edges
      BY <3>2 DEF Graft, Table
    <3> QED BY <3>3 DEF HasParent
  <2>4. pc'[c] \in {"check", "exec"} => HasParent(draft'[c], Who[c])
    BY <1>0, <1>1, <1>2, <1>6, <2>1, <2>2, <2>3
    DEF Pass1, Pass2, Pass1Skip, Pass1End, Pass2Skip, Pass2NoProxy, Pass2End, Goto, LocalsOK
  <2> QED BY <1>0, <2>1, <2>4 DEF Searching
<1>7. CASE Check(c)
  <2>1. /\ UNCHANGED <<table, version, loaded, readAt, draft>> /\ pc[c] = "check"
    BY <1>7 DEF Check, store
  <2> QED BY <1>0, <2>1 DEF Searching
<1>8. CASE CheckDiffers(c) \/ ExecAborts(c)
  <2>1. Conflict(c) /\ pc[c] \in {"check", "exec"} /\ UNCHANGED <<table, version>>
    BY <1>8 DEF CheckDiffers, ExecAborts, store
  <2> QED BY <1>3, <2>1
<1>9. CASE ExecCommits(c) \/ Hdel(c) \/ UpdateFails(c)
  BY <1>0, <1>1, <1>9 DEF ExecCommits, Hdel, UpdateFails, Deregisters
<1> QED BY <1>5, <1>6, <1>7, <1>8, <1>9 DEF Step, StepFails, Update

\* A joining call that has committed has returned.
LEMMA CommitEnds ==
    ASSUME JoinsOnly, TypeInv, NEW c \in Call, Step(c) \/ StepFails(c), version' # version
    PROVE  pc'[c] = "done"
<1>0. LocalsOK /\ version \in Nat /\ Op[c] # "cleanup"
  BY DEF TypeInv, StoreOK, JoinsOnly
<1>1. ASSUME NEW r, Return(c, r)
      PROVE  pc'[c] = "done"
  BY <1>0, <1>1 DEF Return, Goto, LocalsOK
<1>2. ExecCommits(c) \/ UpdateFails(c)
  BY DEF Step, StepFails, Load, LoadFails, Begin, Pass1, Pass2, Pass1Skip, Pass1Attach,
         Pass1End, Pass2Skip, Pass2Graft, Pass2NoProxy, Pass2End, Update, Check,
         CheckDiffers, ExecAborts, Hdel, Submit, store
<1> QED BY <1>0, <1>1, <1>2 DEF ExecCommits, UpdateFails, Deregisters

\* What the steps of the others leave of Growing.
LEMMA GrowingKept ==
    ASSUME TypeInv, NEW d \in Call, Growing(d), Placing(d), SameCall(d), SameCharge(d),
           \/ UNCHANGED <<table, version>>
           \/ /\ version' = version + 1
              /\ Within(table, table') /\ ~Within(table', table)
              /\ Op[d] = "publisher" /\ Who[d] \notin Publishers(table) =>
                    Who[d] \notin Publishers(table')
              /\ Op[d] = "proxy" /\ Who[d] \notin Proxies(table) =>
                    Who[d] \notin Proxies(table')
    PROVE  Growing(d)'
<1>1. /\ pc'[d] = pc[d] /\ loaded'[d] = loaded[d] /\ draft'[d] = draft[d]
      /\ readAt'[d] = readAt[d]
  BY DEF SameCall, SameCharge
<1>2. Searching(d)' <=> Searching(d)
  BY <1>1 DEF Searching
<1>3. HasParent(draft[d], Who[d])' <=> HasParent(draft[d], Who[d])
  BY <1>1 DEF HasParent
<1>4. CASE UNCHANGED <<table, version>>
  BY <1>1, <1>2, <1>3, <1>4 DEF Growing, Within, Publishers, Proxies, HasParent
<1>5. CASE /\ version' = version + 1
           /\ Within(table, table') /\ ~Within(table', table)
           /\ Op[d] = "publisher" /\ Who[d] \notin Publishers(table) =>
                 Who[d] \notin Publishers(table')
           /\ Op[d] = "proxy" /\ Who[d] \notin Proxies(table) =>
                 Who[d] \notin Proxies(table')
  <2>1. ASSUME Searching(d)
        PROVE  /\ Within(loaded[d], table')
               /\ ~Within(table', loaded[d])
    <3>1. Within(loaded[d], table)
      BY <2>1 DEF Growing
    <3>2. Within(loaded[d], table')
      BY <1>5, <3>1 DEF Within
    <3>3. Within(table', loaded[d]) => Within(table', table)
      BY <3>1 DEF Within
    <3> QED BY <1>5, <3>2, <3>3
  <2>2. Searching(d) => /\ Within(loaded[d], table)'
                        /\ ~Within(table, loaded[d])'
    BY <1>1, <2>1
  <2> QED BY <1>1, <1>2, <1>3, <1>5, <2>2 DEF Growing, Publishers, Proxies
<1> QED BY <1>4, <1>5

\* GrowingInv is inductive, given the invariants of the other theorems.
LEMMA GrowingInvStep ==
    ASSUME JoinsOnly, TypeInv, RootedInv, PlacingInv, GrowingInv, [Next]_vars
    PROVE  GrowingInv'
<1> SUFFICES ASSUME NEW d \in Call
             PROVE  Growing(d)'
  BY DEF GrowingInv
<1>0. Growing(d) /\ Placing(d) /\ version \in Nat
  BY DEF GrowingInv, PlacingInv, TypeInv, StoreOK
<1>1. ASSUME NEW c \in Call, Step(c) \/ StepFails(c), c # d
      PROVE  Growing(d)'
  <2>1. SameCall(d) /\ SameCharge(d)
    BY <1>1, StepFrame, ChargeFrame
  <2>2. CASE StoreWritten(c)
    <3>1. version' = version + 1
      BY <2>2 DEF StoreWritten, Set
    <3>2. Within(table, table') /\ ~Within(table', table)
      BY <2>2, CommitGrows
    <3>3. /\ Op[d] = "publisher" /\ Who[d] \notin Publishers(table) =>
                Who[d] \notin Publishers(table')
          /\ Op[d] = "proxy" /\ Who[d] \notin Proxies(table) => Who[d] \notin Proxies(table')
      BY <1>1, <2>2, UnregisteredKept
    <3> QED BY <1>0, <2>1, <3>1, <3>2, <3>3, GrowingKept
  <2>3. CASE StoreKept(c)
    BY <1>0, <2>1, <2>3, GrowingKept DEF StoreKept
  <2> QED BY <1>1, <2>2, <2>3, StoreStep
<1>2. ASSUME Step(d) \/ StepFails(d)
      PROVE  Growing(d)'
  <2>1. ASSUME pc'[d] # "done"
        PROVE  /\ Op[d] = "publisher" => Who[d] \notin Publishers(table')
               /\ Op[d] = "proxy" => Who[d] \notin Proxies(table')
    <3>1. ~StoreWritten(d)
      <4>1. StoreWritten(d) => version' # version
        BY <1>0 DEF StoreWritten, Set
      <4> QED BY <1>2, <2>1, <4>1, CommitEnds
    <3>2. table' = table
      BY <1>2, <3>1, StoreStep DEF StoreKept
    <3>3. pc[d] # "done"
      BY <1>2 DEF Step, StepFails, Load, LoadFails, Pass1, Pass2, Pass1Skip, Pass1Attach,
         Pass1End, Pass2Skip, Pass2Graft, Pass2NoProxy, Pass2End, Visit1, Visit2, Update,
         Check, CheckDiffers, ExecCommits, ExecAborts, Hdel, UpdateFails
    <3> QED BY <1>0, <3>2, <3>3 DEF Growing
  <2>2. ASSUME Searching(d)'
        PROVE  /\ pc'[d] \in {"check", "exec"} => HasParent(draft'[d], Who[d])
               /\ Within(loaded'[d], table')
               /\ readAt'[d] # version' => ~Within(table', loaded'[d])
    <3>1. /\ UNCHANGED <<table, version>>
          /\ \/ loaded'[d] = table /\ readAt'[d] = version /\ pc'[d] = "pass1"
             \/ /\ Searching(d) /\ loaded'[d] = loaded[d] /\ readAt'[d] = readAt[d]
                /\ pc'[d] \in {"check", "exec"} =>
                      \/ HasParent(draft'[d], Who[d])
                      \/ pc[d] = "check" /\ draft'[d] = draft[d]
      BY <1>2, <2>2, SearchStep
    <3>2. CASE loaded'[d] = table /\ readAt'[d] = version /\ pc'[d] = "pass1"
      BY <3>1, <3>2 DEF Within
    <3>3. CASE /\ Searching(d) /\ loaded'[d] = loaded[d] /\ readAt'[d] = readAt[d]
               /\ pc'[d] \in {"check", "exec"} =>
                     \/ HasParent(draft'[d], Who[d])
                     \/ pc[d] = "check" /\ draft'[d] = draft[d]
      BY <1>0, <3>1, <3>3 DEF Growing
    <3> QED BY <3>1, <3>2, <3>3
  <2>3. /\ Publishers(table)' = Publishers(table') /\ Proxies(table)' = Proxies(table')
        /\ HasParent(draft[d], Who[d])' <=> HasParent(draft'[d], Who[d])
        /\ Within(loaded[d], table)' <=> Within(loaded'[d], table')
        /\ Within(table, loaded[d])' <=> Within(table', loaded'[d])
    BY DEF Publishers, Proxies, HasParent, Within
  <2> QED BY <2>1, <2>2, <2>3 DEF Growing
<1>3. CASE UNCHANGED <<table, version, pc, locals>>
  <2>1. SameCall(d) /\ SameCharge(d) /\ UNCHANGED <<table, version>>
    BY <1>3 DEF SameCall, SameCharge, locals
  <2> QED BY <1>0, <2>1, GrowingKept
<1> QED BY <1>1, <1>2, <1>3 DEF Next, Beat, Expire, vars, store

\* In a topic that only grows, the comparison of texts is enough: a subscribe
\* that can commit does so over the very SET that it loaded, however many calls
\* registered and subscribed meanwhile, and however many of its updates failed.
THEOREM NothingRestoredByJoins ==
    ASSUME JoinsOnly
    PROVE  Spec => []NothingRestored
<1>1. Init => GrowingInv
  <2> SUFFICES ASSUME Init, NEW c \in Call
               PROVE  Growing(c)
    BY DEF GrowingInv
  <2>1. table = Start /\ pc[c] = "load"
    BY DEF Init
  <2> QED BY <2>1 DEF Growing, Searching, JoinsOnly
<1>2. TypeInv /\ RootedInv /\ PlacingInv /\ GrowingInv /\ [Next]_vars => GrowingInv'
  BY GrowingInvStep
<1>3. TypeInv /\ RootedInv /\ GrowingInv => NothingRestored
  <2> SUFFICES ASSUME RootedInv, GrowingInv, NEW c \in Call, Op[c] = "subscribe",
                      pc[c] = "exec", watchedAt[c] = version
               PROVE  readAt[c] = version
    BY DEF NothingRestored
  <2>1. Searching(c) /\ Growing(c) /\ table = loaded[c]
    BY DEF Searching, GrowingInv, RootedInv, CommitsOverLoaded
  <2>2. Within(table, loaded[c])
    BY <2>1 DEF Within
  <2> QED BY <2>1, <2>2 DEF Growing
<1> QED BY <1>1, <1>2, <1>3, PlacingInvAlways, PTL DEF Spec

\* So in such a topic every commit is one atomic operation on the stored tree.
THEOREM JoinsAreAtomic ==
    ASSUME JoinsOnly
    PROVE  Spec => OneAtomicUpdate
<1>1. Spec => []NothingRestored
  BY NothingRestoredByJoins
<1> QED BY <1>1, CommitsAreAtomic, PTL

\* And no two calls that subscribe the same node at once give it two parents.
THEOREM JoinsGiveOneParent ==
    ASSUME JoinsOnly, Single(Start), OnlyListenersSubscribe
    PROVE  Spec => []SingleParent
<1>1. Spec => []NothingRestored
  BY NothingRestoredByJoins
<1>2. Spec /\ []NothingRestored => []SingleParent
  BY OneParent
<1> QED BY <1>1, <1>2, PTL
===============================================================================
