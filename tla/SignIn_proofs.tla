---------------------------- MODULE SignIn_proofs ----------------------------
(***************************************************************************)
(* What holds of the authentication path for any number of calls.          *)
(*                                                                         *)
(* Everything rests on the lock: whoever is past it is the first in the    *)
(* queue, so there is one such call, and the page, the form and the        *)
(* session it has seen are its own until it leaves.                        *)
(***************************************************************************)
EXTENDS SignIn, SequenceTheorems, FunctionTheorems, FiniteSetTheorems, TLAPS

-----------------------------------------------------------------------------
(* The lock *)

Queued(c) == \E i \in 1 .. Len(queue) : queue[i] = c

LockInv ==
    /\ pc \in [Callers -> Resting \cup {"waiting"} \cup Steps]
    /\ queue \in Seq(Callers)
    /\ \A i, j \in 1 .. Len(queue) : queue[i] = queue[j] => i = j
    /\ \A c \in Callers : pc[c] \notin Resting <=> Queued(c)
    /\ \A c \in Callers : pc[c] \in Steps => queue # <<>> /\ queue[1] = c

\* What a step of a call does to the lock, whatever else it does: it takes it,
\* holds on to it, or leaves it.
Enters(c) == pc[c] = "waiting" /\ MayEnter(c) /\ GoTo(c, "check")
Holds(c) == pc[c] \in Steps /\ \E step \in Steps : GoTo(c, step)
Leaves(c) == pc[c] \in Steps /\ \E how \in {"ok", "raised"} : Leave(c, how)

\* A decision of the code is one of the last two.
LEMMA DecisionIsHoldOrLeave ==
  ASSUME NEW c \in Callers, pc[c] \in Steps,
         NEW next \in Steps \cup {"ok", "fail"}, Decide(c, next)
  PROVE  Holds(c) \/ Leaves(c)
<1>1. CASE next = "ok"
  BY <1>1 DEF Decide, Leaves
<1>2. CASE next = "fail"
  BY <1>2 DEF Decide, Leaves
<1>3. CASE next \in Steps
  BY <1>3 DEF Decide, Holds, Steps
<1> QED
  BY <1>1, <1>2, <1>3

LEMMA StepsTouchTheLock ==
  ASSUME NEW c \in Callers, Step(c)
  PROVE  Enters(c) \/ Holds(c) \/ Leaves(c)
<1>1. CASE OpenCabinet(c)
  BY <1>1 DEF OpenCabinet, Enters, At
<1>2. CASE Check(c)
  BY <1>2, DecisionIsHoldOrLeave DEF Check, At, Steps
<1>3. CASE Where(c)
  BY <1>3, DecisionIsHoldOrLeave DEF Where, At, Steps, Remedy
<1>4. CASE Restarted(c)
  BY <1>4, DecisionIsHoldOrLeave DEF Restarted, At, Steps
<1>5. CASE Secrets(c)
  BY <1>5, DecisionIsHoldOrLeave DEF Secrets, At, Steps
<1>6. CASE Verified(c)
  BY <1>6, DecisionIsHoldOrLeave DEF Verified, At, Steps, Verdict
<1>7. CASE StepFails(c)
  BY <1>7 DEF StepFails, Leaves
<1>8. CASE Restart(c) \/ Verify(c)
  BY <1>8 DEF Restart, Verify, At, Holds, Steps
<1>9. CASE Challenge(c) \/ AcceptTerms(c) \/ HandOver(c)
  BY <1>9 DEF Challenge, AcceptTerms, HandOver, At, Holds, Steps, After
<1>10. CASE SelectMedium(c) \/ SelectProvider(c) \/ ChooseKey(c)
  BY <1>10 DEF SelectMedium, SelectProvider, ChooseKey, OnForm, At, Holds, Steps,
     After
<1>11. CASE WaitForKey(c) \/ FillPassword(c)
  BY <1>11 DEF WaitForKey, FillPassword, OnForm, At, Holds, Steps, After
<1>12. CASE Submit(c) \/ Callback(c)
  BY <1>12 DEF Submit, Callback, OnForm, At, Holds, Steps, After
<1> QED
  BY <1>1, <1>2, <1>3, <1>4, <1>5, <1>6, <1>7, <1>8, <1>9, <1>10, <1>11, <1>12
     DEF Step

\* The queue of a call that has asked is not empty, and its head is queue[1].
LEMMA QueueHasAHead ==
  ASSUME LockInv, NEW c \in Callers, pc[c] \notin Resting
  PROVE  queue # <<>> /\ Len(queue) \in Nat \ {0} /\ Head(queue) = queue[1]
<1>1. queue \in Seq(Callers) /\ Queued(c)
  BY DEF LockInv
<1>2. Len(queue) \in Nat
  BY <1>1
<1>3. Len(queue) >= 1
  BY <1>1, <1>2 DEF Queued
<1> QED
  BY <1>1, <1>2, <1>3

\* One call at a time is past the lock.
LEMMA OneHolder ==
  ASSUME LockInv, NEW c \in Callers, NEW d \in Callers,
         pc[c] \in Steps, pc[d] \in Steps
  PROVE  c = d
BY DEF LockInv

LEMMA LockInductive == LockInv /\ [Next]_vars => LockInv'
<1> SUFFICES ASSUME LockInv, [Next]_vars
             PROVE  LockInv'
  OBVIOUS
<1>t. /\ pc \in [Callers -> Resting \cup {"waiting"} \cup Steps]
      /\ queue \in Seq(Callers)
      /\ Len(queue) \in Nat
  BY DEF LockInv
<1>1. ASSUME NEW c \in Callers, Ask(c)
      PROVE  LockInv'
  <2>1. /\ pc[c] \in Resting /\ queue' = Append(queue, c)
        /\ pc' = [pc EXCEPT ![c] = "waiting"]
    BY <1>1 DEF Ask
  <2>2. /\ queue' \in Seq(Callers) /\ Len(queue') = Len(queue) + 1
        /\ \A i \in 1 .. Len(queue) : queue'[i] = queue[i]
        /\ queue'[Len(queue) + 1] = c
    BY <2>1, <1>t, AppendProperties
  <2>3. \A i \in 1 .. Len(queue) : queue[i] # c
    BY <2>1 DEF LockInv, Queued
  <2>4. pc' \in [Callers -> Resting \cup {"waiting"} \cup Steps]
    BY <2>1, <1>t
  <2>5. \A i, j \in 1 .. Len(queue') : queue'[i] = queue'[j] => i = j
    BY <2>2, <2>3, <1>t DEF LockInv
  <2>6. \A d \in Callers : Queued(d)' <=> Queued(d) \/ d = c
    BY <2>2, <1>t DEF Queued
  <2>7. \A d \in Callers : pc'[d] \notin Resting <=> Queued(d)'
    BY <2>1, <2>6, <1>t DEF LockInv, Resting
  <2>8. ASSUME NEW d \in Callers, pc'[d] \in Steps
        PROVE  queue' # <<>> /\ queue'[1] = d
    <3>1. d # c /\ pc[d] \in Steps
      BY <2>8, <2>1, <1>t DEF Steps
    <3>2. Len(queue) \in Nat \ {0} /\ queue[1] = d
      BY <3>1, QueueHasAHead DEF LockInv, Steps, Resting
    <3> QED
      BY <3>2, <2>2
  <2> QED
    BY <2>2, <2>4, <2>5, <2>7, <2>8 DEF LockInv
<1>2. ASSUME NEW c \in Callers, Enters(c)
      PROVE  LockInv'
  <2>1. /\ pc[c] = "waiting" /\ Head(queue) = c
        /\ pc' = [pc EXCEPT ![c] = "check"] /\ queue' = queue
    BY <1>2 DEF Enters, MayEnter, GoTo
  <2>2. queue # <<>> /\ queue[1] = c
    BY <2>1, QueueHasAHead DEF Resting
  <2>3. \A d \in Callers : pc'[d] \notin Resting <=> pc[d] \notin Resting
    BY <2>1, <1>t DEF Resting
  <2>4. \A d \in Callers : pc'[d] \in Steps => queue[1] = d
    BY <2>1, <2>2, <1>t DEF LockInv
  <2>5. pc' \in [Callers -> Resting \cup {"waiting"} \cup Steps]
    BY <2>1, <1>t DEF Steps
  <2> QED
    BY <2>1, <2>2, <2>3, <2>4, <2>5 DEF LockInv, Queued
<1>3. ASSUME NEW c \in Callers, Holds(c)
      PROVE  LockInv'
  <2>1. PICK step \in Steps : pc' = [pc EXCEPT ![c] = step] /\ queue' = queue
    BY <1>3 DEF Holds, GoTo
  <2>2. pc[c] \in Steps
    BY <1>3 DEF Holds
  <2>3. \A d \in Callers : pc'[d] \notin Resting <=> pc[d] \notin Resting
    BY <2>1, <2>2, <1>t DEF Resting, Steps
  <2>4. \A d \in Callers : pc'[d] \in Steps => pc[d] \in Steps
    BY <2>1, <2>2, <1>t
  <2>5. pc' \in [Callers -> Resting \cup {"waiting"} \cup Steps]
    BY <2>1, <1>t
  <2> QED
    BY <2>1, <2>3, <2>4, <2>5 DEF LockInv, Queued
<1>4. ASSUME NEW c \in Callers, Leaves(c)
      PROVE  LockInv'
  <2>1. PICK how \in {"ok", "raised"} :
               pc' = [pc EXCEPT ![c] = how] /\ queue' = Tail(queue)
    BY <1>4 DEF Leaves, Leave, LeftBehind
  <2>2. pc[c] \in Steps
    BY <1>4 DEF Leaves
  <2>3. queue # <<>> /\ Len(queue) \in Nat \ {0} /\ queue[1] = c
    BY <2>2, QueueHasAHead DEF LockInv, Steps, Resting
  <2>4. /\ queue' \in Seq(Callers) /\ Len(queue') = Len(queue) - 1
        /\ \A i \in 1 .. Len(queue') : queue'[i] = queue[i + 1]
    BY <2>1, <2>3, <1>t, HeadTailProperties
  <2>5. pc' \in [Callers -> Resting \cup {"waiting"} \cup Steps]
    BY <2>1, <1>t DEF Resting
  <2>6. \A i, j \in 1 .. Len(queue) : queue[i] = queue[j] => i = j
    BY DEF LockInv
  <2>7. \A i, j \in 1 .. Len(queue') : queue'[i] = queue'[j] => i = j
    <3> SUFFICES ASSUME NEW i \in 1 .. Len(queue'), NEW j \in 1 .. Len(queue'),
                        queue'[i] = queue'[j]
                 PROVE  i = j
      OBVIOUS
    <3>1. i + 1 \in 1 .. Len(queue) /\ j + 1 \in 1 .. Len(queue)
      BY <2>3, <2>4
    <3>2. i + 1 = j + 1
      BY <3>1, <2>4, <2>6
    <3> QED
      BY <3>2
  <2>8. \A d \in Callers : Queued(d)' <=> Queued(d) /\ d # c
    <3> SUFFICES ASSUME NEW d \in Callers
                 PROVE  Queued(d)' <=> Queued(d) /\ d # c
      OBVIOUS
    <3>1. ASSUME Queued(d)'
          PROVE  Queued(d) /\ d # c
      <4>1. PICK i \in 1 .. Len(queue') : queue'[i] = d
        BY <3>1 DEF Queued
      <4>2. i + 1 \in 1 .. Len(queue) /\ queue[i + 1] = d /\ i + 1 # 1
        BY <4>1, <2>3, <2>4
      <4>3. 1 \in 1 .. Len(queue)
        BY <2>3
      <4> QED
        BY <4>2, <4>3, <2>3, <2>6 DEF Queued
    <3>2. ASSUME Queued(d), d # c
          PROVE  Queued(d)'
      <4>1. PICK i \in 1 .. Len(queue) : queue[i] = d
        BY <3>2 DEF Queued
      <4>2. i - 1 \in 1 .. Len(queue') /\ i = (i - 1) + 1
        BY <4>1, <3>2, <2>3, <2>4
      <4>3. queue'[i - 1] = d
        BY <4>1, <4>2, <2>4
      <4> QED
        BY <4>2, <4>3 DEF Queued
    <3> QED
      BY <3>1, <3>2
  <2>9. \A d \in Callers : pc'[d] \notin Resting <=> Queued(d)'
    BY <2>1, <2>8, <1>t DEF LockInv, Resting
  <2>10. \A d \in Callers : pc'[d] \notin Steps
    BY <2>1, <2>2, <1>t, OneHolder DEF Steps
  <2> QED
    BY <2>4, <2>5, <2>7, <2>9, <2>10 DEF LockInv
<1>5. CASE UNCHANGED <<pc, queue>>
  BY <1>5 DEF LockInv, Queued
<1>6. CASE SessionExpires \/ Renders \/ KeyIsRead \/ CalmDown \/ UNCHANGED vars
  BY <1>5, <1>6 DEF SessionExpires, Renders, KeyIsRead, CalmDown, vars
<1> QED
  BY <1>1, <1>2, <1>3, <1>4, <1>6, StepsTouchTheLock DEF Next

-----------------------------------------------------------------------------
(* The page, the session and the call that holds the lock *)

ValuesInv ==
    /\ page \in Pages
    /\ terms \in BOOLEAN
    /\ session \in {"live", "expired"}
    /\ config \in Configs
    /\ calm \in BOOLEAN
    /\ call \in [Callers -> [lived: BOOLEAN, expired: BOOLEAN,
                             submits: 0 .. 1, restarts: 0 .. 1]]
    \* Only ID.GOV.UA has a form, and every navigation empties it.
    /\ page.at # "idgov" => page.form = EmptyForm

BeforeRestart == {"check", "where", "restart"}
ToSubmit == Steps \ {"callback", "verify", "verified"}

\* What a call has used up of its one restart and its one submit.
BudgetOf(c) ==
    /\ pc[c] \in BeforeRestart => call[c].restarts = 0
    /\ pc[c] \in ToSubmit => call[c].submits = 0

\* What is filled in of the form, by the step the call is at.
FormOf(c) ==
    /\ pc[c] \in {"medium", "provider"} =>
          page.at = "idgov" /\ page.form = EmptyForm
    /\ pc[c] = "file" =>
          page.at = "idgov" /\ page.form = [EmptyForm EXCEPT !.provider = "ours"]
    /\ pc[c] = "loaded" =>
          /\ page.at = "idgov" /\ page.form.provider = "ours"
          /\ page.form.key \in {"none", "given", "ours"}
          /\ page.form.password = "none"
    /\ pc[c] = "password" =>
          page.at = "idgov" /\ page.form = [FullForm EXCEPT !.password = "none"]
    /\ pc[c] \in {"submit", "callback"} => page.at = "idgov" /\ page.form = FullForm

\* What the call has seen of the session.  A page of the signed-out side, and
\* every step that follows from it, needs a session that had expired; a cabinet
\* with its marker needs one that was live.
SeenBy(c) ==
    /\ session = "expired" => call[c].expired
    /\ session = "live" => call[c].lived
    /\ pc[c] \in {"check", "where"} /\ page.at \in {"entry", "idgov"} =>
          call[c].expired
    /\ pc[c] \notin {"check", "where"} => call[c].expired
    /\ pc[c] \in {"check", "verified"} /\ page.at = "cabinet" /\ page.marker =>
          call[c].lived

OwnOf(c) == pc[c] \in Steps => BudgetOf(c) /\ FormOf(c) /\ SeenBy(c)

JourneyInv == LockInv /\ ValuesInv /\ \A c \in Callers : OwnOf(c)

\* Enough to look at the call that moves: another one is not past the lock.
LEMMA OthersWait ==
  ASSUME JourneyInv, NEW c \in Callers, Step(c), ValuesInv', OwnOf(c)'
  PROVE  JourneyInv'
<1>1. LockInv /\ LockInv'
  BY LockInductive DEF JourneyInv, Next
<1>2. ASSUME NEW d \in Callers, d # c
      PROVE  OwnOf(d)'
  <2>1. pc'[d] = pc[d]
    BY <1>1, <1>2, StepsTouchTheLock DEF LockInv, Enters, Holds, Leaves, GoTo, Leave
  <2>2. CASE Enters(c)
    <3>1. pc'[c] \in Steps
      BY <1>1, <2>2 DEF Enters, GoTo, LockInv, Steps
    <3>2. pc'[d] \notin Steps
      BY <1>1, <1>2, <3>1 DEF LockInv
    <3> QED
      BY <3>2 DEF OwnOf
  <2>3. CASE Holds(c) \/ Leaves(c)
    <3>1. pc[d] \notin Steps
      BY <1>1, <1>2, <2>3 DEF LockInv, Holds, Leaves
    <3> QED
      BY <2>1, <3>1 DEF OwnOf
  <2> QED
    BY <2>2, <2>3, StepsTouchTheLock
<1> QED
  BY <1>1, <1>2 DEF JourneyInv

LEMMA FreshPage ==
  ASSUME NEW at \in Places, NEW marker \in BOOLEAN
  PROVE  /\ Page(at, marker) \in Pages
         /\ Page(at, marker).at = at /\ Page(at, marker).marker = marker
         /\ Page(at, marker).form = EmptyForm
<1>1. EmptyForm \in Form
  BY DEF EmptyForm, Form, Providers
<1>2. Page(at, marker) = [at |-> at, marker |-> marker, form |-> EmptyForm]
  BY DEF Page
<1> QED
  BY <1>1, <1>2 DEF Pages

\* Where the cabinet may turn out to be, by the session.
LEMMA LandingsBySession ==
  ASSUME ValuesInv, NEW p \in Landings(page)
  PROVE  /\ p \in Pages /\ p.form = EmptyForm
         /\ session = "live" => p.at \notin {"entry", "idgov"}
         /\ session = "expired" => ~p.marker
<1>1. CASE session = "live"
  <2>1. p \in {Page("cabinet", TRUE), Page("cabinet", FALSE), Page("elsewhere", FALSE)}
    BY <1>1 DEF Landings, Cabinet, Shell
  <2> QED
    BY <1>1, <2>1, FreshPage DEF Places
<1>2. CASE session = "expired"
  <2>1. \E at \in Places : p = Page(at, FALSE)
    BY <1>2 DEF Landings, Shell, Places
  <2> QED
    BY <1>2, <2>1, FreshPage
<1> QED
  BY <1>1, <1>2 DEF ValuesInv

\* A decision leaves everything but the lock alone: what is at stake is what the
\* next step takes for granted.
LEMMA DecisionKeepsTheRest ==
  ASSUME JourneyInv, NEW c \in Callers, Step(c), pc[c] \in Steps,
         NEW next \in Steps \cup {"ok", "fail"}, Decide(c, next),
         UNCHANGED <<page, terms, world, call>>,
         next \in Steps =>
            /\ next \in BeforeRestart => pc[c] \in BeforeRestart
            /\ next \in ToSubmit => pc[c] \in ToSubmit
            /\ next \in {"where", "restart", "secrets", "challenge"}
            /\ next # "where" => call[c].expired
            /\ next = "where" => pc[c] = "check"
  PROVE  JourneyInv'
<1>1. ValuesInv'
  BY DEF JourneyInv, ValuesInv, world
<1>2. pc \in [Callers -> Resting \cup {"waiting"} \cup Steps]
  BY DEF JourneyInv, LockInv
<1>3. CASE next \notin Steps
  <2>1. pc'[c] \notin Steps
    BY <1>2, <1>3 DEF Decide, Leave, Steps
  <2> QED
    BY <1>1, <2>1, OthersWait DEF OwnOf
<1>4. CASE next \in Steps
  <2>1. pc'[c] = next
    BY <1>2, <1>4 DEF Decide, GoTo, Steps
  <2>2. BudgetOf(c) /\ FormOf(c) /\ SeenBy(c)
    BY DEF JourneyInv, OwnOf
  <2>3. BudgetOf(c)'
    BY <1>4, <2>1, <2>2 DEF BudgetOf
  <2>4. FormOf(c)'
    BY <1>4, <2>1 DEF FormOf
  <2>5. SeenBy(c)'
    BY <1>4, <2>1, <2>2 DEF SeenBy, world
  <2> QED
    BY <1>1, <2>3, <2>4, <2>5, OthersWait DEF OwnOf
<1> QED
  BY <1>3, <1>4

LEMMA OpenCabinetKeeps ==
  ASSUME JourneyInv, NEW c \in Callers, OpenCabinet(c)
  PROVE  JourneyInv'
<1>1. /\ pc'[c] = "check" /\ page' \in Landings(page)
      /\ call' = [call EXCEPT ![c] = [lived |-> session = "live",
                                      expired |-> session = "expired",
                                      submits |-> 0, restarts |-> 0]]
      /\ UNCHANGED <<terms, session, config, calm>>
  BY DEF OpenCabinet, GoTo, world, JourneyInv, LockInv
<1>2. /\ page' \in Pages /\ page'.form = EmptyForm
      /\ session = "live" => page'.at \notin {"entry", "idgov"}
      /\ session = "expired" => ~page'.marker
  BY <1>1, LandingsBySession DEF JourneyInv
<1>3. /\ call'[c].lived = (session = "live") /\ call'[c].expired = (session = "expired")
      /\ call'[c].submits = 0 /\ call'[c].restarts = 0
  BY <1>1 DEF JourneyInv, ValuesInv
<1>4. ValuesInv'
  BY <1>1, <1>2 DEF JourneyInv, ValuesInv
<1>5. BudgetOf(c)' /\ FormOf(c)'
  BY <1>1, <1>3 DEF BudgetOf, FormOf
<1>6. SeenBy(c)'
  BY <1>1, <1>2, <1>3, <1>4 DEF SeenBy, ValuesInv
<1> QED
  BY <1>4, <1>5, <1>6, OthersWait DEF OwnOf, Step

LEMMA DecisionsKeep ==
  ASSUME JourneyInv, NEW c \in Callers,
         Check(c) \/ Where(c) \/ Restarted(c) \/ Secrets(c) \/ Verified(c)
  PROVE  JourneyInv'
<1>0. Step(c) /\ UNCHANGED <<page, terms, world, call>>
  BY DEF Step, Check, Where, Restarted, Secrets, Verified
<1>1. pc[c] \in Steps => SeenBy(c)
  BY DEF JourneyInv, OwnOf
<1>2. CASE Check(c)
  BY <1>0, <1>2, DecisionKeepsTheRest DEF Check, At, Steps, BeforeRestart, ToSubmit
<1>3. CASE Where(c)
  <2>1. pc[c] = "where" /\ Decide(c, Remedy(page))
    BY <1>3 DEF Where, At
  <2>2. /\ Remedy(page) \in {"restart", "secrets", "fail"}
        /\ Remedy(page) # "fail" => page.at \in {"entry", "idgov"}
    BY DEF Remedy
  <2>3. Remedy(page) # "fail" => call[c].expired
    BY <1>1, <2>1, <2>2 DEF SeenBy, Steps
  <2> QED
    BY <1>0, <2>1, <2>2, <2>3, DecisionKeepsTheRest
       DEF Steps, BeforeRestart, ToSubmit
<1>4. CASE Restarted(c)
  BY <1>0, <1>1, <1>4, DecisionKeepsTheRest
     DEF Restarted, At, Steps, BeforeRestart, ToSubmit, SeenBy
<1>5. CASE Secrets(c)
  BY <1>0, <1>1, <1>5, DecisionKeepsTheRest
     DEF Secrets, At, Steps, BeforeRestart, ToSubmit, SeenBy
<1>6. CASE Verified(c)
  BY <1>0, <1>6, DecisionKeepsTheRest DEF Verified, Verdict, At, Steps
<1> QED
  BY <1>2, <1>3, <1>4, <1>5, <1>6

LEMMA NavigationsKeep ==
  ASSUME JourneyInv, NEW c \in Callers, Restart(c) \/ HandOver(c) \/ Verify(c)
  PROVE  JourneyInv'
<1>0. Step(c) /\ ValuesInv /\ pc[c] \in Steps
  BY DEF Step, Restart, HandOver, Verify, JourneyInv, At, Steps
<1>1. BudgetOf(c) /\ SeenBy(c)
  BY <1>0 DEF JourneyInv, OwnOf
<1>2. pc \in [Callers -> Resting \cup {"waiting"} \cup Steps]
  BY DEF JourneyInv, LockInv
<1>3. CASE Restart(c)
  <2>1. /\ pc[c] = "restart" /\ pc'[c] = "restarted"
        /\ call' = [call EXCEPT ![c].restarts = @ + 1]
        /\ \E at \in {"entry", "idgov", "elsewhere"} : page' = Page(at, FALSE)
        /\ UNCHANGED <<terms, session, config, calm>>
    BY <1>2, <1>3 DEF Restart, At, GoTo, world
  <2>2. page' \in Pages /\ page'.form = EmptyForm /\ ~page'.marker
    BY <2>1, FreshPage DEF Places
  <2>3. call[c].restarts = 0 /\ call[c].submits = 0
    BY <1>1, <2>1 DEF BudgetOf, BeforeRestart, ToSubmit, Steps
  <2>4. /\ call'[c].lived = call[c].lived /\ call'[c].expired = call[c].expired
        /\ call'[c].submits = 0 /\ call'[c].restarts = 1
    BY <1>0, <2>1, <2>3 DEF ValuesInv
  <2>5. call' \in [Callers -> [lived: BOOLEAN, expired: BOOLEAN,
                               submits: 0 .. 1, restarts: 0 .. 1]]
    BY <1>0, <2>1, <2>3 DEF ValuesInv
  <2>6. ValuesInv'
    BY <1>0, <2>1, <2>2, <2>5 DEF ValuesInv
  <2>7. BudgetOf(c)' /\ FormOf(c)'
    BY <2>1, <2>4 DEF BudgetOf, FormOf, BeforeRestart
  <2>8. SeenBy(c)'
    BY <1>1, <2>1, <2>2, <2>4 DEF SeenBy
  <2> QED
    BY <1>0, <2>6, <2>7, <2>8, OthersWait DEF OwnOf
<1>4. CASE HandOver(c)
  <2>1. /\ pc[c] = "handover" /\ pc'[c] = "medium" /\ page' = Page("idgov", FALSE)
        /\ UNCHANGED <<terms, session, config, calm, call>>
    BY <1>2, <1>4 DEF HandOver, At, GoTo, After, world
  <2>2. /\ page' \in Pages /\ page'.form = EmptyForm /\ ~page'.marker
        /\ page'.at = "idgov"
    BY <2>1, FreshPage DEF Places
  <2>3. ValuesInv'
    BY <1>0, <2>1, <2>2 DEF ValuesInv
  <2>4. BudgetOf(c)' /\ FormOf(c)'
    BY <1>1, <2>1, <2>2 DEF BudgetOf, FormOf, BeforeRestart, ToSubmit, Steps
  <2>5. SeenBy(c)'
    BY <1>1, <2>1, <2>2 DEF SeenBy
  <2> QED
    BY <1>0, <2>3, <2>4, <2>5, OthersWait DEF OwnOf
<1>5. CASE Verify(c)
  <2>1. /\ pc[c] = "verify" /\ pc'[c] = "verified" /\ page' \in Landings(page)
        /\ UNCHANGED <<terms, session, config, calm, call>>
    BY <1>2, <1>5 DEF Verify, At, GoTo, world
  <2>2. /\ page' \in Pages /\ page'.form = EmptyForm
        /\ session = "expired" => ~page'.marker
    BY <1>0, <2>1, LandingsBySession
  <2>3. ValuesInv'
    BY <1>0, <2>1, <2>2 DEF ValuesInv
  <2>4. BudgetOf(c)' /\ FormOf(c)'
    BY <2>1 DEF BudgetOf, FormOf, BeforeRestart, ToSubmit
  <2>5. SeenBy(c)'
    BY <1>0, <1>1, <2>1, <2>2 DEF SeenBy, ValuesInv
  <2> QED
    BY <1>0, <2>3, <2>4, <2>5, OthersWait DEF OwnOf
<1> QED
  BY <1>3, <1>4, <1>5

\* The steps of the journey that do not leave the page they are on.
LEMMA FormStepsKeep ==
  ASSUME JourneyInv, NEW c \in Callers,
         \/ Challenge(c) \/ AcceptTerms(c)
         \/ SelectMedium(c) \/ SelectProvider(c) \/ ChooseKey(c)
         \/ WaitForKey(c) \/ FillPassword(c)
  PROVE  JourneyInv'
<1>0. /\ Step(c) /\ ValuesInv
      /\ pc[c] \in ToSubmit \ (BeforeRestart \cup {"restarted", "secrets", "submit"})
      /\ UNCHANGED <<session, config, calm, call>>
      /\ page'.at = page.at /\ page'.marker = page.marker
  BY DEF Step, Challenge, AcceptTerms, SelectMedium, SelectProvider, ChooseKey,
     WaitForKey, FillPassword, JourneyInv, ValuesInv, At, OnForm, world, Steps,
     ToSubmit, BeforeRestart, Pages
<1>1. BudgetOf(c) /\ FormOf(c) /\ SeenBy(c)
  BY <1>0 DEF JourneyInv, OwnOf, ToSubmit
<1>2. pc \in [Callers -> Resting \cup {"waiting"} \cup Steps]
  BY DEF JourneyInv, LockInv
<1>3. pc'[c] = After(pc[c])
  BY <1>2 DEF Challenge, AcceptTerms, SelectMedium, SelectProvider, ChooseKey,
     WaitForKey, FillPassword, OnForm, At, GoTo
<1>4. /\ pc'[c] \in ToSubmit \ (BeforeRestart \cup {"restarted", "secrets"})
      /\ pc'[c] \notin {"check", "where", "verified"}
  BY <1>0, <1>3 DEF After, ToSubmit, BeforeRestart, Steps
<1>5. BudgetOf(c)' /\ SeenBy(c)'
  BY <1>0, <1>1, <1>4 DEF BudgetOf, SeenBy, BeforeRestart
<1>6. ASSUME page' \in Pages, terms' \in BOOLEAN,
             page.at # "idgov" => page' = page, FormOf(c)'
      PROVE  JourneyInv'
  <2>1. ValuesInv'
    BY <1>0, <1>6 DEF ValuesInv
  <2> QED
    BY <1>0, <1>5, <1>6, <2>1, OthersWait DEF OwnOf
<1>7. CASE Challenge(c)
  <2>1. page' = page /\ terms' = terms /\ pc'[c] = "terms"
    BY <1>3, <1>7 DEF Challenge, At, After
  <2> QED
    BY <1>0, <1>6, <2>1 DEF ValuesInv, FormOf
<1>8. CASE AcceptTerms(c)
  <2>1. page' = page /\ terms' \in BOOLEAN /\ pc'[c] = "handover"
    BY <1>3, <1>8 DEF AcceptTerms, At, After, TickedOnce
  <2> QED
    BY <1>0, <1>6, <2>1 DEF ValuesInv, FormOf
<1>9. CASE SelectMedium(c)
  <2>1. page' = page /\ terms' = terms /\ pc[c] = "medium" /\ pc'[c] = "provider"
    BY <1>3, <1>9 DEF SelectMedium, OnForm, At, After
  <2> QED
    BY <1>0, <1>1, <1>6, <2>1 DEF ValuesInv, FormOf
<1>10. CASE SelectProvider(c)
  <2>1. /\ pc[c] = "provider" /\ pc'[c] = "file" /\ terms' = terms
        /\ page' = [page EXCEPT !.form.provider = "ours"]
    BY <1>3, <1>10 DEF SelectProvider, OnForm, At, After
  <2>2. page.at = "idgov" /\ page.form = EmptyForm
    BY <1>1, <2>1 DEF FormOf
  <2>3. page'.form = [EmptyForm EXCEPT !.provider = "ours"] /\ page' \in Pages
    BY <1>0, <2>1, <2>2 DEF ValuesInv, Pages, Form, Providers
  <2> QED
    BY <1>0, <1>6, <2>1, <2>2, <2>3 DEF ValuesInv, FormOf
<1>11. CASE ChooseKey(c)
  <2>1. /\ pc[c] = "file" /\ pc'[c] = "loaded" /\ terms' = terms
        /\ page' = [page EXCEPT !.form.key = "given"] \/ page' = page
    BY <1>3, <1>11 DEF ChooseKey, OnForm, At, After
  <2>2. page.at = "idgov" /\ page.form = [EmptyForm EXCEPT !.provider = "ours"]
    BY <1>1, <2>1 DEF FormOf
  <2>3. page.form = [provider |-> "ours", key |-> "none", password |-> "none"]
    BY <2>2 DEF EmptyForm
  <2>4. page' = [page EXCEPT !.form = [@ EXCEPT !.key = "given"]] \/ page' = page
    BY <2>1
  <2>5. page'.form \in {page.form,
                       [provider |-> "ours", key |-> "given", password |-> "none"]}
    BY <1>0, <2>3, <2>4 DEF ValuesInv, Pages
  <2>6. page' \in Pages
    <3>1. page.form \in Form
      BY <1>0 DEF ValuesInv, Pages
    <3>2. [page.form EXCEPT !.key = "given"] \in Form
      BY <3>1 DEF Form
    <3> QED
      BY <1>0, <2>4, <3>2 DEF ValuesInv, Pages
  <2>7. /\ page'.form.provider = "ours" /\ page'.form.key \in {"none", "given", "ours"}
        /\ page'.form.password = "none"
    BY <2>3, <2>5
  <2> QED
    BY <1>0, <1>6, <2>1, <2>2, <2>6, <2>7 DEF ValuesInv, FormOf
<1>12. CASE WaitForKey(c)
  <2>1. /\ pc[c] = "loaded" /\ pc'[c] = "password" /\ terms' = terms
        /\ page' = page /\ page.form.key \in Providers
    BY <1>3, <1>12 DEF WaitForKey, OnForm, At, After
  <2>2. /\ page.at = "idgov" /\ page.form.provider = "ours"
        /\ page.form.key = "ours" /\ page.form.password = "none"
    BY <1>1, <2>1 DEF FormOf, Providers
  <2>3. page.form = [FullForm EXCEPT !.password = "none"]
    BY <1>0, <2>2 DEF ValuesInv, Pages, Form, FullForm
  <2> QED
    BY <1>0, <1>6, <2>1, <2>2, <2>3 DEF ValuesInv, FormOf
<1>13. CASE FillPassword(c)
  <2>1. /\ pc[c] = "password" /\ pc'[c] = "submit" /\ terms' = terms
        /\ page' = [page EXCEPT !.form.password =
                       IF page.form.key \in Providers THEN page.form.key
                                                      ELSE "unbound"]
    BY <1>3, <1>13 DEF FillPassword, OnForm, At, After
  <2>2. page.at = "idgov" /\ page.form = [FullForm EXCEPT !.password = "none"]
    BY <1>1, <2>1 DEF FormOf
  <2>3. page'.form = FullForm /\ page' \in Pages
    BY <1>0, <2>1, <2>2 DEF ValuesInv, Pages, Form, Providers, FullForm
  <2> QED
    BY <1>0, <1>6, <2>1, <2>2, <2>3 DEF ValuesInv, FormOf
<1> QED
  BY <1>7, <1>8, <1>9, <1>10, <1>11, <1>12, <1>13

LEMMA SubmitKeeps ==
  ASSUME JourneyInv, NEW c \in Callers, Submit(c)
  PROVE  JourneyInv'
<1>0. /\ pc[c] = "submit" /\ pc'[c] = "callback" /\ Step(c) /\ ValuesInv
      /\ call' = [call EXCEPT ![c].submits = @ + 1]
      /\ UNCHANGED <<page, terms, session, config, calm>>
  BY DEF Submit, OnForm, At, GoTo, After, world, Step, JourneyInv, LockInv
<1>1. BudgetOf(c) /\ FormOf(c) /\ SeenBy(c)
  BY <1>0 DEF JourneyInv, OwnOf, Steps
<1>2. call[c].submits = 0
  BY <1>0, <1>1 DEF BudgetOf, ToSubmit, Steps
<1>3. /\ call'[c].lived = call[c].lived /\ call'[c].expired = call[c].expired
      /\ call' \in [Callers -> [lived: BOOLEAN, expired: BOOLEAN,
                                submits: 0 .. 1, restarts: 0 .. 1]]
  BY <1>0, <1>2 DEF ValuesInv
<1>4. ValuesInv'
  BY <1>0, <1>3 DEF ValuesInv
<1>5. BudgetOf(c)' /\ FormOf(c)' /\ SeenBy(c)'
  BY <1>0, <1>1, <1>3 DEF BudgetOf, FormOf, SeenBy, BeforeRestart, ToSubmit
<1> QED
  BY <1>0, <1>4, <1>5, OthersWait DEF OwnOf

LEMMA CallbackKeeps ==
  ASSUME JourneyInv, NEW c \in Callers, Callback(c)
  PROVE  JourneyInv'
<1>0. /\ pc[c] = "callback" /\ pc'[c] = "verify" /\ Step(c) /\ ValuesInv
      /\ page' = Page("entry", FALSE)
      /\ UNCHANGED <<terms, config, calm>>
      /\ \/ session' = "live"
            /\ call' = [d \in Callers |-> [call[d] EXCEPT !.lived = TRUE]]
         \/ UNCHANGED <<session, call>>
  BY DEF Callback, OnForm, At, GoTo, After, Step, JourneyInv, LockInv
<1>1. SeenBy(c)
  BY <1>0 DEF JourneyInv, OwnOf, Steps
<1>2. page' \in Pages /\ page'.form = EmptyForm
  BY <1>0, FreshPage DEF Places
<1>3. call' \in [Callers -> [lived: BOOLEAN, expired: BOOLEAN,
                             submits: 0 .. 1, restarts: 0 .. 1]]
  <2>1. \A d \in Callers :
           [call[d] EXCEPT !.lived = TRUE] \in
              [lived: BOOLEAN, expired: BOOLEAN, submits: 0 .. 1, restarts: 0 .. 1]
    BY <1>0 DEF ValuesInv
  <2> QED
    BY <1>0, <2>1 DEF ValuesInv
<1>4. ValuesInv'
  BY <1>0, <1>2, <1>3 DEF ValuesInv
<1>5. /\ call'[c].expired = call[c].expired
      /\ session' = "live" => call'[c].lived
      /\ session' = "expired" => session = "expired"
  BY <1>0, <1>1 DEF ValuesInv, SeenBy
<1>6. SeenBy(c)'
  BY <1>0, <1>1, <1>5 DEF SeenBy
<1>7. BudgetOf(c)' /\ FormOf(c)'
  BY <1>0 DEF BudgetOf, FormOf, BeforeRestart, ToSubmit
<1> QED
  BY <1>0, <1>4, <1>6, <1>7, OthersWait DEF OwnOf

LEMMA FailureKeeps ==
  ASSUME JourneyInv, NEW c \in Callers, StepFails(c)
  PROVE  JourneyInv'
<1>1. pc'[c] = "raised" /\ UNCHANGED <<page, terms, world, call>> /\ Step(c)
  BY DEF StepFails, Leave, Step, JourneyInv, LockInv
<1>2. ValuesInv'
  BY <1>1 DEF JourneyInv, ValuesInv, world
<1> QED
  BY <1>1, <1>2, OthersWait DEF OwnOf, Steps

-----------------------------------------------------------------------------
(* What happens around the call that holds the lock *)

LEMMA AskKeeps ==
  ASSUME JourneyInv, NEW c \in Callers, Ask(c)
  PROVE  JourneyInv'
<1>1. /\ pc' = [pc EXCEPT ![c] = "waiting"]
      /\ UNCHANGED <<page, terms, session, config, calm, call>>
      /\ pc \in [Callers -> Resting \cup {"waiting"} \cup Steps]
  BY DEF Ask, world, JourneyInv, LockInv
<1>2. LockInv'
  BY LockInductive DEF JourneyInv, Next
<1>3. ValuesInv'
  BY <1>1 DEF JourneyInv, ValuesInv
<1>4. ASSUME NEW d \in Callers
      PROVE  OwnOf(d)'
  <2>1. CASE d = c
    BY <1>1, <2>1 DEF OwnOf, Steps
  <2>2. CASE d # c
    <3>1. pc'[d] = pc[d]
      BY <1>1, <2>2
    <3> QED
      BY <1>1, <3>1 DEF JourneyInv, OwnOf, BudgetOf, FormOf, SeenBy
  <2> QED
    BY <2>1, <2>2
<1> QED
  BY <1>2, <1>3, <1>4 DEF JourneyInv

LEMMA ExpiryKeeps ==
  ASSUME JourneyInv, SessionExpires
  PROVE  JourneyInv'
<1>1. /\ session' = "expired"
      /\ call' = [c \in Callers |-> [call[c] EXCEPT !.expired = TRUE]]
      /\ UNCHANGED <<pc, queue, page, terms, config, calm>>
  BY DEF SessionExpires
<1>2. LockInv'
  BY LockInductive DEF JourneyInv, Next
<1>3. \A c \in Callers :
         /\ call'[c].lived = call[c].lived /\ call'[c].expired
         /\ call'[c].submits = call[c].submits
         /\ call'[c].restarts = call[c].restarts
  BY <1>1 DEF JourneyInv, ValuesInv
<1>4. call' \in [Callers -> [lived: BOOLEAN, expired: BOOLEAN,
                             submits: 0 .. 1, restarts: 0 .. 1]]
  BY <1>1 DEF JourneyInv, ValuesInv
<1>5. ValuesInv'
  BY <1>1, <1>4 DEF JourneyInv, ValuesInv
<1>6. ASSUME NEW c \in Callers
      PROVE  OwnOf(c)'
  <2>1. pc[c] \in Steps => BudgetOf(c)' /\ FormOf(c)' /\ SeenBy(c)'
    BY <1>1, <1>3 DEF JourneyInv, OwnOf, BudgetOf, FormOf, SeenBy
  <2> QED
    BY <1>1, <2>1 DEF OwnOf
<1> QED
  BY <1>2, <1>5, <1>6 DEF JourneyInv

LEMMA RenderingKeeps ==
  ASSUME JourneyInv, Renders
  PROVE  JourneyInv'
<1>1. /\ page = Page("cabinet", FALSE)
      /\ page' = IF session = "live" THEN Page("cabinet", TRUE) ELSE Page("entry", FALSE)
      /\ UNCHANGED <<pc, queue, terms, session, config, calm, call>>
  BY DEF Renders, Shell, Cabinet, world
<1>2. LockInv'
  BY LockInductive DEF JourneyInv, Next
<1>3. /\ page.at = "cabinet"
      /\ page' \in Pages /\ page'.form = EmptyForm
      /\ page'.at = IF session = "live" THEN "cabinet" ELSE "entry"
  BY <1>1, FreshPage DEF Places
<1>4. ValuesInv'
  BY <1>1, <1>3 DEF JourneyInv, ValuesInv
<1>5. ASSUME NEW c \in Callers
      PROVE  OwnOf(c)'
  <2>1. ASSUME pc[c] \in Steps
        PROVE  BudgetOf(c)' /\ FormOf(c)' /\ SeenBy(c)'
    <3>1. BudgetOf(c) /\ FormOf(c) /\ SeenBy(c)
      BY <2>1 DEF JourneyInv, OwnOf
    <3>2. BudgetOf(c)'
      BY <1>1, <3>1 DEF BudgetOf
    <3>3. FormOf(c)'
      BY <1>1, <1>3, <3>1 DEF FormOf
    <3>4. SeenBy(c)'
      BY <1>1, <1>3, <3>1 DEF SeenBy, JourneyInv, ValuesInv
    <3> QED
      BY <3>2, <3>3, <3>4
  <2> QED
    BY <1>1, <2>1 DEF OwnOf
<1> QED
  BY <1>2, <1>4, <1>5 DEF JourneyInv

\* The page reads a key by the provider chosen before the file was handed over.
LEMMA ReadingKeeps ==
  ASSUME JourneyInv, KeyIsRead
  PROVE  JourneyInv'
<1>1. /\ page.form.key = "given"
      /\ page' = [page EXCEPT !.form = [@ EXCEPT !.key = page.form.provider]]
      /\ UNCHANGED <<pc, queue, terms, session, config, calm, call>>
  BY DEF KeyIsRead, world
<1>2. LockInv'
  BY LockInductive DEF JourneyInv, Next
<1>3. page \in Pages /\ page.form \in Form
  BY DEF JourneyInv, ValuesInv, Pages
<1>4. /\ page'.at = page.at /\ page'.marker = page.marker
      /\ page'.form = [page.form EXCEPT !.key = page.form.provider]
  BY <1>1, <1>3 DEF Pages
<1>5. page'.form \in Form
  BY <1>3, <1>4 DEF Form
<1>6. page' \in Pages
  BY <1>1, <1>3, <1>4, <1>5 DEF Pages
<1>7. page.at = "idgov"
  BY <1>1 DEF JourneyInv, ValuesInv, EmptyForm
<1>8. ValuesInv'
  BY <1>1, <1>4, <1>6, <1>7 DEF JourneyInv, ValuesInv
<1>9. ASSUME NEW c \in Callers, pc[c] \in Steps
      PROVE  BudgetOf(c)' /\ FormOf(c)' /\ SeenBy(c)'
  <2>1. BudgetOf(c) /\ FormOf(c) /\ SeenBy(c)
    BY <1>9 DEF JourneyInv, OwnOf
  <2>2. BudgetOf(c)' /\ SeenBy(c)'
    BY <1>1, <1>4, <2>1 DEF BudgetOf, SeenBy
  <2>3. pc[c] \notin {"medium", "provider", "file", "password", "submit", "callback"}
    BY <1>1, <2>1 DEF FormOf, EmptyForm, FullForm
  <2>4. pc[c] = "loaded" =>
           /\ page'.form.provider = "ours" /\ page'.form.key = "ours"
           /\ page'.form.password = "none"
    BY <1>3, <1>4, <2>1 DEF FormOf, Form
  <2>5. FormOf(c)'
    BY <1>1, <1>4, <1>7, <2>3, <2>4 DEF FormOf
  <2> QED
    BY <2>2, <2>5
<1>10. ASSUME NEW c \in Callers
       PROVE  OwnOf(c)'
  BY <1>1, <1>9 DEF OwnOf
<1> QED
  BY <1>2, <1>8, <1>10 DEF JourneyInv

-----------------------------------------------------------------------------
(* The invariant *)

LEMMA JourneyInit == Init => JourneyInv
<1> SUFFICES ASSUME Init
             PROVE  JourneyInv
  OBVIOUS
<1>1. \A c \in Callers : pc[c] = "idle"
  BY DEF Init
<1>2. queue = <<>> /\ Len(queue) = 0 /\ queue \in Seq(Callers)
  BY DEF Init
<1>3. LockInv
  BY <1>1, <1>2 DEF Init, LockInv, Queued, Resting, Steps
<1>4. page \in Pages /\ page.form = EmptyForm
  BY FreshPage DEF Init, Places
<1>5. ValuesInv
  <2>1. call \in [Callers -> [lived: BOOLEAN, expired: BOOLEAN,
                             submits: 0 .. 1, restarts: 0 .. 1]]
    BY DEF Init
  <2> QED
    BY <1>4, <2>1 DEF Init, ValuesInv, Configs
<1>6. \A c \in Callers : OwnOf(c)
  BY <1>1 DEF OwnOf, Steps
<1> QED
  BY <1>3, <1>5, <1>6 DEF JourneyInv

LEMMA JourneyInductive == JourneyInv /\ [Next]_vars => JourneyInv'
<1> SUFFICES ASSUME JourneyInv, [Next]_vars
             PROVE  JourneyInv'
  OBVIOUS
<1>1. ASSUME NEW c \in Callers, Step(c)
      PROVE  JourneyInv'
  BY <1>1, OpenCabinetKeeps, DecisionsKeep, NavigationsKeep, FormStepsKeep,
     SubmitKeeps, CallbackKeeps, FailureKeeps DEF Step
<1>2. CASE CalmDown \/ UNCHANGED vars
  <2>1. UNCHANGED <<pc, queue, page, terms, session, config, call>> /\ calm' \in BOOLEAN
    BY <1>2 DEF CalmDown, vars, JourneyInv, ValuesInv
  <2>2. LockInv'
    BY LockInductive DEF JourneyInv
  <2> QED
    BY <2>1, <2>2
       DEF JourneyInv, ValuesInv, OwnOf, BudgetOf, FormOf, SeenBy
<1> QED
  BY <1>1, <1>2, AskKeeps, ExpiryKeeps, RenderingKeeps, ReadingKeeps DEF Next

\* Everyone who is not resting is in the queue once.
LEMMA QueueCountsTheBusy ==
  ASSUME LockInv
  PROVE  Len(queue) = Cardinality({c \in Callers : pc[c] \notin Resting})
<1> DEFINE Busy == {c \in Callers : pc[c] \notin Resting}
<1>1. queue \in Seq(Callers) /\ Len(queue) \in Nat
  BY DEF LockInv
<1>2. \A i \in 1 .. Len(queue) : queue[i] \in Busy
  BY <1>1, ElementOfSeq DEF LockInv, Queued
<1>3. queue \in [1 .. Len(queue) -> Busy]
  BY <1>1, <1>2, LenProperties
<1>4. queue \in Bijection(1 .. Len(queue), Busy)
  BY <1>3, Fun_IsBij DEF LockInv, Queued
<1>5. ExistsBijection(1 .. Len(queue), Busy)
  BY <1>4 DEF ExistsBijection
<1> QED
  BY <1>1, <1>5, FS_CountingElements

\* The lock, the page and the call records keep their types, whatever the
\* browser, the session and the callers do (flow/auth.py).
THEOREM TypeCorrect == Spec => [](JourneyInv /\ TypeOK)
<1>1. JourneyInv => TypeOK
  <2> SUFFICES ASSUME JourneyInv
               PROVE  TypeOK
    OBVIOUS
  <2>1. LockInv /\ ValuesInv
    BY DEF JourneyInv
  <2>2. \A c \in Callers :
           call[c] \in [lived: BOOLEAN, expired: BOOLEAN,
                        submits: 0 .. 1, restarts: 0 .. 1]
    BY <2>1 DEF ValuesInv
  <2>3. call \in [Callers -> Calls]
    BY <2>1, <2>2 DEF ValuesInv, Calls
  <2> QED
    BY <2>1, <2>3, QueueCountsTheBusy DEF TypeOK, LockInv, ValuesInv
<1> QED
  BY <1>1, JourneyInit, JourneyInductive, PTL DEF Spec

-----------------------------------------------------------------------------
(* What follows *)

\* However the calls interleave and whenever the session expires, a call signs
\* in only if the session had expired before or during it (auth.py:123-126).
THEOREM LiveSessionStays == Spec => []LiveSessionLeftAlone
<1>1. JourneyInv => LiveSessionLeftAlone
  BY DEF JourneyInv, OwnOf, SeenBy, LiveSessionLeftAlone
<1> QED
  BY <1>1, TypeCorrect, PTL

\* The form that is submitted has its key read with the configured provider and
\* its password typed into a field bound to that key, and the call has not
\* submitted before (auth.py:12, login_page.py:384-388).
THEOREM SubmitsOnceAsConfigured == Spec => SubmitAsConfigured
<1>1. JourneyInv /\ [Next]_vars =>
         [\A c \in Callers :
            call'[c].submits > call[c].submits =>
               page.form = FullForm /\ call[c].submits = 0 /\ call[c].restarts <= 1]_vars
  <2> SUFFICES ASSUME JourneyInv, Next, NEW c \in Callers,
                      call'[c].submits > call[c].submits
               PROVE  page.form = FullForm /\ call[c].submits = 0 /\ call[c].restarts <= 1
    BY DEF vars
  <2>0. /\ call \in [Callers -> [lived: BOOLEAN, expired: BOOLEAN,
                                 submits: 0 .. 1, restarts: 0 .. 1]]
        /\ call[c].submits \in 0 .. 1 /\ call[c].restarts \in 0 .. 1
    BY DEF JourneyInv, ValuesInv
  <2>1. call' # call
    BY <2>0
  <2>2. ~SessionExpires
    BY <2>0 DEF SessionExpires
  <2>3. ASSUME NEW d \in Callers, OpenCabinet(d) \/ Restart(d) \/ Callback(d)
        PROVE  FALSE
    <3>1. CASE OpenCabinet(d)
      <4>1. call' = [call EXCEPT ![d] = [lived |-> session = "live",
                                         expired |-> session = "expired",
                                         submits |-> 0, restarts |-> 0]]
        BY <3>1 DEF OpenCabinet
      <4>2. call'[c].submits \in {0, call[c].submits}
        BY <2>0, <4>1
      <4> QED
        BY <2>0, <4>2
    <3>2. CASE Restart(d)
      <4>1. call' = [call EXCEPT ![d].restarts = @ + 1]
        BY <3>2 DEF Restart
      <4>2. call'[c].submits = call[c].submits
        BY <2>0, <4>1
      <4> QED
        BY <2>0, <4>2
    <3>3. CASE Callback(d)
      <4>1. call' = [e \in Callers |-> [call[e] EXCEPT !.lived = TRUE]]
        BY <2>1, <3>3 DEF Callback
      <4>2. call'[c].submits = call[c].submits
        BY <2>0, <4>1
      <4> QED
        BY <2>0, <4>2
    <3> QED
      BY <2>3, <3>1, <3>2, <3>3
  <2>4. ASSUME NEW d \in Callers, Submit(d)
        PROVE  c = d /\ page.form = FullForm
    <3>1. pc[d] = "submit" /\ call' = [call EXCEPT ![d].submits = @ + 1]
      BY <2>4 DEF Submit, OnForm, At
    <3>2. c = d
      BY <2>0, <3>1
    <3> QED
      BY <3>1, <3>2 DEF JourneyInv, OwnOf, FormOf, Steps
  <2>5. PICK d \in Callers : Submit(d)
    <3>1. ~(Renders \/ KeyIsRead \/ CalmDown)
      BY <2>1 DEF Renders, KeyIsRead, CalmDown
    <3>2. PICK d \in Callers : Ask(d) \/ Step(d)
      BY <2>2, <3>1 DEF Next
    <3>3. ~(Ask(d) \/ Check(d) \/ Where(d) \/ Restarted(d) \/ Secrets(d))
      BY <2>1 DEF Ask, Check, Where, Restarted, Secrets
    <3>4. ~(Challenge(d) \/ AcceptTerms(d) \/ HandOver(d) \/ SelectMedium(d))
      BY <2>1 DEF Challenge, AcceptTerms, HandOver, SelectMedium
    <3>5. ~(SelectProvider(d) \/ ChooseKey(d) \/ WaitForKey(d) \/ FillPassword(d))
      BY <2>1 DEF SelectProvider, ChooseKey, WaitForKey, FillPassword
    <3>6. ~(Verify(d) \/ Verified(d) \/ StepFails(d))
      BY <2>1 DEF Verify, Verified, StepFails
    <3> QED
      BY <2>3, <3>2, <3>3, <3>4, <3>5, <3>6 DEF Step
  <2>6. pc[c] = "submit" /\ page.form = FullForm
    BY <2>4, <2>5 DEF Submit, OnForm, At
  <2> QED
    BY <2>0, <2>6 DEF JourneyInv, OwnOf, BudgetOf, ToSubmit, Steps
<1> QED
  BY <1>1, TypeCorrect, PTL DEF Spec, SubmitAsConfigured

\* A call that returns leaves the cabinet with its marker on the page, served to
\* a session that was live while the call held the lock (auth.py, _verify_cabinet).
THEOREM ReturnsToTheCabinet == Spec => ReturnsSignedIn
<1>1. JourneyInv /\ [Next]_vars =>
         [\A c \in Callers : pc[c] # "ok" /\ pc'[c] = "ok" /\ config.marker =>
            page = Cabinet /\ call[c].lived]_vars
  <2> SUFFICES ASSUME JourneyInv, Next, NEW c \in Callers,
                      pc[c] # "ok", pc'[c] = "ok", config.marker
               PROVE  page = Cabinet /\ call[c].lived
    BY DEF vars
  <2>0. pc \in [Callers -> Resting \cup {"waiting"} \cup Steps] /\ ValuesInv
    BY DEF JourneyInv, LockInv
  <2>1. Step(c)
    <3>1. PICK d \in Callers : Ask(d) \/ Step(d)
      BY DEF Next, SessionExpires, Renders, KeyIsRead, CalmDown
    <3>2. ~Ask(d)
      BY <2>0 DEF Ask
    <3>3. d = c
      BY <2>0, <3>1, <3>2, StepsTouchTheLock
         DEF Enters, Holds, Leaves, GoTo, Leave
    <3> QED
      BY <3>1, <3>2, <3>3
  <2>2. Check(c) \/ Verified(c)
    BY <2>0, <2>1
       DEF Step, OpenCabinet, Where, Restart, Restarted, Secrets, Challenge,
           AcceptTerms, HandOver, SelectMedium, SelectProvider, ChooseKey,
           WaitForKey, FillPassword, Submit, Callback, Verify, StepFails,
           Decide, GoTo, Leave, Remedy, After, At, OnForm
  <2>3. Authenticated(page) /\ pc[c] \in {"check", "verified"}
    BY <2>0, <2>2 DEF Check, Verified, Verdict, Decide, GoTo, Leave, At
  <2>4. page.at = "cabinet" /\ page.marker
    BY <2>3 DEF Authenticated
  <2>5. page = Cabinet
    <3>1. page \in Pages /\ page.form = EmptyForm
      BY <2>0, <2>4 DEF ValuesInv
    <3>2. page.marker = TRUE
      BY <2>4, <3>1 DEF Pages
    <3> QED
      BY <2>4, <3>1, <3>2 DEF Pages, Cabinet, Page
  <2>6. call[c].lived
    BY <2>3, <2>4 DEF JourneyInv, OwnOf, SeenBy, Steps
  <2> QED
    BY <2>5, <2>6
<1> QED
  BY <1>1, TypeCorrect, PTL DEF Spec, ReturnsSignedIn
=============================================================================
