------------------------- MODULE WorkerPool_proofs --------------------------
(***************************************************************************)
(* Safety of the worker pool, for any set of workers and of neighbours,    *)
(* stopped or not.                                                         *)
(***************************************************************************)
EXTENDS WorkerPool, SequenceTheorems, TLAPS

\* A dispatcher holds an offer exactly while it sends, a dispatcher in Dispatch has an
\* UPDATE, and a worker has a task exactly while it processes.
HandsOver ==
    /\ \A d \in Dispatcher : claim[d] \in Worker <=> dpc[d] = "sending"
    /\ \A d \in Dispatcher : dpc[d] # "idle" => sent[d] # 0
    /\ \A w \in Worker : wpc[w] = "process" <=> task[w] # NoTask

TypeInv == TypeOK /\ HandsOver

\* The record without a task is none of the UPDATEs.
LEMMA NoTaskIsNoUpdate == NoTask \notin Update
  <1> SUFFICES ASSUME NoTask \in Update PROVE FALSE
    OBVIOUS
  <1>1. NoTask.n \in 1 .. MaxUpdates
    BY DEF Update
  <1>2. NoTask.n = 0
    BY DEF NoTask
  <1> QED
    BY <1>1, <1>2, PoolAssumption

\* Types and the hand-over discipline hold initially ...
LEMMA TypeInvInit == Init => TypeInv
  <1> SUFFICES ASSUME Init PROVE TypeInv
    OBVIOUS
  <1>1. \A d \in Dispatcher : handled[d] = <<>> /\ <<>> \in Seq(1 .. MaxUpdates)
    BY DEF Init
  <1>2. TypeOK
    BY <1>1, PoolAssumption DEF Init, TypeOK
  <1>3. HandsOver
    BY PoolAssumption DEF Init, HandsOver
  <1> QED
    BY <1>2, <1>3 DEF TypeInv

\* ... and after every step.
LEMMA TypeInvStep == TypeInv /\ [Next]_vars => TypeInv'
  <1> SUFFICES ASSUME TypeInv, [Next]_vars PROVE TypeInv'
    OBVIOUS
  <1> USE PoolAssumption, NoTaskIsNoUpdate DEF TypeInv, TypeOK, HandsOver
  <1>1. ASSUME NEW d \in Dispatcher, Dispatch(d) PROVE TypeInv'
    BY <1>1 DEF Dispatch
  <1>2. ASSUME NEW d \in Dispatcher, Deliver(d) PROVE TypeInv'
    <2>1. claim[d] \in Worker /\ sent[d] \in 1 .. MaxUpdates
      BY <1>2 DEF Deliver
    <2>2. [from |-> d, n |-> sent[d]] \in Update
      BY <2>1 DEF Update
    <2>3. TypeOK'
      BY <1>2, <2>1, <2>2 DEF Deliver
    <2>4. HandsOver'
      BY <1>2, <2>1, <2>2 DEF Deliver
    <2> QED
      BY <2>3, <2>4
  <1>3. ASSUME NEW d \in Dispatcher, NEW w \in Worker, TakeOffer(w, d) PROVE TypeInv'
    BY <1>3 DEF TakeOffer
  <1>4. ASSUME NEW w \in Worker, Process(w) PROVE TypeInv'
    <2>1. task[w] \in Update
      BY <1>4 DEF Process
    <2>2. task[w].from \in Dispatcher /\ task[w].n \in 1 .. MaxUpdates
      BY <2>1 DEF Update
    <2>3. Append(handled[task[w].from], task[w].n) \in Seq(1 .. MaxUpdates)
      BY <2>2, AppendProperties
    <2>4. TypeOK'
      BY <1>4, <2>2, <2>3 DEF Process
    <2>5. HandsOver'
      BY <1>4 DEF Process
    <2> QED
      BY <2>4, <2>5
  <1>5. ASSUME NEW w \in Worker, StopWorker(w) PROVE TypeInv'
    BY <1>5 DEF StopWorker
  <1>6. CASE StopPool
    BY <1>6 DEF StopPool
  <1>7. CASE UNCHANGED vars
    BY <1>7 DEF vars
  <1> QED
    BY <1>1, <1>2, <1>3, <1>4, <1>5, <1>6, <1>7 DEF Next

\* The program counters, channels and handled UPDATEs keep their types.
THEOREM TypeCorrect == Spec => []TypeOK
<1>1. TypeInv => TypeOK
  BY DEF TypeInv
<1> QED
  BY TypeInvInit, TypeInvStep, <1>1, PTL DEF Spec

-----------------------------------------------------------------------------
\* Two dispatchers compete for a worker only after a worker has consumed a stop signal.
THEOREM NoCompetition == Spec => []ClaimsExclusive
<1>1. Init => ClaimsExclusive
  BY DEF Init, ClaimsExclusive
<1>2. TypeInv /\ ClaimsExclusive /\ [Next]_vars => ClaimsExclusive'
  <2> SUFFICES ASSUME TypeInv, ClaimsExclusive, [Next]_vars, \A w \in Worker : stop'[w] # "done"
               PROVE  ClaimsExclusive'
    BY DEF ClaimsExclusive
  <2> USE PoolAssumption DEF TypeInv, TypeOK, HandsOver, ClaimsExclusive
  <2>1. ASSUME NEW d \in Dispatcher, Dispatch(d) PROVE ClaimsExclusive'
    BY <2>1 DEF Dispatch
  <2>2. ASSUME NEW d \in Dispatcher, Deliver(d) PROVE ClaimsExclusive'
    BY <2>2 DEF Deliver
  <2>3. ASSUME NEW d \in Dispatcher, NEW w \in Worker, TakeOffer(w, d) PROVE ClaimsExclusive'
    <3>1. \A e \in Dispatcher : claim[e] # w
      BY <2>3 DEF TakeOffer
    <3> QED
      BY <2>3, <3>1 DEF TakeOffer
  <2>4. ASSUME NEW w \in Worker, Process(w) PROVE ClaimsExclusive'
    BY <2>4 DEF Process
  <2>5. ASSUME NEW w \in Worker, StopWorker(w) PROVE ClaimsExclusive'
    BY <2>5 DEF StopWorker
  <2>6. CASE StopPool
    BY <2>6 DEF StopPool
  <2>7. CASE UNCHANGED vars
    BY <2>7 DEF vars
  <2> QED
    BY <2>1, <2>2, <2>3, <2>4, <2>5, <2>6, <2>7 DEF Next
<1> QED
  BY <1>1, <1>2, TypeInvInit, TypeInvStep, PTL DEF Spec

-----------------------------------------------------------------------------
\* Appending a new element to an injective sequence keeps it injective and adds the
\* element to its range.
LEMMA AppendNew ==
    ASSUME NEW T, NEW s \in Seq(T), NEW e \in T, IsInjective(s), e \notin Range(s)
    PROVE  IsInjective(Append(s, e)) /\ Range(Append(s, e)) = Range(s) \cup {e}
  <1> DEFINE t == Append(s, e)
  <1>1. /\ t \in Seq(T) /\ Len(t) = Len(s) + 1 /\ t[Len(s) + 1] = e
        /\ \A i \in 1 .. Len(s) : t[i] = s[i]
    BY AppendProperties
  <1>2. Len(s) \in Nat /\ DOMAIN s = 1 .. Len(s) /\ DOMAIN t = 1 .. (Len(s) + 1)
    BY <1>1, LenProperties
  <1> HIDE DEF t
  <1>3. \A i \in DOMAIN s : s[i] # e
    BY DEF Range
  <1>4. IsInjective(t)
    BY <1>1, <1>2, <1>3 DEF IsInjective
  <1>5. Range(t) = Range(s) \cup {e}
    BY <1>1, <1>2 DEF Range
  <1> QED
    BY <1>4, <1>5 DEF t

\* An UPDATE in a worker's hands has been given to it by a Dispatch that returned.
InHandReturned == \A w \in Worker : task[w] # NoTask => task[w].n \in Returned(task[w].from)

OnceInv == TypeInv /\ InHandReturned /\ ExactlyOnce

\* Nothing is in hand or handled initially ...
LEMMA OnceInvInit == Init => OnceInv
  <1> SUFFICES ASSUME Init PROVE OnceInv
    OBVIOUS
  <1>1. TypeInv
    BY TypeInvInit
  <1>2. \A d \in Dispatcher : handled[d] = <<>> /\ Returned(d) = {}
    BY DEF Init, Returned
  <1>3. IsInjective(<<>>) /\ Range(<<>>) = {}
    BY DEF IsInjective, Range
  <1>4. ExactlyOnce
    BY <1>2, <1>3 DEF Init, ExactlyOnce
  <1> QED
    BY <1>1, <1>4 DEF OnceInv, InHandReturned, Init

\* ... and every step either moves one UPDATE into a worker's hands, or from there into
\* handled, or leaves both alone.
LEMMA OnceInvStep == OnceInv /\ [Next]_vars => OnceInv'
  <1> SUFFICES ASSUME OnceInv, [Next]_vars, TypeInv' PROVE InHandReturned' /\ ExactlyOnce'
    BY TypeInvStep DEF OnceInv
  <1> USE PoolAssumption, NoTaskIsNoUpdate
  <1> DEFINE Same == /\ task' = task /\ handled' = handled
                     /\ \A d \in Dispatcher : Returned(d)' = Returned(d)
  <1>0. ASSUME Same PROVE InHandReturned' /\ ExactlyOnce'
    <2>1. \A w \in Worker : task[w] # NoTask => task[w].from \in Dispatcher
      BY DEF OnceInv, TypeInv, TypeOK, Update
    <2>2. \A d, n : InHand(d, n)' <=> InHand(d, n)
      BY <1>0 DEF InHand
    <2>3. \A d \in Dispatcher :
            {n \in Returned(d)' : ~InHand(d, n)'} = {n \in Returned(d) : ~InHand(d, n)}
      BY <1>0, <2>2
    <2>4. InHandReturned'
      BY <1>0, <2>1 DEF OnceInv, InHandReturned
    <2>5. ExactlyOnce'
      BY <1>0, <2>3 DEF OnceInv, ExactlyOnce
    <2> QED
      BY <2>4, <2>5
  <1>1. ASSUME NEW d \in Dispatcher, Dispatch(d) PROVE Same
    BY <1>1 DEF Dispatch, Returned, OnceInv, TypeInv, TypeOK
  <1>2. ASSUME NEW d \in Dispatcher, NEW w \in Worker, TakeOffer(w, d) PROVE Same
    BY <1>2 DEF TakeOffer, Returned, OnceInv, TypeInv, TypeOK
  <1>3. ASSUME NEW w \in Worker, StopWorker(w) PROVE Same
    BY <1>3 DEF StopWorker, Returned
  <1>4. ASSUME StopPool PROVE Same
    BY <1>4 DEF StopPool, Returned
  <1>5. ASSUME UNCHANGED vars PROVE Same
    BY <1>5 DEF vars, Returned
  <1>6. ASSUME NEW d \in Dispatcher, Deliver(d) PROVE InHandReturned' /\ ExactlyOnce'
    <2> DEFINE w == claim[d]
               u == [from |-> d, n |-> sent[d]]
    <2>1. /\ w \in Worker /\ task[w] = NoTask /\ task' = [task EXCEPT ![w] = u]
          /\ handled' = handled /\ u \in Update /\ sent[d] \in Nat \ {0}
      BY <1>6 DEF Deliver, OnceInv, TypeInv, TypeOK, HandsOver, Update
    <2>2. /\ Returned(d) = 1 .. (sent[d] - 1) /\ Returned(d)' = 1 .. sent[d]
          /\ \A e \in Dispatcher \ {d} : Returned(e)' = Returned(e)
      BY <1>6 DEF Deliver, OnceInv, TypeInv, TypeOK, Returned
    <2>3. \A v \in Worker : task[v] # u
      <3> SUFFICES ASSUME NEW v \in Worker, task[v] = u PROVE FALSE
        OBVIOUS
      <3>1. u.n \in Returned(u.from)
        BY <2>1 DEF OnceInv, InHandReturned
      <3> QED
        BY <2>1, <2>2, <3>1
    <2>4. \A v \in Worker : task[v] # NoTask => task[v] \in Update
      BY DEF OnceInv, TypeInv, TypeOK
    <2>5. InHandReturned'
      <3>1. \A e \in Dispatcher : Returned(e) \subseteq Returned(e)'
        BY <2>1, <2>2
      <3>2. /\ dpc' = [dpc EXCEPT ![d] = "idle"] /\ sent' = sent
            /\ sent[d] \in 1 .. sent[d]
        BY <1>6, <2>1 DEF Deliver
      <3> SUFFICES ASSUME NEW v \in Worker, task'[v] # NoTask
                   PROVE  (task[v].n \in Returned(task[v].from))'
        BY DEF InHandReturned
      <3>3. CASE v = w
        <4>1. task'[v].from = d /\ task'[v].n = sent[d]
          BY <2>1, <3>3 DEF OnceInv, TypeInv, TypeOK
        <4> QED
          BY <3>2, <4>1 DEF Returned, OnceInv, TypeInv, TypeOK
      <3>4. CASE v # w
        <4>1. task'[v] = task[v] /\ task[v] \in Update
          BY <2>1, <2>4, <3>4 DEF OnceInv, TypeInv, TypeOK
        <4>2. task[v].n \in Returned(task[v].from) /\ task[v].from \in Dispatcher
          BY <2>1, <3>4, <4>1 DEF OnceInv, InHandReturned, Update
        <4>3. PICK e \in Dispatcher, n \in Nat :
                task[v].from = e /\ task[v].n = n /\ n \in Returned(e)
          BY <4>1, <4>2 DEF Update
        <4>4. n \in Returned(e)'
          BY <3>1, <4>3
        <4> QED
          BY <4>1, <4>3, <4>4 DEF Returned
      <3> QED
        BY <3>3, <3>4
    <2>6. \A e \in Dispatcher, n \in Nat \ {0} :
            InHand(e, n)' <=> InHand(e, n) \/ (e = d /\ n = sent[d])
      <3> SUFFICES ASSUME NEW e \in Dispatcher, NEW n \in Nat \ {0}
                   PROVE  InHand(e, n)' <=> InHand(e, n) \/ (e = d /\ n = sent[d])
        OBVIOUS
      <3> DEFINE r == [from |-> e, n |-> n]
      <3>1. r # NoTask /\ (r = u <=> e = d /\ n = sent[d])
        BY DEF NoTask
      <3>2. \A v \in Worker : task'[v] = IF v = w THEN u ELSE task[v]
        BY <2>1 DEF OnceInv, TypeInv, TypeOK
      <3> HIDE DEF r, u, w
      <3>3. (\E v \in Worker : task'[v] = r) <=> (\E v \in Worker : task[v] = r) \/ r = u
        BY <2>1, <3>1, <3>2
      <3> QED
        BY <3>1, <3>3 DEF InHand, r
    <2>7. \A e \in Dispatcher : Range(handled'[e]) = {n \in Returned(e)' : ~InHand(e, n)'}
      <3> SUFFICES ASSUME NEW e \in Dispatcher
                   PROVE  Range(handled[e]) = {n \in Returned(e)' : ~InHand(e, n)'}
        BY <2>1
      <3>1. Range(handled[e]) = {n \in Returned(e) : ~InHand(e, n)}
        BY DEF OnceInv, ExactlyOnce
      <3>2. Returned(e) \subseteq Nat \ {0}
        BY DEF Returned, OnceInv, TypeInv, TypeOK
      <3>3. CASE e = d
        <4>1. Returned(d)' = Returned(d) \cup {sent[d]} /\ sent[d] \notin Returned(d)
          BY <2>1, <2>2
        <4>2. \A n \in Returned(d) : InHand(d, n)' <=> InHand(d, n)
          BY <2>6, <3>2, <3>3, <4>1
        <4>3. \A n \in {sent[d]} : InHand(d, n)'
          BY <2>1, <2>6
        <4> QED
          BY <3>1, <3>3, <4>1, <4>2, <4>3
      <3>4. CASE e # d
        BY <2>2, <2>6, <3>1, <3>2, <3>4
      <3> QED
        BY <3>3, <3>4
    <2>8. \A v, x \in Worker : v # x /\ task'[v] = task'[x] => task'[v] = NoTask
      BY <2>1, <2>3 DEF OnceInv, ExactlyOnce, TypeInv, TypeOK
    <2> QED
      BY <2>1, <2>5, <2>7, <2>8 DEF OnceInv, ExactlyOnce
  <1>7. ASSUME NEW w \in Worker, Process(w) PROVE InHandReturned' /\ ExactlyOnce'
    <2> DEFINE d == task[w].from
               m == task[w].n
    <2>1. /\ task[w] \in Update /\ task[w] # NoTask /\ task' = [task EXCEPT ![w] = NoTask]
          /\ handled' = [handled EXCEPT ![d] = Append(@, m)]
          /\ \A e \in Dispatcher : Returned(e)' = Returned(e)
      BY <1>7 DEF Process, OnceInv, TypeInv, TypeOK, HandsOver, Returned
    <2>2. d \in Dispatcher /\ m \in 1 .. MaxUpdates /\ task[w] = [from |-> d, n |-> m]
      BY <2>1 DEF Update
    <2>3. InHand(d, m) /\ m \in Returned(d)
      BY <2>1, <2>2 DEF InHand, OnceInv, InHandReturned
    <2>4. IsInjective(handled'[d]) /\ Range(handled'[d]) = Range(handled[d]) \cup {m}
      <3>1. handled[d] \in Seq(1 .. MaxUpdates) /\ handled'[d] = Append(handled[d], m)
        BY <2>1, <2>2 DEF OnceInv, TypeInv, TypeOK
      <3>2. IsInjective(handled[d]) /\ m \notin Range(handled[d])
        BY <2>2, <2>3 DEF OnceInv, ExactlyOnce
      <3> QED
        BY <2>2, <3>1, <3>2, AppendNew
    <2>5. \A v \in Worker : v # w => task'[v] = task[v] /\ task[v] # task[w]
      BY <2>1 DEF OnceInv, ExactlyOnce, TypeInv, TypeOK
    <2>6. InHandReturned'
      BY <2>1, <2>5 DEF OnceInv, InHandReturned, TypeInv, TypeOK, Update
    <2>7. \A e \in Dispatcher, n \in Nat \ {0} :
            InHand(e, n)' <=> InHand(e, n) /\ ~(e = d /\ n = m)
      <3> SUFFICES ASSUME NEW e \in Dispatcher, NEW n \in Nat \ {0}
                   PROVE  InHand(e, n)' <=> InHand(e, n) /\ ~(e = d /\ n = m)
        OBVIOUS
      <3> DEFINE r == [from |-> e, n |-> n]
      <3>1. r # NoTask /\ (r = task[w] <=> e = d /\ n = m)
        BY <2>2 DEF NoTask
      <3>2. task'[w] = NoTask
        BY <2>1 DEF OnceInv, TypeInv, TypeOK
      <3> HIDE DEF r, d, m
      <3>3. (\E v \in Worker : task'[v] = r) <=> (\E v \in Worker : task[v] = r) /\ r # task[w]
        BY <2>5, <3>1, <3>2
      <3> QED
        BY <3>1, <3>3 DEF InHand, r
    <2>8. \A e \in Dispatcher : Range(handled'[e]) = {n \in Returned(e)' : ~InHand(e, n)'}
      <3> SUFFICES ASSUME NEW e \in Dispatcher
                   PROVE  Range(handled'[e]) = {n \in Returned(e) : ~InHand(e, n)'}
        BY <2>1
      <3>1. Range(handled[e]) = {n \in Returned(e) : ~InHand(e, n)}
        BY DEF OnceInv, ExactlyOnce
      <3>2. Returned(e) \subseteq Nat \ {0}
        BY DEF Returned, OnceInv, TypeInv, TypeOK
      <3>3. CASE e = d
        BY <2>3, <2>4, <2>7, <3>1, <3>2, <3>3
      <3>4. CASE e # d
        <4>1. handled'[e] = handled[e]
          BY <2>1, <3>4 DEF OnceInv, TypeInv, TypeOK
        <4> QED
          BY <2>7, <3>1, <3>2, <3>4, <4>1
      <3> QED
        BY <3>3, <3>4
    <2>9. \A e \in Dispatcher : IsInjective(handled'[e])
      BY <2>1, <2>2, <2>4 DEF OnceInv, ExactlyOnce, TypeInv, TypeOK
    <2>10. \A v, x \in Worker : v # x /\ task'[v] = task'[x] => task'[v] = NoTask
      BY <2>1, <2>5 DEF OnceInv, ExactlyOnce, TypeInv, TypeOK
    <2> QED
      BY <2>6, <2>8, <2>9, <2>10 DEF ExactlyOnce
  <1> QED
    BY <1>0, <1>1, <1>2, <1>3, <1>4, <1>5, <1>6, <1>7 DEF Next

\* No UPDATE is lost, handled twice or given to two workers, while the pool is stopped or
\* not.
THEOREM HandledExactlyOnce == Spec => []ExactlyOnce
<1>1. OnceInv => ExactlyOnce
  BY DEF OnceInv
<1> QED
  BY OnceInvInit, OnceInvStep, <1>1, PTL DEF Spec

-----------------------------------------------------------------------------
\* The number of the last UPDATE of d for which Dispatch has returned.
LastReturned(d) == IF dpc[d] = "idle" THEN sent[d] ELSE sent[d] - 1

\* A single worker handles 1, 2, 3 ... of each neighbour, and what it has in hand is next and
\* is the last that was dispatched.
Consecutive ==
    \A d \in Dispatcher :
        /\ handled[d] = [i \in 1 .. Len(handled[d]) |-> i]
        /\ \A w \in Worker : task[w] # NoTask /\ task[w].from = d =>
              task[w].n = LastReturned(d) /\ task[w].n = Len(handled[d]) + 1
        /\ (\A w \in Worker : task[w] = NoTask \/ task[w].from # d) =>
              Len(handled[d]) = LastReturned(d)

\* Nothing is handled and nothing is in hand initially ...
LEMMA ConsecutiveInit == Init => Consecutive
  <1> SUFFICES ASSUME Init, NEW d \in Dispatcher
               PROVE  /\ handled[d] = [i \in 1 .. Len(handled[d]) |-> i]
                      /\ \A w \in Worker : task[w] = NoTask
                      /\ Len(handled[d]) = LastReturned(d)
    BY DEF Consecutive
  <1>1. handled[d] = <<>> /\ dpc[d] = "idle" /\ sent[d] = 0
    BY DEF Init
  <1>2. <<>> = [i \in 1 .. 0 |-> i]
    OBVIOUS
  <1> QED
    BY <1>1, <1>2 DEF Init, LastReturned

\* ... and every step of the one worker keeps the numbers consecutive.
LEMMA ConsecutiveStep ==
    ASSUME TypeInv, Consecutive, [Next]_vars, \A v, w \in Worker : v = w PROVE Consecutive'
  <1> USE PoolAssumption, NoTaskIsNoUpdate DEF TypeInv, TypeOK, HandsOver
  <1>0. ASSUME UNCHANGED <<task, handled>>, \A d \in Dispatcher : LastReturned(d)' = LastReturned(d)
        PROVE  Consecutive'
    BY <1>0 DEF Consecutive
  <1>1. ASSUME NEW d \in Dispatcher, Dispatch(d) PROVE Consecutive'
    BY <1>0, <1>1 DEF Dispatch, LastReturned
  <1>2. ASSUME NEW d \in Dispatcher, NEW w \in Worker, TakeOffer(w, d) PROVE Consecutive'
    BY <1>0, <1>2 DEF TakeOffer, LastReturned
  <1>3. ASSUME NEW d \in Dispatcher, Deliver(d) PROVE Consecutive'
    <2> DEFINE w == claim[d]
               u == [from |-> d, n |-> sent[d]]
    <2>1. /\ w \in Worker /\ sent[d] \in 1 .. MaxUpdates /\ dpc[d] = "sending"
          /\ \A v \in Worker : v = w
      BY <1>3 DEF Deliver
    <2>2. \A v \in Worker : task[v] = NoTask
      BY <1>3, <2>1 DEF Deliver
    <2>3. u \in Update
      BY <2>1 DEF Update
    <2>4. \A v \in Worker : task'[v] = u
      BY <1>3, <2>1 DEF Deliver
    <2>5. /\ dpc'[d] = "idle" /\ \A e \in Dispatcher \ {d} : dpc'[e] = dpc[e]
          /\ sent' = sent /\ handled' = handled
      BY <1>3 DEF Deliver
    <2>6. \A e \in Dispatcher : /\ handled[e] = [i \in 1 .. Len(handled[e]) |-> i]
                                /\ Len(handled[e]) = LastReturned(e)
      BY <2>2 DEF Consecutive
    <2>7. LastReturned(d)' = sent[d] /\ LastReturned(d) = sent[d] - 1
      BY <2>1, <2>5 DEF LastReturned
    <2>8. \A e \in Dispatcher \ {d} : LastReturned(e)' = LastReturned(e)
      BY <2>5 DEF LastReturned
    <2>9. u.from = d /\ u.n = sent[d] /\ u # NoTask /\ sent[d] \in Nat
      BY <2>1, <2>3
    <2> HIDE DEF u
    <2>10. ASSUME NEW e \in Dispatcher
           PROVE  /\ handled'[e] = [i \in 1 .. Len(handled'[e]) |-> i]
                  /\ \A v \in Worker : task'[v] # NoTask /\ task'[v].from = e =>
                        task'[v].n = LastReturned(e)' /\ task'[v].n = Len(handled'[e]) + 1
                  /\ (\A v \in Worker : task'[v] = NoTask \/ task'[v].from # e) =>
                        Len(handled'[e]) = LastReturned(e)'
      <3>1. CASE e = d
        BY <2>1, <2>4, <2>5, <2>6, <2>7, <2>9, <3>1
      <3>2. CASE e # d
        BY <2>4, <2>5, <2>6, <2>8, <2>9, <3>2
      <3> QED
        BY <3>1, <3>2
    <2> QED
      BY <2>10 DEF Consecutive
  <1>4. ASSUME NEW w \in Worker, Process(w) PROVE Consecutive'
    <2> DEFINE d == task[w].from
               k == task[w].n
    <2>1. task[w] \in Update /\ task[w] # NoTask
      BY <1>4 DEF Process
    <2>2. d \in Dispatcher /\ k \in Nat /\ handled[d] \in Seq(1 .. MaxUpdates) /\ k \in 1 .. MaxUpdates
      BY <2>1 DEF Update
    <2>3. /\ handled[d] = [i \in 1 .. Len(handled[d]) |-> i]
          /\ k = LastReturned(d) /\ k = Len(handled[d]) + 1
      BY <2>1, <2>2 DEF Consecutive
    <2>4. /\ \A v \in Worker : task'[v] = NoTask
          /\ handled'[d] = Append(handled[d], k)
          /\ \A e \in Dispatcher \ {d} : handled'[e] = handled[e]
          /\ UNCHANGED <<dpc, sent>>
      BY <1>4, <2>2 DEF Process
    <2>5. \A e \in Dispatcher : LastReturned(e)' = LastReturned(e)
      BY <2>4 DEF LastReturned
    <2>6. /\ Len(handled'[d]) = k /\ Append(handled[d], k) \in Seq(1 .. MaxUpdates)
          /\ Len(Append(handled[d], k)) = k
          /\ Append(handled[d], k) = [i \in 1 .. k |-> i]
      <3> DEFINE s == handled[d]
      <3>1. /\ s \in Seq(1 .. MaxUpdates) /\ Len(s) \in Nat /\ k = Len(s) + 1
            /\ \A i \in 1 .. Len(s) : s[i] = i
        BY <2>2, <2>3, LenProperties
      <3> HIDE DEF s
      <3>2. /\ Append(s, k) \in Seq(1 .. MaxUpdates) /\ Len(Append(s, k)) = k
            /\ Append(s, k)[k] = k /\ \A i \in 1 .. Len(s) : Append(s, k)[i] = i
        BY <2>2, <3>1, AppendProperties
      <3>3. Append(s, k) = [i \in 1 .. k |-> Append(s, k)[i]]
        <4> DEFINE t == Append(s, k)
        <4>1. t \in Seq(1 .. MaxUpdates) /\ Len(t) = k
          BY <3>2
        <4> HIDE DEF t
        <4>2. t \in [1 .. k -> 1 .. MaxUpdates]
          BY <4>1, LenProperties
        <4>3. t = [i \in 1 .. k |-> t[i]]
          BY <4>2, Zenon
        <4> QED
          BY <4>3 DEF t
      <3>4. \A i \in 1 .. k : Append(s, k)[i] = i
        BY <3>1, <3>2
      <3> QED
        BY <2>4, <3>2, <3>3, <3>4 DEF s
    <2>7. ASSUME NEW e \in Dispatcher \ {d}
          PROVE  /\ handled[e] = [i \in 1 .. Len(handled[e]) |-> i]
                 /\ Len(handled[e]) = LastReturned(e)
      <3>1. \A v \in Worker : v = w
        OBVIOUS
      <3> QED
        BY <2>1, <3>1 DEF Consecutive
    <2>8. ASSUME NEW e \in Dispatcher
          PROVE  /\ handled'[e] = [i \in 1 .. Len(handled'[e]) |-> i]
                 /\ Len(handled'[e]) = LastReturned(e)'
      <3>1. CASE e = d
        BY <2>3, <2>4, <2>5, <2>6, <3>1
      <3>2. CASE e # d
        <4>1. handled'[e] = handled[e] /\ LastReturned(e)' = LastReturned(e)
          BY <2>4, <2>5, <3>2
        <4>2. /\ handled[e] = [i \in 1 .. Len(handled[e]) |-> i]
              /\ Len(handled[e]) = LastReturned(e)
          BY <2>7, <3>2
        <4> QED
          BY <4>1, <4>2, Zenon
      <3> QED
        BY <3>1, <3>2
    <2> QED
      BY <2>4, <2>8 DEF Consecutive
  <1>5. CASE (\E w \in Worker : StopWorker(w)) \/ StopPool \/ UNCHANGED vars
    BY <1>0, <1>5 DEF StopWorker, StopPool, vars, LastReturned
  <1> QED
    BY <1>1, <1>2, <1>3, <1>4, <1>5 DEF Next

\* A pool of a single worker hands the UPDATEs of a neighbour to the handler in the order in
\* which they were received, for any number of neighbours and UPDATEs, stopped or not.
THEOREM OneWorkerInOrder == ASSUME \A v, w \in Worker : v = w PROVE Spec => []InOrder
  <1>1. TypeInv /\ Consecutive /\ [Next]_vars => Consecutive'
    BY ConsecutiveStep
  <1>2. Consecutive => InOrder
    BY DEF Consecutive, InOrder
  <1> QED
    BY <1>1, <1>2, ConsecutiveInit, TypeInvInit, TypeInvStep, PTL DEF Spec
=============================================================================
