---------------------- MODULE USBControlRequests_proofs ----------------------
(***************************************************************************)
(* Theorems about the control requests of a USB host, for any number of    *)
(* requests and any room in the pool.                                      *)
(***************************************************************************)
EXTENDS USBControlRequests, FiniteSetTheorems, SequenceTheorems, TLAPS

-----------------------------------------------------------------------------
(* Lists without repetition *)

Members(s) == {s[i] : i \in DOMAIN s}
Distinct(s) == \A i, j \in DOMAIN s : s[i] = s[j] => i = j

\* A list without repetition has as many members as positions.
LEMMA DistinctCount ==
    ASSUME NEW S, NEW s \in Seq(S), Distinct(s)
    PROVE  IsFiniteSet(Members(s)) /\ Cardinality(Members(s)) = Len(s)
<1>1. Len(s) \in Nat /\ DOMAIN s = 1 .. Len(s)
    BY LenProperties
<1>2. IsFiniteSet(1 .. Len(s)) /\ Cardinality(1 .. Len(s)) = Len(s)
    BY <1>1, FS_Interval
<1> DEFINE f == [i \in 1 .. Len(s) |-> s[i]]
<1>3. f \in Bijection(1 .. Len(s), Members(s))
    BY <1>1 DEF Members, Distinct, Bijection, Injection, Surjection, IsInjective
<1>4. ExistsBijection(1 .. Len(s), Members(s))
    BY <1>3 DEF ExistsBijection
<1> QED BY <1>2, <1>4, FS_Bijection

\* InOrder selects exactly what is at the positions, each of them once.
LEMMA InOrderSelects ==
    ASSUME NEW S, NEW list \in Seq(S), NEW P \in SUBSET DOMAIN list, NEW sel \in InOrder(list, P)
    PROVE  /\ sel \in Seq(S)
           /\ Members(sel) = {list[p] : p \in P}
           /\ Distinct(list) => Distinct(sel)
<1> DEFINE n == Cardinality(P)
<1>1. Len(list) \in Nat /\ DOMAIN list = 1 .. Len(list) /\ list \in [1 .. Len(list) -> S]
    BY LenProperties
<1>2. IsFiniteSet(P) /\ n \in Nat
    <2>1. IsFiniteSet(1 .. Len(list))
        BY <1>1, FS_Interval
    <2>2. IsFiniteSet(P)
        BY <1>1, <2>1, FS_Subset
    <2> QED BY <2>2, FS_CardinalityType
<1>3. PICK at \in [1 .. n -> P] :
          /\ \A l, m \in 1 .. n : l < m => at[l] < at[m]
          /\ sel = [m \in 1 .. n |-> list[at[m]]]
    BY DEF InOrder
<1> HIDE DEF n
<1>4. \A l, m \in 1 .. n : at[l] = at[m] => l = m
    <2> TAKE l, m \in 1 .. n
    <2>1. at[l] \in Nat /\ at[m] \in Nat
        BY <1>1
    <2>2. l \in Nat /\ m \in Nat
        BY <1>2
    <2> QED BY <1>3, <2>1, <2>2
<1>5. at \in Injection(1 .. n, P)
    BY <1>4 DEF Injection, IsInjective
<1>6. Cardinality(1 .. n) = n
    BY <1>2, FS_Interval
<1>7. at \in Surjection(1 .. n, P)
    BY <1>2, <1>5, <1>6, FS_Injection DEF n
<1>8. \A p \in P : \E m \in 1 .. n : at[m] = p
    BY <1>7 DEF Surjection
<1>9. sel \in [1 .. n -> S] /\ DOMAIN sel = 1 .. n
    BY <1>1, <1>3
<1>10. sel \in Seq(S)
    BY <1>2, <1>9
<1>11. Members(sel) = {list[p] : p \in P}
    BY <1>3, <1>8, <1>9 DEF Members
<1>12. ASSUME Distinct(list) PROVE Distinct(sel)
    <2> SUFFICES ASSUME NEW l \in 1 .. n, NEW m \in 1 .. n, sel[l] = sel[m] PROVE l = m
        BY <1>9 DEF Distinct
    <2>1. list[at[l]] = list[at[m]] /\ at[l] \in DOMAIN list /\ at[m] \in DOMAIN list
        BY <1>3
    <2> QED BY <1>4, <1>12, <2>1 DEF Distinct
<1> QED BY <1>10, <1>11, <1>12

\* No two tasks of the queue are about the same request: a request holds one task.
Once(q) == \A i, j \in DOMAIN q : q[i].req = q[j].req => i = j

\* A task is queued behind the others.
LEMMA QueueAppend ==
    ASSUME NEW q \in Seq(Task), Once(q), NEW t \in Task, \A u \in Members(q) : u.req # t.req
    PROVE  /\ Append(q, t) \in Seq(Task)
           /\ Members(Append(q, t)) = Members(q) \cup {t}
           /\ Once(Append(q, t))
<1> DEFINE p == Append(q, t)
           n == Len(q)
<1>1. n \in Nat /\ DOMAIN q = 1 .. n
    BY LenProperties
<1>2. p \in Seq(Task) /\ DOMAIN p = 1 .. n + 1 /\ p[n + 1] = t /\ \A i \in 1 .. n : p[i] = q[i]
    <2>1. p \in Seq(Task) /\ Len(p) = n + 1 /\ p[n + 1] = t /\ \A i \in 1 .. n : p[i] = q[i]
        BY AppendProperties
    <2> QED BY <2>1, LenProperties
<1> HIDE DEF p, n
<1>3. Members(p) = Members(q) \cup {t}
    <2>1. \A i \in DOMAIN p : i = n + 1 \/ i \in DOMAIN q
        BY <1>1, <1>2
    <2>2. n + 1 \in DOMAIN p /\ \A i \in DOMAIN q : i \in DOMAIN p
        BY <1>1, <1>2
    <2> QED BY <1>1, <1>2, <2>1, <2>2 DEF Members
<1>4. \A i \in 1 .. n : p[i].req # t.req
    BY <1>1, <1>2 DEF Members
<1>5. Once(p)
    <2> SUFFICES ASSUME NEW i \in 1 .. n + 1, NEW j \in 1 .. n + 1, p[i].req = p[j].req PROVE i = j
        BY <1>2 DEF Once
    <2>1. CASE i \in 1 .. n /\ j \in 1 .. n
        BY <1>1, <1>2, <2>1 DEF Once
    <2>2. CASE i = n + 1 \/ j = n + 1
        <3>1. i \notin 1 .. n => i = n + 1
            BY <1>1
        <3>2. j \notin 1 .. n => j = n + 1
            BY <1>1
        <3> QED BY <1>2, <1>4, <2>2, <3>1, <3>2
    <2> QED BY <1>1, <2>1, <2>2
<1> QED BY <1>2, <1>3, <1>5 DEF p

\* The first task is taken.
LEMMA QueueTail ==
    ASSUME NEW q \in Seq(Task), Once(q), q # <<>>
    PROVE  /\ Head(q) \in Members(q)
           /\ Tail(q) \in Seq(Task)
           /\ Members(Tail(q)) = Members(q) \ {Head(q)}
           /\ Once(Tail(q))
<1> DEFINE p == Tail(q)
           n == Len(q)
<1>1. n \in Nat \ {0} /\ DOMAIN q = 1 .. n
    BY LenProperties, EmptySeq
<1>2. p \in Seq(Task) /\ DOMAIN p = 1 .. n - 1 /\ \A i \in 1 .. n - 1 : p[i] = q[i + 1]
    <2>1. p \in Seq(Task) /\ Len(p) = n - 1 /\ \A i \in 1 .. Len(p) : p[i] = q[i + 1]
        BY HeadTailProperties
    <2> QED BY <2>1, LenProperties
<1>3. Head(q) = q[1]
    OBVIOUS
<1> HIDE DEF p, n
<1>4. 1 \in DOMAIN q /\ \A i \in DOMAIN p : i + 1 \in DOMAIN q /\ i + 1 # 1
    BY <1>1, <1>2
<1>5. \A i \in DOMAIN q : i # 1 => i - 1 \in DOMAIN p /\ p[i - 1] = q[i]
    <2> TAKE i \in DOMAIN q
    <2> HAVE i # 1
    <2>1. i - 1 \in 1 .. n - 1 /\ (i - 1) + 1 = i
        BY <1>1
    <2> QED BY <1>2, <2>1
<1>6. \A i \in DOMAIN q : q[i] = q[1] => i = 1
    BY <1>4 DEF Once
<1>7. Members(p) = Members(q) \ {q[1]}
    <2>1. ASSUME NEW x \in Members(p) PROVE x \in Members(q) /\ x # q[1]
        BY <1>2, <1>4, <1>6 DEF Members
    <2>2. ASSUME NEW x \in Members(q), x # q[1] PROVE x \in Members(p)
        BY <1>5, <2>2 DEF Members
    <2> QED BY <2>1, <2>2
<1>8. Once(p)
    <2> SUFFICES ASSUME NEW i \in DOMAIN p, NEW j \in DOMAIN p, p[i].req = p[j].req PROVE i = j
        BY DEF Once
    <2>1. i + 1 = j + 1
        BY <1>2, <1>4 DEF Once
    <2> QED BY <1>1, <1>2, <2>1
<1> QED BY <1>2, <1>3, <1>4, <1>7, <1>8 DEF p, Members

\* The tasks that finish a list of requests are queued behind the others.
LEMMA QueueFinish ==
    ASSUME NEW q \in Seq(Task), Once(q), NEW list \in Seq(Obj), Distinct(list),
           \A t \in Members(q) : t.req \notin Members(list),
           NEW p, p = q \o [i \in DOMAIN list |-> TaskOf("finishRequest", list[i])]
    PROVE  /\ p \in Seq(Task)
           /\ Members(p) = Members(q) \cup {TaskOf("finishRequest", o) : o \in Members(list)}
           /\ Once(p)
<1> DEFINE r == [i \in DOMAIN list |-> TaskOf("finishRequest", list[i])]
           n == Len(q)
           l == Len(list)
<1>1. /\ n \in Nat /\ DOMAIN q = 1 .. n
      /\ l \in Nat /\ DOMAIN list = 1 .. l /\ \A i \in 1 .. l : list[i] \in Obj
    BY LenProperties, ElementOfSeq
<1>2. \A o \in Obj : TaskOf("finishRequest", o) \in Task /\ TaskOf("finishRequest", o).req = o
    BY DEF TaskOf, Task
<1>3. r \in [1 .. l -> Task]
    BY <1>1, <1>2
<1>4. r \in Seq(Task) /\ Len(r) = l
    BY <1>1, <1>3
<1>5. /\ p \in Seq(Task) /\ DOMAIN p = 1 .. n + l
      /\ \A i \in 1 .. n + l : p[i] = IF i <= n THEN q[i] ELSE r[i - n]
    <2>2. p = q \o r
        OBVIOUS
    <2> HIDE DEF r
    <2>3. /\ q \o r \in Seq(Task)
          /\ Len(q \o r) = Len(q) + Len(r)
          /\ \A i \in 1 .. Len(q) + Len(r) : (q \o r)[i] = IF i <= Len(q) THEN q[i] ELSE r[i - Len(q)]
        BY <1>4, ConcatProperties, Zenon
    <2>1. /\ p \in Seq(Task) /\ Len(p) = n + l
          /\ \A i \in 1 .. n + l : p[i] = IF i <= n THEN q[i] ELSE r[i - n]
        BY <1>4, <2>2, <2>3, Zenon
    <2> QED BY <2>1, LenProperties
<1>6. \A i \in 1 .. l : r[i] = TaskOf("finishRequest", list[i]) /\ r[i].req = list[i]
    BY <1>1, <1>2
<1> HIDE DEF r, n, l
<1>7. \A i \in 1 .. n : i \in 1 .. n + l /\ p[i] = q[i]
    <2> TAKE i \in 1 .. n
    <2>1. i \in 1 .. n + l /\ i <= n
        BY <1>1
    <2> QED BY <1>5, <2>1
<1>8. \A i \in 1 .. l : n + i \in 1 .. n + l /\ p[n + i] = r[i]
    <2> TAKE i \in 1 .. l
    <2>1. n + i \in 1 .. n + l /\ ~ (n + i <= n) /\ (n + i) - n = i
        BY <1>1
    <2> QED BY <1>5, <2>1
<1>9. \A i \in 1 .. n + l : i \in 1 .. n \/ \E j \in 1 .. l : i = n + j
    <2> TAKE i \in 1 .. n + l
    <2>1. i \notin 1 .. n => i - n \in 1 .. l /\ i = n + (i - n)
        BY <1>1
    <2> QED BY <2>1
<1>10. Members(p) = Members(q) \cup {TaskOf("finishRequest", o) : o \in Members(list)}
    <2>1. ASSUME NEW t \in Members(p)
          PROVE  t \in Members(q) \/ \E o \in Members(list) : t = TaskOf("finishRequest", o)
        <3>1. PICK i \in 1 .. n + l : t = p[i]
            BY <1>5 DEF Members
        <3>2. CASE i \in 1 .. n
            BY <1>1, <1>7, <3>1, <3>2 DEF Members
        <3>3. CASE \E j \in 1 .. l : i = n + j
            BY <1>1, <1>6, <1>8, <3>1, <3>3 DEF Members
        <3> QED BY <1>9, <3>2, <3>3
    <2>2. ASSUME NEW t \in Members(q) PROVE t \in Members(p)
        BY <1>1, <1>5, <1>7 DEF Members
    <2>3. ASSUME NEW o \in Members(list) PROVE TaskOf("finishRequest", o) \in Members(p)
        <3>1. PICK i \in 1 .. l : o = list[i]
            BY <1>1 DEF Members
        <3> QED BY <1>5, <1>6, <1>8, <3>1 DEF Members
    <2> QED BY <2>1, <2>2, <2>3
<1>11. \A i \in 1 .. n, j \in 1 .. l : q[i].req # r[j].req
    BY <1>1, <1>6 DEF Members
<1>12. Once(p)
    <2> SUFFICES ASSUME NEW i \in 1 .. n + l, NEW j \in 1 .. n + l, p[i].req = p[j].req PROVE i = j
        BY <1>5 DEF Once
    <2>1. CASE i \in 1 .. n /\ j \in 1 .. n
        BY <1>1, <1>7, <2>1 DEF Once
    <2>2. CASE i \in 1 .. n /\ \E k \in 1 .. l : j = n + k
        <3>1. PICK k \in 1 .. l : j = n + k
            BY <2>2
        <3>2. p[i] = q[i] /\ p[j] = r[k]
            BY <1>7, <1>8, <2>2, <3>1
        <3> QED BY <1>11, <2>2, <3>2
    <2>3. CASE j \in 1 .. n /\ \E k \in 1 .. l : i = n + k
        <3>1. PICK k \in 1 .. l : i = n + k
            BY <2>3
        <3>2. p[j] = q[j] /\ p[i] = r[k]
            BY <1>7, <1>8, <2>3, <3>1
        <3> QED BY <1>11, <2>3, <3>2
    <2>4. CASE (\E k \in 1 .. l : i = n + k) /\ \E m \in 1 .. l : j = n + m
        <3>1. PICK k \in 1 .. l : i = n + k
            BY <2>4
        <3>2. PICK m \in 1 .. l : j = n + m
            BY <2>4
        <3>3. list[k] = list[m]
            BY <1>6, <1>8, <3>1, <3>2
        <3>4. k = m
            BY <1>1, <3>3 DEF Distinct
        <3> QED BY <3>1, <3>2, <3>4
    <2> QED BY <1>9, <2>1, <2>2, <2>3, <2>4
<1> QED BY <1>5, <1>10, <1>12

-----------------------------------------------------------------------------
(* The inductive invariant *)

Queue == Members(tasks)

\* Who works on a request, and what a task is for.
Queued(o) == \E t \in Queue : t.req = o
Taken(o) == running # None /\ running.task.req = o
Worked(o) == Queued(o) \/ Taken(o) \/ o \in handling \/ o \in setting
Doing(func, o) == TaskOf(func, o) \in Queue \/ (running # None /\ running.task = TaskOf(func, o))

ListOK ==
    /\ Distinct(active)
    /\ count = Len(active)
    /\ Once(tasks)

\* No two of the places hold the request, and some place does exactly while the threads
\* are to work on it.
Owned(o) ==
    /\ Queued(o) => ~ Taken(o) /\ o \notin handling /\ o \notin setting
    /\ Taken(o) => o \notin handling /\ o \notin setting
    /\ o \in handling => o \notin setting
    /\ o \in Active => Live(o)
    /\ InThread(req[o]) => o \in Active
    /\ Worked(o) <=> Live(o) /\ (o \in Active => InThread(req[o]))

\* The state of a request fits what is done with it.
Purposeful(o) ==
    /\ Doing("allocRequestData", o) =>
          req[o].state \in {"ALLOC_PENDING", "DONE"} /\ ~ req[o].reply /\ ~ req[o].handler
    /\ Doing("invokeRequestHandler", o) \/ o \in handling \/ o \in setting =>
          req[o].state \in {"PENDING", "DONE"}
    /\ Doing("finishRequest", o) => o \notin Active
    /\ Running("allocRequestData", "allocated") /\ running.task.req = o => req[o].data \in {"none", "heap"}

\* A request has a final result once it is no longer active, and 0 only if the host
\* received the reply, provided that the host does not give up transfers.
Answered(o) ==
    /\ o \in Active => req[o].result \in {"UNKNOWN", "HANDLED"} /\ ~ req[o].received
    /\ Live(o) /\ o \notin Active =>
          /\ req[o].result \in {"NONE", "CANCELLED", "ABORTED"}
          /\ ~ Aborts => (req[o].result = "NONE" <=> req[o].received)
    /\ req[o].state \in {"ALLOC_PENDING", "ALLOC_FAILED"} => ~ req[o].reply /\ ~ req[o].handler
    /\ req[o].state = "ALLOC_FAILED" => req[o].data = "none"

ObjectsOK == \A o \in Obj : Owned(o) /\ Purposeful(o) /\ Answered(o)

TransferOK ==
    /\ InProgress => transfer.req \in Active \cup {None}
    /\ ~ Aborts /\ curReq # None => InProgress /\ transfer.kind = "in" /\ transfer.req = curReq

ChannelInv == TypeOK /\ ListOK /\ ObjectsOK /\ TransferOK

-----------------------------------------------------------------------------
(* finishActiveRequest() *)

\* What it leaves of an object.
Leaves(d, r, result, received) ==
    /\ d \in Request
    /\ InThread(r) => /\ d.state = "DONE" /\ d.data = r.data
                      /\ d.result = result /\ d.received = received
                      /\ d.reply = r.reply /\ d.handler = r.handler
    /\ ~ InThread(r) /\ HoldsMemory(r) =>
          /\ d.state = r.state /\ d.data = (IF r.data = "pooled" THEN "none" ELSE r.data)
          /\ d.result = result /\ d.received = received
          /\ d.reply = r.reply /\ d.handler = r.handler
    /\ ~ InThread(r) /\ ~ HoldsMemory(r) => d = Free

LEMMA DetachedIs ==
    ASSUME NEW r \in Request, NEW result \in Results, NEW received \in BOOLEAN, r.state # "free"
    PROVE  Leaves(Detached([r EXCEPT !.result = result, !.received = received]), r, result, received)
<1> DEFINE s == [r EXCEPT !.result = result, !.received = received]
<1>1. /\ s \in Request /\ s.state = r.state /\ s.data = r.data /\ s.reply = r.reply /\ s.handler = r.handler
      /\ s.result = result /\ s.received = received
    BY DEF Request
<1>2. Free \in Request
    BY DEF Free, Request, Results
<1> HIDE DEF s
<1>3. (InThread(s) <=> InThread(r)) /\ (HoldsMemory(s) <=> HoldsMemory(r))
    <2>1. WithoutPooledData(s).data = WithoutPooledData(r).data
        BY <1>1 DEF WithoutPooledData, Request
    <2> QED BY <1>1, <2>1 DEF InThread, HoldsMemory
<1>4. ASSUME InThread(r) PROVE Leaves(Detached(s), r, result, received)
    <2>1. Detached(s) = [s EXCEPT !.state = "DONE"]
        BY <1>3, <1>4 DEF Detached
    <2> QED BY <1>1, <1>4, <2>1 DEF Request, Leaves
<1>5. ASSUME ~ InThread(r), HoldsMemory(r) PROVE Leaves(Detached(s), r, result, received)
    <2>1. Detached(s) = WithoutPooledData(s)
        BY <1>3, <1>5 DEF Detached
    <2>2. /\ WithoutPooledData(s) \in Request
          /\ WithoutPooledData(s).state = s.state /\ WithoutPooledData(s).reply = s.reply
          /\ WithoutPooledData(s).handler = s.handler /\ WithoutPooledData(s).result = s.result
          /\ WithoutPooledData(s).received = s.received
          /\ WithoutPooledData(s).data = (IF s.data = "pooled" THEN "none" ELSE s.data)
        BY <1>1 DEF WithoutPooledData, Request
    <2> QED BY <1>1, <1>5, <2>1, <2>2 DEF Leaves
<1>6. ASSUME ~ InThread(r), ~ HoldsMemory(r) PROVE Leaves(Detached(s), r, result, received)
    BY <1>2, <1>3, <1>6 DEF Detached, Leaves
<1>7. Leaves(Detached(s), r, result, received)
    BY <1>4, <1>5, <1>6
<1> QED BY <1>7 DEF s

\* What it does to the list, the count and the queue.
FinishEffect(os, result, received) ==
    /\ req' \in [Obj -> Request]
    /\ \A o \in Obj : req'[o] = IF o \in os THEN Detached([req[o] EXCEPT !.result = result, !.received = received])
                                ELSE req[o]
    /\ active' \in Seq(Obj) /\ Distinct(active') /\ Members(active') = Active \ os
    /\ count' = Len(active') /\ count' \in 0 .. MaxActive
    /\ tasks' \in Seq(Task) /\ Once(tasks')
    /\ Members(tasks') = Queue \cup {TaskOf("finishRequest", o) : o \in {x \in os : ToFinish(x)}}

LEMMA FinishActiveEffect ==
    ASSUME TypeOK, ListOK, ObjectsOK, NEW os \in SUBSET Active,
           NEW result \in Results, NEW received \in BOOLEAN, FinishActive(os, result, received)
    PROVE  FinishEffect(os, result, received)
<1> USE DEF Queue
<1>1. /\ active \in Seq(Obj) /\ Distinct(active) /\ count = Len(active) /\ count \in 0 .. MaxActive
      /\ tasks \in Seq(Task) /\ Once(tasks) /\ req \in [Obj -> Request]
    BY DEF TypeOK, ListOK
<1>2. Active = Members(active) /\ IsFiniteSet(Active) /\ Cardinality(Active) = count
    BY <1>1, DistinctCount DEF Active, Members
<1>3. os \subseteq Obj /\ \A o \in os : Live(o)
    <2>1. Active \subseteq Obj
        BY <1>1, ElementOfSeq, LenProperties DEF Active
    <2> QED BY <2>1 DEF ObjectsOK, Owned
<1>4. /\ req' \in [Obj -> Request]
      /\ \A o \in Obj : req'[o] = IF o \in os THEN Detached([req[o] EXCEPT !.result = result, !.received = received])
                                  ELSE req[o]
    <2>1. \A o \in os : Detached([req[o] EXCEPT !.result = result, !.received = received]) \in Request
        BY <1>1, <1>3, DetachedIs DEF Live, Leaves
    <2> QED BY <1>1, <2>1 DEF FinishActive, DetachAll
<1>5. /\ active' \in Seq(Obj) /\ Distinct(active') /\ Members(active') = Active \ os
    <2> DEFINE P == {i \in DOMAIN active : active[i] \notin os}
    <2>1. active' \in InOrder(active, P)
        BY DEF FinishActive
    <2>2. /\ active' \in Seq(Obj) /\ Distinct(active') /\ Members(active') = {active[p] : p \in P}
        BY <1>1, <2>1, InOrderSelects
    <2>3. {active[p] : p \in P} = Active \ os
        BY DEF Active
    <2> QED BY <2>2, <2>3
<1>6. count' = Len(active') /\ count' \in 0 .. MaxActive
    <2>1. /\ Len(active') \in Nat /\ Len(active') = Cardinality(Active \ os)
        BY <1>5, DistinctCount, LenProperties
    <2>2. IsFiniteSet(os) /\ Cardinality(os) \in Nat
        BY <1>2, FS_Subset, FS_CardinalityType
    <2>3. Cardinality(Active \ os) = Cardinality(Active) - Cardinality(Active \cap os)
        BY <1>2, <2>2, FS_Difference
    <2>4. Active \cap os = os
        OBVIOUS
    <2>5. count' = count - Cardinality(os)
        BY DEF FinishActive
    <2>6. Len(active') = count'
        BY <1>2, <2>1, <2>3, <2>4, <2>5, Zenon
    <2>7. count' <= count /\ count' \in Nat
        <3>1. count \in Nat /\ count' \in Nat
            BY <1>1, <2>1, <2>6
        <3> QED BY <2>2, <2>5, <3>1
    <2>8. count \in Nat /\ count <= MaxActive /\ MaxActive \in Nat
        BY <1>1, ChannelAssumption DEF ChannelAssumption
    <2> QED BY <2>6, <2>7, <2>8
<1>7. /\ tasks' \in Seq(Task) /\ Once(tasks')
      /\ Members(tasks') = Queue \cup {TaskOf("finishRequest", o) : o \in {x \in os : ToFinish(x)}}
    <2> DEFINE P == {i \in DOMAIN active : active[i] \in os /\ ToFinish(active[i])}
    <2>1. PICK later \in InOrder(active, P) :
              tasks' = tasks \o [i \in DOMAIN later |-> TaskOf("finishRequest", later[i])]
        BY DEF FinishActive
    <2>2. /\ later \in Seq(Obj) /\ Distinct(later) /\ Members(later) = {active[p] : p \in P}
        BY <1>1, InOrderSelects
    <2>3. {active[p] : p \in P} = {x \in os : ToFinish(x)}
        BY DEF Active
    <2>4. \A t \in Members(tasks) : t.req \notin Members(later)
        <3> SUFFICES ASSUME NEW t \in Members(tasks), t.req \in Members(later) PROVE FALSE
            OBVIOUS
        <3>1. t.req \in os /\ ~ InThread(req[t.req]) /\ t.req \in Obj
            BY <1>3, <2>2, <2>3 DEF ToFinish
        <3>2. Queued(t.req) /\ t.req \in Active
            BY <3>1 DEF Queued
        <3> QED BY <3>1, <3>2 DEF ObjectsOK, Owned, Worked
    <2> HIDE DEF P
    <2>5. tasks' \in Seq(Task) /\ Once(tasks')
        BY <1>1, <2>1, <2>2, <2>4, QueueFinish
    <2>6. Members(tasks') = Members(tasks) \cup {TaskOf("finishRequest", o) : o \in Members(later)}
        BY <1>1, <2>1, <2>2, <2>4, QueueFinish
    <2> QED BY <2>2, <2>3, <2>5, <2>6
<1> QED BY <1>4, <1>5, <1>6, <1>7 DEF FinishEffect

\* An object that no step concerns keeps its part of the invariant.
LEMMA Untouched ==
    ASSUME NEW o \in Obj, Owned(o), Purposeful(o), Answered(o),
           req'[o] = req[o],
           o \in Active' <=> o \in Active,
           Queued(o)' <=> Queued(o),
           \A func : TaskOf(func, o) \in Queue' <=> TaskOf(func, o) \in Queue,
           running' = running \/ (~ Taken(o) /\ ~ Taken(o)'),
           o \in handling' <=> o \in handling,
           o \in setting' <=> o \in setting
    PROVE  Owned(o)' /\ Purposeful(o)' /\ Answered(o)'
<1>1. Taken(o)' <=> Taken(o)
    BY DEF Taken
<1>2. \A func : Doing(func, o)' <=> Doing(func, o)
    BY DEF Doing, Taken, TaskOf
<1>3. (Running("allocRequestData", "allocated") /\ running.task.req = o)'
         <=> Running("allocRequestData", "allocated") /\ running.task.req = o
    BY DEF Running, Taken
<1>4. Owned(o)'
    BY <1>1 DEF Owned, Worked, Live
<1>5. Purposeful(o)'
    BY <1>2, <1>3 DEF Purposeful
<1>6. Answered(o)'
    BY DEF Answered, Live
<1> QED BY <1>4, <1>5, <1>6

\* The threads and the queue keep to the requests that finishActiveRequest() leaves them.
LEMMA FinishKeeps ==
    ASSUME TypeOK, ListOK, ObjectsOK, NEW os \in SUBSET Active,
           NEW result \in Results, NEW received \in BOOLEAN, FinishActive(os, result, received),
           UNCHANGED threads,
           \/ result \in {"NONE", "CANCELLED", "ABORTED"} /\ (~ Aborts => (result = "NONE" <=> received))
           \/ \A o \in os : req[o].state = "ALLOC_FAILED"
    PROVE  FinishEffect(os, result, received) /\ Active' = Active \ os /\ ListOK' /\ ObjectsOK'
<1>1. FinishEffect(os, result, received)
    BY FinishActiveEffect
<1>2. Active' = Active \ os /\ os \subseteq Active
    BY <1>1 DEF FinishEffect, Active, Members
<1>3. Queue' = Queue \cup {TaskOf("finishRequest", o) : o \in {x \in os : ToFinish(x)}}
    BY <1>1 DEF FinishEffect, Queue
<1>4. ListOK'
    BY <1>1 DEF FinishEffect, ListOK
<1>5. ASSUME NEW o \in Obj PROVE Owned(o)' /\ Purposeful(o)' /\ Answered(o)'
    <2>1. Owned(o) /\ Purposeful(o) /\ Answered(o) /\ req[o] \in Request /\ \A x \in os : x \in Active
        BY DEF ObjectsOK, TypeOK
    <2>2. running' = running /\ handling' = handling /\ setting' = setting
        BY DEF threads
    <2>3. CASE o \notin os
        <3>1. req'[o] = req[o] /\ (o \in Active' <=> o \in Active)
            BY <1>1, <1>2, <2>3 DEF FinishEffect
        <3>2. Queued(o)' <=> Queued(o)
            BY <1>3, <2>3 DEF Queued, TaskOf
        <3>3. \A func : TaskOf(func, o) \in Queue' <=> TaskOf(func, o) \in Queue
            BY <1>3, <2>3 DEF TaskOf
        <3> QED BY <2>1, <2>2, <3>1, <3>2, <3>3, Untouched
    <2>4. CASE o \in os
        <3> DEFINE d == Detached([req[o] EXCEPT !.result = result, !.received = received])
        <3>1. req'[o] = d /\ o \in Active /\ o \notin Active' /\ req[o].state # "free"
            BY <1>1, <1>2, <2>1, <2>4 DEF FinishEffect, Owned, Live
        <3>6. Leaves(d, req[o], result, received)
            BY <2>1, <3>1, DetachedIs, Zenon
        <3> HIDE DEF d
        <3>2. Taken(o)' <=> Taken(o)
            BY <2>2 DEF Taken
        <3>3. (Running("allocRequestData", "allocated") /\ running.task.req = o)'
                 <=> Running("allocRequestData", "allocated") /\ running.task.req = o
            BY <2>2 DEF Running
        <3>4. CASE InThread(req[o])
            <4>1. /\ d.state = "DONE" /\ d.data = req[o].data /\ d.result = result /\ d.received = received
                  /\ d.reply = req[o].reply /\ d.handler = req[o].handler
                BY <3>4, <3>6 DEF Leaves
            <4>2. ~ ToFinish(o)
                BY <3>4 DEF ToFinish
            <4>3. Queued(o)' <=> Queued(o)
                BY <1>3, <4>2 DEF Queued, TaskOf
            <4>4. \A func : Doing(func, o)' <=> Doing(func, o)
                BY <1>3, <2>2, <4>2 DEF Doing, TaskOf
            <4>5. Owned(o)'
                BY <2>1, <2>2, <3>1, <3>2, <3>4, <4>1, <4>3 DEF Owned, Worked, Live, InThread
            <4>6. Purposeful(o)'
                BY <2>1, <2>2, <3>1, <3>3, <4>1, <4>4 DEF Purposeful
            <4>7. Answered(o)'
                <5>1. result \in {"NONE", "CANCELLED", "ABORTED"} /\ (~ Aborts => (result = "NONE" <=> received))
                    BY <2>4, <3>4 DEF InThread
                <5> QED BY <3>1, <4>1, <5>1 DEF Answered
            <4> QED BY <4>5, <4>6, <4>7
        <3>5. CASE ~ InThread(req[o])
            <4>1. ~ Worked(o)
                BY <2>1, <3>1, <3>5 DEF Owned
            <4>2. ~ Taken(o)' /\ o \notin handling' /\ o \notin setting'
                BY <2>2, <3>2, <4>1 DEF Worked
            <4>3. \A func : TaskOf(func, o) \notin Queue
                BY <4>1 DEF Worked, Queued, TaskOf
            <4>4. CASE HoldsMemory(req[o])
                <5>1. /\ d.state = req[o].state /\ d.data = (IF req[o].data = "pooled" THEN "none" ELSE req[o].data)
                      /\ d.result = result /\ d.received = received
                      /\ d.reply = req[o].reply /\ d.handler = req[o].handler
                    BY <3>5, <3>6, <4>4 DEF Leaves
                <5>2. TaskOf("finishRequest", o) \in Queue'
                    BY <1>3, <2>4, <3>5, <4>4 DEF ToFinish
                <5>3. Queued(o)'
                    BY <5>2 DEF Queued, TaskOf
                <5>4. \A func : Doing(func, o)' => func = "finishRequest"
                    <6>1. \A func : TaskOf(func, o) \in Queue' => func = "finishRequest"
                        BY <1>3, <4>3 DEF TaskOf
                    <6>2. \A func : ~ (running' # None /\ running'.task = TaskOf(func, o))
                        BY <4>2 DEF Taken, TaskOf
                    <6> QED BY <6>1, <6>2 DEF Doing
                <5>5. Owned(o)'
                    BY <2>1, <3>1, <3>5, <4>2, <5>1, <5>3 DEF Owned, Worked, Live, InThread
                <5>6. Purposeful(o)'
                    BY <3>1, <4>2, <5>4 DEF Purposeful, Taken, Running
                <5>7. Answered(o)'
                    <6>1. req[o].state # "ALLOC_FAILED"
                        BY <2>1, <4>4 DEF Answered, HoldsMemory, WithoutPooledData, Request
                    <6>2. result \in {"NONE", "CANCELLED", "ABORTED"} /\ (~ Aborts => (result = "NONE" <=> received))
                        BY <2>4, <6>1
                    <6> QED BY <3>1, <3>5, <5>1, <6>1, <6>2 DEF Answered, InThread
                <5> QED BY <5>5, <5>6, <5>7
            <4>5. CASE ~ HoldsMemory(req[o])
                <5>1. d = Free
                    BY <3>5, <3>6, <4>5 DEF Leaves
                <5>2. ~ Queued(o)'
                    BY <1>3, <4>1, <4>5 DEF Queued, TaskOf, ToFinish, Worked
                <5>3. \A func : ~ Doing(func, o)'
                    BY <4>2, <5>2 DEF Doing, Queued, Taken, TaskOf
                <5>4. Owned(o)'
                    BY <3>1, <4>2, <5>1, <5>2 DEF Owned, Worked, Live, InThread, Free
                <5>5. Purposeful(o)'
                    BY <3>1, <4>2, <5>1, <5>3 DEF Purposeful, Free, Taken
                <5>6. Answered(o)'
                    BY <3>1, <5>1 DEF Answered, Live, Free
                <5> QED BY <5>4, <5>5, <5>6
            <4> QED BY <4>4, <4>5
        <3> QED BY <3>4, <3>5
    <2> QED BY <2>3, <2>4
<1> QED BY <1>1, <1>2, <1>4, <1>5 DEF ObjectsOK

-----------------------------------------------------------------------------
(* Every step keeps the invariant *)

\* A step that is about one request, or about none, keeps the others.
LEMMA OneObject ==
    ASSUME ObjectsOK, NEW p,
           \A o \in Obj \ {p} : /\ req'[o] = req[o]
                                /\ o \in Active' <=> o \in Active
                                /\ o \in handling' <=> o \in handling
                                /\ o \in setting' <=> o \in setting,
           \A t : t.req # p => (t \in Queue' <=> t \in Queue),
           running' = running \/ (/\ running # None => running.task.req = p
                                  /\ running' # None => running'.task.req = p),
           p \in Obj => Owned(p)' /\ Purposeful(p)' /\ Answered(p)'
    PROVE  ObjectsOK'
<1> SUFFICES ASSUME NEW o \in Obj \ {p} PROVE Owned(o)' /\ Purposeful(o)' /\ Answered(o)'
    BY DEF ObjectsOK
<1>1. Queued(o)' <=> Queued(o)
    BY DEF Queued
<1>2. \A func : TaskOf(func, o) \in Queue' <=> TaskOf(func, o) \in Queue
    BY DEF TaskOf
<1>3. running' = running \/ (~ Taken(o) /\ ~ Taken(o)')
    BY DEF Taken
<1>4. Owned(o) /\ Purposeful(o) /\ Answered(o)
    BY DEF ObjectsOK
<1> QED BY <1>1, <1>2, <1>3, <1>4, Untouched

\* A request is put in front of the list.
LEMMA ListPrepend ==
    ASSUME NEW s \in Seq(Obj), Distinct(s), NEW o \in Obj, o \notin Members(s)
    PROVE  /\ <<o>> \o s \in Seq(Obj) /\ Distinct(<<o>> \o s)
           /\ Members(<<o>> \o s) = Members(s) \cup {o} /\ Len(<<o>> \o s) = Len(s) + 1
<1> DEFINE p == <<o>> \o s
           n == Len(s)
<1>1. n \in Nat /\ DOMAIN s = 1 .. n
    BY LenProperties
<1>2. <<o>> \in Seq(Obj) /\ Len(<<o>>) = 1 /\ <<o>>[1] = o
    OBVIOUS
<1>3. /\ p \in Seq(Obj) /\ Len(p) = 1 + n
      /\ \A i \in 1 .. 1 + n : p[i] = IF i <= 1 THEN <<o>>[i] ELSE s[i - 1]
    BY <1>2, ConcatProperties
<1> HIDE DEF p, n
<1>4. DOMAIN p = 1 .. n + 1 /\ Len(p) = n + 1
    BY <1>1, <1>3, LenProperties
<1>5. p[1] = o /\ \A i \in 1 .. n : i + 1 \in 1 .. n + 1 /\ p[i + 1] = s[i]
    <2>1. p[1] = o
        BY <1>1, <1>2, <1>3
    <2>2. ASSUME NEW i \in 1 .. n PROVE i + 1 \in 1 .. n + 1 /\ p[i + 1] = s[i]
        <3>1. i + 1 \in 1 .. 1 + n /\ ~ (i + 1 <= 1) /\ (i + 1) - 1 = i /\ i + 1 \in 1 .. n + 1
            BY <1>1
        <3> QED BY <1>3, <3>1
    <2> QED BY <2>1, <2>2
<1>6. 1 \in 1 .. n + 1 /\ \A i \in 1 .. n + 1 : i = 1 \/ \E j \in 1 .. n : i = j + 1
    <2>1. ASSUME NEW i \in 1 .. n + 1, i # 1 PROVE \E j \in 1 .. n : i = j + 1
        <3>1. i - 1 \in 1 .. n /\ i = (i - 1) + 1
            BY <1>1, <2>1
        <3> QED BY <3>1
    <2> QED BY <1>1, <2>1
<1>7. Members(p) = Members(s) \cup {o}
    <2>1. ASSUME NEW x \in Members(p) PROVE x \in Members(s) \/ x = o
        <3>1. PICK i \in 1 .. n + 1 : x = p[i]
            BY <1>4 DEF Members
        <3>2. CASE \E j \in 1 .. n : i = j + 1
            BY <1>1, <1>5, <3>1, <3>2 DEF Members
        <3> QED BY <1>5, <1>6, <3>1, <3>2
    <2>2. ASSUME NEW x \in Members(s) PROVE x \in Members(p)
        BY <1>1, <1>4, <1>5 DEF Members
    <2>3. o \in Members(p)
        BY <1>4, <1>5, <1>6 DEF Members
    <2> QED BY <2>1, <2>2, <2>3
<1>8. Distinct(p)
    <2> SUFFICES ASSUME NEW i \in 1 .. n + 1, NEW j \in 1 .. n + 1, p[i] = p[j] PROVE i = j
        BY <1>4 DEF Distinct
    <2>1. \A k \in 1 .. n : s[k] # o
        BY <1>1 DEF Members
    <2>2. CASE i = 1 \/ j = 1
        BY <1>5, <1>6, <2>1, <2>2
    <2>3. CASE i # 1 /\ j # 1
        <3>1. PICK k \in 1 .. n : i = k + 1
            BY <1>6, <2>3
        <3>2. PICK m \in 1 .. n : j = m + 1
            BY <1>6, <2>3
        <3>3. s[k] = s[m]
            BY <1>5, <3>1, <3>2
        <3>4. k = m
            BY <1>1, <3>3 DEF Distinct
        <3> QED BY <3>1, <3>2, <3>4
    <2> QED BY <2>2, <2>3
<1> QED BY <1>3, <1>4, <1>7, <1>8 DEF p, n

\* The members of the list and of the queue, before and after a step.
LEMMA SameMembers ==
    /\ Active = Members(active) /\ Active' = Members(active')
    /\ active' = active => Active' = Active
    /\ tasks' = tasks => Queue' = Queue
BY DEF Active, Queue, Members

\* Nothing but the transfer and the current request changes.
LEMMA TransferOnly ==
    ASSUME ChannelInv, UNCHANGED <<req, active, count, tasks, threads>>,
           curReq' \in Obj \cup {None}, transfer' \in Transfer \cup {None}, TransferOK'
    PROVE  ChannelInv'
<1>1. TypeOK'
    BY DEF ChannelInv, TypeOK, threads
<1>2. ListOK'
    BY DEF ChannelInv, ListOK, Distinct, Once
<1>3. Active' = Active /\ Queue' = Queue
    BY SameMembers
<1>4. ObjectsOK'
    <2>1. \A o \in Obj : /\ req'[o] = req[o]
                         /\ o \in Active' <=> o \in Active
                         /\ o \in handling' <=> o \in handling
                         /\ o \in setting' <=> o \in setting
        BY <1>3 DEF threads
    <2>2. None \notin Obj
        BY NoneAssumption DEF NoneAssumption
    <2>3. running' = running
        BY DEF threads
    <2> QED BY <1>3, <2>1, <2>2, <2>3, OneObject DEF ChannelInv
<1> QED BY <1>1, <1>2, <1>4 DEF ChannelInv

\* No task of a request that is in other hands.
LEMMA NotQueued ==
    ASSUME NEW o, ~ Queued(o)
    PROVE  \A func : TaskOf(func, o) \notin Queue
BY DEF Queued, TaskOf

\* What a request at hand is like: nobody else holds it, and it is live.
LEMMA AtHand ==
    ASSUME ChannelInv, NEW o \in Obj, Taken(o) \/ o \in handling \/ o \in setting
    PROVE  /\ ~ Queued(o) /\ Live(o) /\ (o \in Active => InThread(req[o]))
           /\ Taken(o) => o \notin handling \cup setting
           /\ o \in handling => ~ Taken(o) /\ o \notin setting
           /\ o \in setting => ~ Taken(o) /\ o \notin handling
           /\ Owned(o) /\ Purposeful(o) /\ Answered(o) /\ req[o] \in Request
<1>1. Owned(o) /\ Purposeful(o) /\ Answered(o) /\ req[o] \in Request
    BY DEF ChannelInv, ObjectsOK, TypeOK
<1> QED BY <1>1 DEF Owned, Worked

LEMMA TakeTaskKeeps ==
    ASSUME ChannelInv, TakeTask
    PROVE  ChannelInv'
<1>t. PICK t : t = Head(tasks)
    OBVIOUS
<1> DEFINE p == t.req
<1>1. /\ tasks \in Seq(Task) /\ Once(tasks) /\ tasks # <<>>
      /\ running = None /\ tasks' = Tail(tasks) /\ running' = [step |-> "taken", task |-> t]
      /\ UNCHANGED <<interrupt, req, handling, setting>>
    BY <1>t DEF ChannelInv, TypeOK, ListOK, TakeTask
<1>2. t \in Queue /\ t \in Task /\ tasks' \in Seq(Task) /\ Queue' = Queue \ {t} /\ Once(tasks')
    BY <1>t, <1>1, QueueTail, HeadTailProperties DEF Queue
<1>3. \A u \in Queue : u.req = p => u = t
    BY <1>2 DEF Queue, Members, Once, ChannelInv, ListOK
<1>4. p \in Obj /\ t = TaskOf(t.func, p) /\ \A func : TaskOf(func, p).req = p /\ TaskOf(func, p).func = func
    BY <1>2 DEF Task, TaskOf
<1>5. Active' = Active
    BY <1>1, SameMembers DEF interrupt
<1>6. TypeOK'
    BY <1>1, <1>2 DEF ChannelInv, TypeOK, Job, interrupt
<1>7. ListOK'
    BY <1>1, <1>2 DEF ChannelInv, ListOK, interrupt, Distinct
<1>8. Owned(p)' /\ Purposeful(p)' /\ Answered(p)'
    <2>1. Owned(p) /\ Purposeful(p) /\ Answered(p) /\ Queued(p)
        BY <1>2, <1>4 DEF ChannelInv, ObjectsOK, Queued
    <2>2. ~ Queued(p)' /\ Taken(p)'
        <3>1. ~ Queued(p)'
            BY <1>2, <1>3 DEF Queued
        <3>2. running' # None /\ running'.task.req = p
            BY <1>1, <1>2, NoneAssumption DEF NoneAssumption, Job
        <3> QED BY <3>1, <3>2 DEF Taken
    <2>3. \A func : Doing(func, p)' => Doing(func, p)
        BY <1>1, <1>2, <1>4 DEF Doing
    <2>4. ~ Running("allocRequestData", "allocated")'
        BY <1>1 DEF Running
    <2>5. Owned(p)'
        BY <1>1, <1>5, <2>1, <2>2 DEF Owned, Worked, Live, interrupt
    <2>6. Purposeful(p)'
        BY <1>1, <1>5, <2>1, <2>3, <2>4 DEF Purposeful
    <2>7. Answered(p)'
        BY <1>1, <1>5, <2>1 DEF Answered, Live
    <2> QED BY <2>5, <2>6, <2>7
<1>9. ObjectsOK'
    <2>1. \A u : u.req # p => (u \in Queue' <=> u \in Queue)
        BY <1>2
    <2>2. running # None => running.task.req = p
        BY <1>1
    <2>3. running'.task.req = p
        BY <1>1
    <2>4. \A o \in Obj \ {p} : /\ req'[o] = req[o]
                               /\ o \in Active' <=> o \in Active
                               /\ o \in handling' <=> o \in handling
                               /\ o \in setting' <=> o \in setting
        BY <1>1, <1>5
    <2> HIDE DEF p
    <2> QED BY <1>8, <2>1, <2>2, <2>3, <2>4, OneObject DEF ChannelInv
<1>10. TransferOK'
    BY <1>1, <1>5 DEF ChannelInv, TransferOK, InProgress, interrupt
<1> QED BY <1>6, <1>7, <1>9, <1>10 DEF ChannelInv

\* A thread works on a request that it holds: what is to be shown is about this one.
LEMMA WorkerStep ==
    ASSUME ChannelInv, NEW p \in Obj, NEW r \in Request,
           UNCHANGED <<interrupt, tasks>>,
           req' = [req EXCEPT ![p] = r],
           \/ running' = running
           \/ Taken(p) /\ (running' = None \/ (running' \in Job /\ running'.task = running.task)),
           handling' \subseteq Obj, handling' \ {p} = handling \ {p},
           setting' \subseteq Obj, setting' \ {p} = setting \ {p},
           Owned(p)', Purposeful(p)', Answered(p)'
    PROVE  ChannelInv'
<1>1. req \in [Obj -> Request] /\ running \in Job \cup {None}
    BY DEF ChannelInv, TypeOK
<1>2. Active' = Active /\ Queue' = Queue
    BY SameMembers DEF interrupt
<1>3. TypeOK'
    BY <1>1 DEF ChannelInv, TypeOK, interrupt
<1>4. ListOK'
    BY DEF ChannelInv, ListOK, interrupt, Distinct, Once
<1>5. ObjectsOK'
    <2>1. \A o \in Obj \ {p} : /\ req'[o] = req[o]
                               /\ o \in Active' <=> o \in Active
                               /\ o \in handling' <=> o \in handling
                               /\ o \in setting' <=> o \in setting
        BY <1>1, <1>2
    <2>2. running' = running \/ (/\ running # None => running.task.req = p
                                 /\ running' # None => running'.task.req = p)
        BY DEF Taken
    <2> QED BY <1>2, <2>1, <2>2, OneObject DEF ChannelInv
<1>6. TransferOK'
    BY <1>2 DEF ChannelInv, TransferOK, InProgress, interrupt
<1> QED BY <1>3, <1>4, <1>5, <1>6 DEF ChannelInv

LEMMA RunningTask ==
    ASSUME ChannelInv, NEW func \in {"allocRequestData", "invokeRequestHandler", "finishRequest"}, NEW step,
           Running(func, step)
    PROVE  \E p \in Obj : /\ p = running.task.req /\ running.task = TaskOf(func, p) /\ Taken(p)
                          /\ Doing(func, p) /\ running \in Job
<1>1. running \in Job /\ running.task.func = func /\ running # None
    BY DEF ChannelInv, TypeOK, Running
<1>2. running.task.req \in Obj /\ running.task = TaskOf(func, running.task.req)
    BY <1>1 DEF Job, Task, TaskOf
<1> QED BY <1>1, <1>2 DEF Taken, Doing

LEMMA InvokeKeeps ==
    ASSUME ChannelInv, InvokeRequestHandler
    PROVE  ChannelInv'
<1>1. PICK p \in Obj : /\ p = running.task.req /\ running.task = TaskOf("invokeRequestHandler", p)
                       /\ Taken(p) /\ Doing("invokeRequestHandler", p)
    BY RunningTask DEF InvokeRequestHandler
<1>2. /\ ~ Queued(p) /\ Live(p) /\ (p \in Active => InThread(req[p]))
      /\ p \notin handling \cup setting
      /\ Owned(p) /\ Purposeful(p) /\ Answered(p) /\ req[p] \in Request
    BY <1>1, AtHand
<1>3. /\ handling' = handling \cup {p} /\ running' = None /\ setting' = setting /\ req' = req
      /\ UNCHANGED <<interrupt, tasks>>
    BY <1>1 DEF InvokeRequestHandler
<1>4. Active' = Active /\ Queue' = Queue
    BY <1>3, SameMembers DEF interrupt
<1>5. ~ Queued(p)' /\ ~ Taken(p)' /\ \A func : ~ Doing(func, p)'
    BY <1>2, <1>3, <1>4, NotQueued DEF Queued, Taken, Doing
<1>6. Owned(p)'
    BY <1>2, <1>3, <1>4, <1>5 DEF Owned, Worked, Live
<1>7. Purposeful(p)'
    BY <1>1, <1>2, <1>3, <1>5 DEF Purposeful, Taken, Running
<1>8. Answered(p)'
    BY <1>2, <1>3, <1>4 DEF Answered, Live
<1>9. req' = [req EXCEPT ![p] = req[p]]
    BY <1>3 DEF ChannelInv, TypeOK
<1>10. handling' \subseteq Obj /\ setting' \subseteq Obj
    BY <1>3 DEF ChannelInv, TypeOK
<1> QED BY <1>1, <1>2, <1>3, <1>6, <1>7, <1>8, <1>9, <1>10, WorkerStep

LEMMA AllocRequestDataKeeps ==
    ASSUME ChannelInv, AllocRequestData
    PROVE  ChannelInv'
<1>1. PICK p \in Obj : /\ p = running.task.req /\ running.task = TaskOf("allocRequestData", p)
                       /\ Taken(p) /\ Doing("allocRequestData", p) /\ running \in Job
    BY RunningTask DEF AllocRequestData
<1>2. /\ ~ Queued(p) /\ Live(p) /\ (p \in Active => InThread(req[p]))
      /\ p \notin handling \cup setting
      /\ Owned(p) /\ Purposeful(p) /\ Answered(p) /\ req[p] \in Request
    BY <1>1, AtHand
<1>3. PICK data \in {"none", "heap"} : req' = [req EXCEPT ![p].data = data]
    BY <1>1 DEF AllocRequestData
<1>4. /\ running' = [running EXCEPT !.step = "allocated"] /\ UNCHANGED <<interrupt, tasks, handling, setting>>
    BY DEF AllocRequestData
<1> DEFINE r == [req[p] EXCEPT !.data = data]
<1>5. /\ r \in Request /\ req' = [req EXCEPT ![p] = r] /\ req'[p] = r /\ r.data = data
      /\ r.state = req[p].state /\ r.reply = req[p].reply /\ r.handler = req[p].handler
      /\ r.result = req[p].result /\ r.received = req[p].received
    BY <1>2, <1>3 DEF Request, ChannelInv, TypeOK
<1> HIDE DEF r
<1>6. running' \in Job /\ running'.task = running.task /\ running' # None
    BY <1>1, <1>4, NoneAssumption DEF Job, NoneAssumption
<1>7. Active' = Active /\ Queue' = Queue
    BY <1>4, SameMembers DEF interrupt
<1>8. ~ Queued(p)' /\ Taken(p)' /\ \A func : Doing(func, p)' <=> Doing(func, p)
    BY <1>1, <1>2, <1>6, <1>7 DEF Queued, Taken, Doing
<1>9. Owned(p)'
    BY <1>1, <1>2, <1>4, <1>5, <1>7, <1>8 DEF Owned, Worked, Live, InThread
<1>10. Purposeful(p)'
    BY <1>2, <1>4, <1>5, <1>7, <1>8 DEF Purposeful
<1>11. Answered(p)'
    BY <1>1, <1>2, <1>5, <1>7 DEF Answered, Live, Purposeful
<1>12. handling' \subseteq Obj /\ setting' \subseteq Obj /\ handling' = handling /\ setting' = setting
    BY <1>4 DEF ChannelInv, TypeOK
<1> QED BY <1>1, <1>4, <1>5, <1>6, <1>9, <1>10, <1>11, <1>12, WorkerStep

\* The request is returned to the pool by the one who holds it.
LEMMA FinishKeepsInv ==
    ASSUME ChannelInv, NEW p \in Obj, p \notin Active, Finish(p),
           UNCHANGED <<interrupt, tasks>>,
           \/ Taken(p) /\ running' = None /\ UNCHANGED <<handling, setting>>
           \/ p \in setting /\ setting' = setting \ {p} /\ UNCHANGED <<running, handling>>
    PROVE  ChannelInv'
<1>1. ~ Queued(p) /\ Owned(p)
    BY AtHand
<1>2. Free \in Request /\ req' = [req EXCEPT ![p] = Free] /\ req'[p] = Free
    BY DEF Finish, Free, Request, Results, ChannelInv, TypeOK
<1>3. Active' = Active /\ Queue' = Queue
    BY SameMembers DEF interrupt
<1>4. ~ Queued(p)' /\ ~ Taken(p)' /\ p \notin handling' /\ p \notin setting'
    BY <1>1, <1>3 DEF Queued, Taken, Owned
<1>5. \A func : ~ Doing(func, p)'
    BY <1>1, <1>3, <1>4, NotQueued DEF Doing, Taken, TaskOf
<1>6. Owned(p)'
    BY <1>2, <1>3, <1>4 DEF Owned, Worked, Live, InThread, Free
<1>7. Purposeful(p)'
    BY <1>2, <1>3, <1>4, <1>5 DEF Purposeful, Taken, Running, Free
<1>8. Answered(p)'
    BY <1>2, <1>3 DEF Answered, Live, Free
<1>9. handling' \subseteq Obj /\ setting' \subseteq Obj /\ handling' = handling /\ setting' \ {p} = setting \ {p}
    BY DEF ChannelInv, TypeOK
<1>10. running' = running \/ (Taken(p) /\ running' = None)
    OBVIOUS
<1> QED BY <1>2, <1>6, <1>7, <1>8, <1>9, <1>10, WorkerStep

LEMMA FinishRequestKeeps ==
    ASSUME ChannelInv, FinishRequest
    PROVE  ChannelInv'
<1>1. PICK p \in Obj : p = running.task.req /\ Taken(p) /\ Doing("finishRequest", p)
    BY RunningTask DEF FinishRequest
<1>2. p \notin Active
    BY <1>1, AtHand DEF Purposeful
<1>3. Finish(p) /\ running' = None /\ UNCHANGED <<interrupt, tasks, handling, setting>>
    BY <1>1 DEF FinishRequest
<1> QED BY <1>1, <1>2, <1>3, FinishKeepsInv

LEMMA ConcludeAllocKeeps ==
    ASSUME ChannelInv, ConcludeAlloc
    PROVE  ChannelInv'
<1>1. PICK p \in Obj : /\ p = running.task.req /\ running.task = TaskOf("allocRequestData", p)
                       /\ Taken(p) /\ Doing("allocRequestData", p) /\ running \in Job
    BY RunningTask DEF ConcludeAlloc
<1>2. /\ ~ Queued(p) /\ Live(p) /\ (p \in Active => InThread(req[p]))
      /\ p \notin handling \cup setting
      /\ Owned(p) /\ Purposeful(p) /\ Answered(p) /\ req[p] \in Request
    BY <1>1, AtHand
<1>3. /\ running' = None /\ UNCHANGED <<interrupt, tasks, handling, setting>>
      /\ req' = [req EXCEPT ![p] =
             IF req[p].state # "ALLOC_PENDING" THEN Free
             ELSE [req[p] EXCEPT !.state = IF req[p].data = "heap" THEN "RECV_PAYLOAD" ELSE "ALLOC_FAILED"]]
    BY <1>1 DEF ConcludeAlloc
<1>4. CASE req[p].state # "ALLOC_PENDING"
    <2>1. Finish(p)
        BY <1>3, <1>4 DEF Finish
    <2>2. p \notin Active
        BY <1>1, <1>2, <1>4 DEF Purposeful, InThread
    <2> QED BY <1>1, <1>3, <2>1, <2>2, FinishKeepsInv
<1>5. CASE req[p].state = "ALLOC_PENDING"
    <2> DEFINE state == IF req[p].data = "heap" THEN "RECV_PAYLOAD" ELSE "ALLOC_FAILED"
               r == [req[p] EXCEPT !.state = state]
    <2>1. /\ r \in Request /\ req' = [req EXCEPT ![p] = r] /\ req'[p] = r
          /\ r.state = state /\ r.data = req[p].data /\ r.reply = req[p].reply /\ r.handler = req[p].handler
          /\ r.result = req[p].result /\ r.received = req[p].received
        BY <1>2, <1>3, <1>5 DEF Request, ChannelInv, TypeOK
    <2> HIDE DEF r
    <2>2. p \in Active /\ req[p].data \in {"none", "heap"}
        BY <1>1, <1>2, <1>5 DEF Owned, InThread, Purposeful, ConcludeAlloc
    <2>3. Active' = Active /\ Queue' = Queue
        BY <1>3, SameMembers DEF interrupt
    <2>4. ~ Queued(p)' /\ ~ Taken(p)' /\ \A func : ~ Doing(func, p)'
        BY <1>2, <1>3, <2>3, NotQueued DEF Queued, Taken, Doing
    <2>5. Owned(p)'
        BY <1>2, <1>3, <2>1, <2>2, <2>3, <2>4 DEF Owned, Worked, Live, InThread
    <2>6. Purposeful(p)'
        BY <1>2, <1>3, <2>4 DEF Purposeful, Taken, Running
    <2>7. Answered(p)'
        BY <1>2, <1>5, <2>1, <2>2, <2>3 DEF Answered, Live
    <2>8. handling' \subseteq Obj /\ setting' \subseteq Obj /\ handling' = handling /\ setting' = setting
        BY <1>3 DEF ChannelInv, TypeOK
    <2> QED BY <1>1, <1>3, <2>1, <2>5, <2>6, <2>7, <2>8, WorkerStep
<1> QED BY <1>4, <1>5

LEMMA AllocReplyDataKeeps ==
    ASSUME ChannelInv, NEW p \in Obj, AllocReplyData(p) \/ FreeRequestData(p)
    PROVE  ChannelInv'
<1>1. /\ p \in handling /\ ~ Queued(p) /\ Live(p) /\ (p \in Active => InThread(req[p]))
      /\ ~ Taken(p) /\ p \notin setting
      /\ Owned(p) /\ Purposeful(p) /\ Answered(p) /\ req[p] \in Request
    BY AtHand DEF AllocReplyData, FreeRequestData
<1>2. UNCHANGED <<interrupt, tasks, running, handling, setting>>
    BY DEF AllocReplyData, FreeRequestData, threads
<1>3. PICK r \in Request : /\ req' = [req EXCEPT ![p] = r]
                           /\ r.state = req[p].state /\ r.handler = req[p].handler
                           /\ r.result = req[p].result /\ r.received = req[p].received
    <2>1. CASE AllocReplyData(p)
        <3>1. PICK reply \in BOOLEAN : req' = [req EXCEPT ![p].reply = reply]
            BY <2>1 DEF AllocReplyData
        <3>2. /\ [req[p] EXCEPT !.reply = reply] \in Request
              /\ req' = [req EXCEPT ![p] = [req[p] EXCEPT !.reply = reply]]
            BY <1>1, <3>1 DEF Request
        <3> QED BY <1>1, <3>2 DEF Request
    <2>2. CASE FreeRequestData(p)
        <3>1. req' = [req EXCEPT ![p].data = "none"]
            BY <2>2 DEF FreeRequestData
        <3>2. /\ [req[p] EXCEPT !.data = "none"] \in Request
              /\ req' = [req EXCEPT ![p] = [req[p] EXCEPT !.data = "none"]]
            BY <1>1, <3>1 DEF Request
        <3> QED BY <1>1, <3>2 DEF Request
    <2> QED BY <2>1, <2>2
<1>4. req'[p] = r
    BY <1>3 DEF ChannelInv, TypeOK
<1>5. Active' = Active /\ Queue' = Queue
    BY <1>2, SameMembers DEF interrupt
<1>6. ~ Queued(p)' /\ ~ Taken(p)' /\ \A func : ~ Doing(func, p)'
    BY <1>1, <1>2, <1>5, NotQueued DEF Queued, Taken, Doing, TaskOf
<1>7. Owned(p)'
    BY <1>1, <1>2, <1>3, <1>4, <1>5, <1>6 DEF Owned, Worked, Live, InThread
<1>8. Purposeful(p)'
    BY <1>1, <1>2, <1>3, <1>4, <1>6 DEF Purposeful, Taken, Running
<1>9. Answered(p)'
    BY <1>1, <1>3, <1>4, <1>5 DEF Answered, Live, Purposeful
<1>10. handling' \subseteq Obj /\ setting' \subseteq Obj /\ handling' = handling /\ setting' = setting
    BY <1>2 DEF ChannelInv, TypeOK
<1> QED BY <1>2, <1>3, <1>7, <1>8, <1>9, <1>10, WorkerStep

LEMMA SetResultKeeps ==
    ASSUME ChannelInv, NEW p \in Obj, SetResult(p)
    PROVE  ChannelInv'
<1>1. /\ p \in handling /\ ~ Queued(p) /\ Live(p) /\ (p \in Active => InThread(req[p]))
      /\ ~ Taken(p) /\ p \notin setting
      /\ Owned(p) /\ Purposeful(p) /\ Answered(p) /\ req[p] \in Request
    BY AtHand DEF SetResult
<1>2. UNCHANGED <<interrupt, tasks, running>> /\ handling' = handling \ {p} /\ setting' = setting \cup {p}
    BY DEF SetResult
<1>3. PICK handler \in BOOLEAN : req' = [req EXCEPT ![p].data = "none", ![p].handler = handler]
    BY DEF SetResult
<1> DEFINE r == [req[p] EXCEPT !.data = "none", !.handler = handler]
<1>4. /\ r \in Request /\ req' = [req EXCEPT ![p] = r] /\ req'[p] = r
      /\ r.state = req[p].state /\ r.result = req[p].result /\ r.received = req[p].received
    BY <1>1, <1>3 DEF Request, ChannelInv, TypeOK
<1> HIDE DEF r
<1>5. Active' = Active /\ Queue' = Queue
    BY <1>2, SameMembers DEF interrupt
<1>6. ~ Queued(p)' /\ ~ Taken(p)' /\ \A func : ~ Doing(func, p)'
    BY <1>1, <1>2, <1>5, NotQueued DEF Queued, Taken, Doing, TaskOf
<1>7. Owned(p)'
    BY <1>1, <1>2, <1>4, <1>5, <1>6 DEF Owned, Worked, Live, InThread
<1>8. Purposeful(p)'
    BY <1>1, <1>2, <1>4, <1>6 DEF Purposeful, Taken, Running
<1>9. Answered(p)'
    BY <1>1, <1>4, <1>5 DEF Answered, Live, Purposeful
<1>10. handling' \subseteq Obj /\ setting' \subseteq Obj /\ handling' \ {p} = handling \ {p} /\ setting' \ {p} = setting \ {p}
    BY <1>2 DEF ChannelInv, TypeOK
<1> QED BY <1>2, <1>4, <1>7, <1>8, <1>9, <1>10, WorkerStep

LEMMA ConcludeResultKeeps ==
    ASSUME ChannelInv, NEW p \in Obj, ConcludeResult(p)
    PROVE  ChannelInv'
<1>1. /\ p \in setting /\ ~ Queued(p) /\ Live(p) /\ (p \in Active => InThread(req[p]))
      /\ ~ Taken(p) /\ p \notin handling
      /\ Owned(p) /\ Purposeful(p) /\ Answered(p) /\ req[p] \in Request
    BY AtHand DEF ConcludeResult
<1>2. UNCHANGED <<interrupt, tasks, running, handling>> /\ setting' = setting \ {p}
    BY DEF ConcludeResult
<1>3. CASE req[p].state # "PENDING"
    <2>1. Finish(p)
        BY <1>3 DEF ConcludeResult
    <2>2. p \notin Active
        BY <1>1, <1>3 DEF Purposeful, InThread
    <2> QED BY <1>1, <1>2, <2>1, <2>2, FinishKeepsInv
<1>4. CASE req[p].state = "PENDING"
    <2> DEFINE r == [req[p] EXCEPT !.result = "HANDLED", !.state = "DONE"]
    <2>1. /\ r \in Request /\ req' = [req EXCEPT ![p] = r] /\ req'[p] = r
          /\ r.state = "DONE" /\ r.result = "HANDLED" /\ r.received = req[p].received
        BY <1>1, <1>4 DEF ConcludeResult, Request, Results, ChannelInv, TypeOK
    <2> HIDE DEF r
    <2>2. p \in Active
        BY <1>1, <1>4 DEF Owned, InThread
    <2>3. Active' = Active /\ Queue' = Queue
        BY <1>2, SameMembers DEF interrupt
    <2>4. ~ Queued(p)' /\ ~ Taken(p)' /\ \A func : ~ Doing(func, p)'
        BY <1>1, <1>2, <2>3, NotQueued DEF Queued, Taken, Doing, TaskOf
    <2>5. Owned(p)'
        BY <1>1, <1>2, <2>1, <2>2, <2>3, <2>4 DEF Owned, Worked, Live, InThread
    <2>6. Purposeful(p)'
        BY <1>1, <1>2, <2>1, <2>4 DEF Purposeful, Taken, Running
    <2>7. Answered(p)'
        BY <1>1, <2>1, <2>2, <2>3 DEF Answered, Live
    <2>8. handling' \subseteq Obj /\ setting' \subseteq Obj /\ handling' = handling /\ setting' \ {p} = setting \ {p}
        BY <1>2 DEF ChannelInv, TypeOK
    <2> QED BY <1>2, <2>1, <2>5, <2>6, <2>7, <2>8, WorkerStep
<1> QED BY <1>3, <1>4

\* The host cancels or completes requests: the transfer is what remains to be shown.
LEMMA FinishActiveKeeps ==
    ASSUME ChannelInv, NEW os \in SUBSET Active,
           NEW result \in Results, NEW received \in BOOLEAN, FinishActive(os, result, received),
           UNCHANGED threads,
           \/ result \in {"NONE", "CANCELLED", "ABORTED"} /\ (~ Aborts => (result = "NONE" <=> received))
           \/ \A o \in os : req[o].state = "ALLOC_FAILED",
           curReq' \in Obj \cup {None}, transfer' \in Transfer \cup {None}, TransferOK'
    PROVE  ChannelInv'
<1>1. FinishEffect(os, result, received) /\ ListOK' /\ ObjectsOK'
    BY FinishKeeps DEF ChannelInv
<1>2. TypeOK'
    BY <1>1 DEF FinishEffect, ChannelInv, TypeOK, threads
<1> QED BY <1>1, <1>2 DEF ChannelInv

\* The transfer that a host begins with a reply of the interrupt.
LEMMA ReplyOK ==
    ASSUME ChannelInv, Setup, NEW o \in Obj \cup {None}, o \in Active' \cup {None}, Reply(o),
           \/ UNCHANGED curReq
           \/ o # None /\ curReq' = o
    PROVE  TransferOK' /\ transfer' \in Transfer
<1>1. ~ Aborts => curReq = None
    BY DEF Setup, ChannelInv, TransferOK
<1>2. transfer' = [kind |-> "in", req |-> o, timedOut |-> FALSE]
    BY DEF Reply
<1>3. transfer' \in Transfer
    BY <1>2 DEF Transfer
<1>4. InProgress' => transfer'.req \in Active' \cup {None}
    BY <1>2
<1>5. ~ Aborts /\ curReq' # None => InProgress' /\ transfer'.kind = "in" /\ transfer'.req = curReq'
    <2>1. ASSUME ~ Aborts, curReq' # None PROVE curReq' = o /\ o # None
        BY <1>1, <2>1
    <2> QED BY <1>2, <1>3, <2>1, NoneAssumption DEF NoneAssumption, InProgress
<1> QED BY <1>4, <1>5, <1>3 DEF TransferOK

LEMMA InitRequestKeeps ==
    ASSUME ChannelInv, InitRequest
    PROVE  ChannelInv'
<1>1. Setup /\ Reply(None) /\ UNCHANGED <<curReq, threads>>
    BY DEF InitRequest
<1>2. TransferOK' /\ transfer' \in Transfer
    BY <1>1, ReplyOK
<1>3. curReq' \in Obj \cup {None}
    BY <1>1 DEF ChannelInv, TypeOK
<1>4. CASE UNCHANGED <<req, active, count, tasks>>
    BY <1>1, <1>2, <1>3, <1>4, TransferOnly
<1>5. CASE ~ UNCHANGED <<req, active, count, tasks>>
    <2>1. ~ (count >= MaxActive) /\ ~ \A o \in Obj : Live(o)
        BY <1>5 DEF InitRequest
    <2>2. PICK o \in {x \in Obj : ~ Live(x)}, payload \in {"none", "small", "large"}, pooled \in BOOLEAN :
              /\ pooled => payload = "small"
              /\ req' = [req EXCEPT ![o] = NewRequest(o, payload, pooled)]
              /\ active' = <<o>> \o active
              /\ count' = count + 1
              /\ tasks' = CASE payload = "none" -> Append(tasks, TaskOf("invokeRequestHandler", o))
                            [] pooled           -> tasks
                            [] OTHER            -> Append(tasks, TaskOf("allocRequestData", o))
        BY <2>1 DEF InitRequest
    <2> DEFINE r == NewRequest(o, payload, pooled)
    <2>3. /\ r \in Request /\ r.state \in {"PENDING", "RECV_PAYLOAD", "ALLOC_PENDING"}
          /\ r.result = "UNKNOWN" /\ ~ r.received /\ ~ r.reply /\ ~ r.handler
          /\ r.state = "PENDING" <=> payload = "none"
          /\ r.state = "RECV_PAYLOAD" <=> pooled
        BY <2>2 DEF NewRequest, Free, Request, Results
    <2>4. req'[o] = r /\ req' \in [Obj -> Request]
        BY <2>2, <2>3 DEF ChannelInv, TypeOK
    <2>5. Owned(o) /\ ~ Live(o) /\ o \notin Active /\ ~ Worked(o)
        BY <2>2 DEF ChannelInv, ObjectsOK, Owned
    <2> HIDE DEF r
    <2>6. /\ active \in Seq(Obj) /\ Distinct(active) /\ count = Len(active) /\ count \in 0 .. MaxActive
          /\ tasks \in Seq(Task) /\ Once(tasks)
        BY DEF ChannelInv, TypeOK, ListOK
    <2>7. /\ active' \in Seq(Obj) /\ Distinct(active') /\ Members(active') = Active \cup {o}
          /\ Len(active') = Len(active) + 1
        BY <2>2, <2>5, <2>6, ListPrepend, SameMembers
    <2>8. count' = Len(active') /\ count' \in 0 .. MaxActive
        BY <2>1, <2>2, <2>6, <2>7, ChannelAssumption DEF ChannelAssumption
    <2>9. Active' = Active \cup {o}
        BY <2>7, SameMembers
    <2> DEFINE func == IF payload = "none" THEN "invokeRequestHandler" ELSE "allocRequestData"
    <2>10. IF pooled THEN tasks' = tasks ELSE tasks' = Append(tasks, TaskOf(func, o))
        BY <2>2
    <2>11. TaskOf(func, o) \in Task /\ \A f : TaskOf(f, o).req = o /\ TaskOf(f, o).func = f
        BY <2>2 DEF TaskOf, Task
    <2>12. \A u \in Members(tasks) : u.req # o
        BY <2>5 DEF Worked, Queued, Queue
    <2>13. /\ tasks' \in Seq(Task) /\ Once(tasks')
           /\ Queue' = IF pooled THEN Queue ELSE Queue \cup {TaskOf(func, o)}
        <3> HIDE DEF func
        <3>1. CASE pooled
            BY <2>6, <2>10, <3>1, SameMembers
        <3>2. CASE ~ pooled
            BY <2>6, <2>10, <2>11, <2>12, <3>2, QueueAppend DEF Queue
        <3> QED BY <3>1, <3>2
    <2>14. TypeOK' /\ ListOK'
        BY <1>1, <1>2, <1>3, <2>4, <2>7, <2>8, <2>13 DEF TypeOK, ListOK, ChannelInv, threads
    <2>15. running' = running /\ handling' = handling /\ setting' = setting
        BY <1>1 DEF threads
    <2>16. ~ Taken(o)' /\ o \notin handling' /\ o \notin setting' /\ ~ Queued(o)
        BY <2>5, <2>15 DEF Worked, Taken
    <2>17. Queued(o)' <=> ~ pooled
        BY <2>11, <2>13, <2>16 DEF Queued
    <2>18. \A f : Doing(f, o)' => ~ pooled /\ f = func
        <3>1. \A f : TaskOf(f, o) \in Queue' => ~ pooled /\ f = func
            <4>1. \A f : TaskOf(f, o) \notin Queue
                BY <2>16, NotQueued
            <4> QED BY <2>11, <2>13, <4>1
        <3>2. \A f : ~ (running' # None /\ running'.task = TaskOf(f, o))
            BY <2>11, <2>16 DEF Taken
        <3> QED BY <3>1, <3>2 DEF Doing
    <2>19. Owned(o)'
        BY <2>3, <2>4, <2>9, <2>16, <2>17 DEF Owned, Worked, Live, InThread
    <2>20. Purposeful(o)'
        BY <2>2, <2>3, <2>4, <2>16, <2>18 DEF Purposeful, Taken, Running
    <2>21. Answered(o)'
        BY <2>3, <2>4, <2>9 DEF Answered
    <2>22. ObjectsOK'
        <3>1. \A x \in Obj \ {o} : /\ req'[x] = req[x]
                                   /\ x \in Active' <=> x \in Active
                                   /\ x \in handling' <=> x \in handling
                                   /\ x \in setting' <=> x \in setting
            BY <2>2, <2>9, <2>15 DEF ChannelInv, TypeOK
        <3>2. \A t : t.req # o => (t \in Queue' <=> t \in Queue)
            BY <2>11, <2>13
        <3> QED BY <2>15, <2>19, <2>20, <2>21, <3>1, <3>2, OneObject DEF ChannelInv
    <2> QED BY <1>2, <2>14, <2>22 DEF ChannelInv
<1> QED BY <1>4, <1>5

LEMMA SendRequestKeeps ==
    ASSUME ChannelInv, SendRequest
    PROVE  ChannelInv'
<1>1. /\ InProgress /\ transfer.kind = "send" /\ transfer' = None
      /\ UNCHANGED <<active, count, curReq, threads>>
    BY DEF SendRequest
<1>2. TransferOK'
    BY <1>1 DEF ChannelInv, TransferOK, InProgress
<1>3. CASE UNCHANGED <<req, tasks>>
    BY <1>1, <1>2, <1>3, TransferOnly DEF ChannelInv, TypeOK
<1>4. CASE ~ UNCHANGED <<req, tasks>>
    <2>1. PICK o : o = transfer.req
        OBVIOUS
    <2>2. /\ o \in Active /\ req[o].state = "RECV_PAYLOAD"
          /\ req' = [req EXCEPT ![o].state = "PENDING"]
          /\ tasks' = Append(tasks, TaskOf("invokeRequestHandler", o))
        BY <1>4, <2>1 DEF SendRequest
    <2>3. o \in Obj /\ req[o] \in Request /\ tasks \in Seq(Task) /\ Once(tasks)
        <3>1. active \in Seq(Obj)
            BY DEF ChannelInv, TypeOK
        <3>2. o \in Obj
            BY <2>2, <3>1, ElementOfSeq, LenProperties DEF Active
        <3> QED BY <3>2 DEF ChannelInv, TypeOK, ListOK
    <2> DEFINE r == [req[o] EXCEPT !.state = "PENDING"]
    <2>4. /\ req' \in [Obj -> Request] /\ req'[o] = r /\ r.state = "PENDING" /\ r.data = req[o].data
          /\ r.result = req[o].result /\ r.received = req[o].received
        BY <2>2, <2>3 DEF Request, ChannelInv, TypeOK
    <2> HIDE DEF r
    <2>5. Owned(o) /\ Purposeful(o) /\ Answered(o) /\ ~ Worked(o)
        BY <2>2, <2>3 DEF ChannelInv, ObjectsOK, Owned, InThread
    <2>6. TaskOf("invokeRequestHandler", o) \in Task /\ \A f : TaskOf(f, o).req = o /\ TaskOf(f, o).func = f
        BY <2>3 DEF TaskOf, Task
    <2>7. /\ tasks' \in Seq(Task) /\ Once(tasks')
          /\ Queue' = Queue \cup {TaskOf("invokeRequestHandler", o)}
        <3>1. \A u \in Members(tasks) : u.req # o
            BY <2>5 DEF Worked, Queued, Queue
        <3> QED BY <2>2, <2>3, <2>6, <3>1, QueueAppend DEF Queue
    <2>8. TypeOK' /\ ListOK'
        BY <1>1, <2>4, <2>7 DEF TypeOK, ListOK, ChannelInv, threads, Distinct
    <2>9. running' = running /\ handling' = handling /\ setting' = setting /\ Active' = Active
        BY <1>1, SameMembers DEF threads
    <2>10. ~ Taken(o)' /\ o \notin handling' /\ o \notin setting' /\ Queued(o)'
        BY <2>5, <2>6, <2>7, <2>9 DEF Worked, Taken, Queued
    <2>11. \A f : Doing(f, o)' => f = "invokeRequestHandler"
        <3>1. \A f : TaskOf(f, o) \notin Queue
            BY <2>5, NotQueued DEF Worked
        <3>2. \A f : ~ (running' # None /\ running'.task = TaskOf(f, o))
            BY <2>6, <2>10 DEF Taken
        <3> QED BY <2>6, <2>7, <3>1, <3>2 DEF Doing
    <2>12. Owned(o)'
        BY <2>2, <2>4, <2>9, <2>10 DEF Owned, Worked, Live, InThread
    <2>13. Purposeful(o)'
        BY <2>4, <2>10, <2>11 DEF Purposeful, Taken, Running
    <2>14. Answered(o)'
        BY <2>2, <2>4, <2>5, <2>9 DEF Answered, Live
    <2>15. ObjectsOK'
        <3>1. \A x \in Obj \ {o} : /\ req'[x] = req[x]
                                   /\ x \in Active' <=> x \in Active
                                   /\ x \in handling' <=> x \in handling
                                   /\ x \in setting' <=> x \in setting
            BY <2>2, <2>9 DEF ChannelInv, TypeOK
        <3>2. \A t : t.req # o => (t \in Queue' <=> t \in Queue)
            BY <2>6, <2>7
        <3> QED BY <2>9, <2>12, <2>13, <2>14, <3>1, <3>2, OneObject DEF ChannelInv
    <2> QED BY <1>2, <2>8, <2>15 DEF ChannelInv
<1> QED BY <1>3, <1>4

LEMMA ActiveIsObj ==
    ASSUME ChannelInv, NEW o \in Active
    PROVE  o \in Obj /\ Live(o) /\ Answered(o) /\ req[o] \in Request
<1>1. active \in Seq(Obj)
    BY DEF ChannelInv, TypeOK
<1>2. o \in Obj
    BY <1>1, ElementOfSeq, LenProperties DEF Active
<1> QED BY <1>2 DEF ChannelInv, ObjectsOK, Owned, TypeOK

LEMMA CheckRequestKeeps ==
    ASSUME ChannelInv, CheckRequest
    PROVE  ChannelInv'
<1>1. Setup /\ UNCHANGED threads
    BY DEF CheckRequest
<1>2. CASE Reply(None) /\ UNCHANGED <<req, active, count, tasks, curReq>>
    <2>1. TransferOK' /\ transfer' \in Transfer
        BY <1>1, <1>2, ReplyOK
    <2> QED BY <1>1, <1>2, <2>1, TransferOnly DEF ChannelInv, TypeOK
<1>3. CASE \E o \in Active : /\ req[o].state = "ALLOC_FAILED" /\ FinishActive({o}, req[o].result, FALSE)
                             /\ Reply(None) /\ UNCHANGED curReq
    <2>1. PICK o \in Active : /\ req[o].state = "ALLOC_FAILED" /\ FinishActive({o}, req[o].result, FALSE)
                              /\ Reply(None) /\ UNCHANGED curReq
        BY <1>3
    <2>2. PICK result \in Results : result = req[o].result
        BY ActiveIsObj DEF Request
    <2>3. FinishActive({o}, result, FALSE) /\ {o} \in SUBSET Active /\ \A x \in {o} : req[x].state = "ALLOC_FAILED"
        BY <2>1, <2>2
    <2>4. TransferOK' /\ transfer' \in Transfer
        BY <1>1, <2>1, ReplyOK
    <2>5. curReq' \in Obj \cup {None}
        BY <2>1 DEF ChannelInv, TypeOK
    <2> QED BY <1>1, <2>3, <2>4, <2>5, FinishActiveKeeps
<1>4. CASE \E o \in Active : /\ curReq' = o /\ Reply(IF req[o].reply THEN None ELSE o)
                             /\ ResultIsAll(req[o]) /\ UNCHANGED <<req, active, count, tasks>>
    <2>1. PICK o \in Active : /\ curReq' = o /\ Reply(IF req[o].reply THEN None ELSE o)
                              /\ ResultIsAll(req[o]) /\ UNCHANGED <<req, active, count, tasks>>
        BY <1>4
    <2>2. Reply(o) /\ o \in Obj /\ Active' = Active /\ o # None
        BY <2>1, ActiveIsObj, SameMembers, NoneAssumption DEF ResultIsAll, NoneAssumption
    <2>3. TransferOK' /\ transfer' \in Transfer
        BY <1>1, <2>1, <2>2, ReplyOK
    <2> QED BY <1>1, <2>1, <2>2, <2>3, TransferOnly
<1> QED BY <1>2, <1>3, <1>4 DEF CheckRequest

LEMMA RecvRequestKeeps ==
    ASSUME ChannelInv, RecvRequest
    PROVE  ChannelInv'
<1>1. PICK o \in Active : curReq' = o /\ Reply(o)
    BY DEF RecvRequest
<1>2. Setup /\ UNCHANGED <<req, active, count, tasks, threads>>
    BY DEF RecvRequest
<1>3. o \in Obj /\ Active' = Active /\ o # None
    BY <1>2, ActiveIsObj, SameMembers, NoneAssumption DEF NoneAssumption
<1>4. TransferOK' /\ transfer' \in Transfer
    BY <1>1, <1>2, <1>3, ReplyOK
<1> QED BY <1>1, <1>2, <1>3, <1>4, TransferOnly

LEMMA SendSetupKeeps ==
    ASSUME ChannelInv, SendSetup
    PROVE  ChannelInv'
<1>1. PICK o \in Active : transfer' = [kind |-> "send", req |-> o, timedOut |-> FALSE]
    BY DEF SendSetup
<1>2. Setup /\ UNCHANGED <<req, active, count, curReq, tasks, threads>>
    BY DEF SendSetup
<1>3. o \in Obj /\ Active' = Active /\ transfer' \in Transfer
    BY <1>1, <1>2, ActiveIsObj, SameMembers DEF Transfer
<1>4. ~ Aborts => curReq' = None
    BY <1>2 DEF Setup, ChannelInv, TransferOK
<1>5. TransferOK'
    BY <1>1, <1>3, <1>4 DEF TransferOK
<1> QED BY <1>2, <1>3, <1>5, TransferOnly DEF ChannelInv, TypeOK

LEMMA ResetRequestKeeps ==
    ASSUME ChannelInv, ResetRequest
    PROVE  ChannelInv'
<1>1. Setup /\ Reply(None) /\ UNCHANGED <<curReq, threads>>
    BY DEF ResetRequest
<1>2. TransferOK' /\ transfer' \in Transfer /\ curReq' \in Obj \cup {None}
    BY <1>1, ReplyOK DEF ChannelInv, TypeOK
<1>3. PICK os \in SUBSET Active : FinishActive(os, "CANCELLED", FALSE)
    <2>1. Active \in SUBSET Active /\ \A o \in Active : {o} \in SUBSET Active
        OBVIOUS
    <2> QED BY <2>1 DEF ResetRequest
<1>4. "CANCELLED" \in Results /\ FALSE \in BOOLEAN /\ "CANCELLED" # "NONE"
    BY DEF Results
<1>5. "CANCELLED" \in {"NONE", "CANCELLED", "ABORTED"} /\ (~ Aborts => ("CANCELLED" = "NONE" <=> FALSE))
    BY <1>4
<1> QED BY <1>1, <1>2, <1>3, <1>4, <1>5, FinishActiveKeeps

LEMMA AbortKeeps ==
    ASSUME ChannelInv, AbortRequests, transfer' \in Transfer \cup {None}, ~ InProgress'
    PROVE  ChannelInv'
<1>1. curReq' = None /\ UNCHANGED threads /\ FinishActive(Active, "ABORTED", FALSE)
    BY DEF AbortRequests
<1>2. TransferOK'
    BY <1>1 DEF TransferOK
<1>3. "ABORTED" \in Results /\ FALSE \in BOOLEAN /\ Active \in SUBSET Active
    BY DEF Results
<1>4. "ABORTED" \in {"NONE", "CANCELLED", "ABORTED"} /\ (~ Aborts => ("ABORTED" = "NONE" <=> FALSE))
    OBVIOUS
<1>5. curReq' \in Obj \cup {None} /\ transfer' \in Transfer \cup {None}
    BY <1>1
<1> QED BY <1>1, <1>2, <1>3, <1>4, <1>5, FinishActiveKeeps

LEMMA BusResetKeeps ==
    ASSUME ChannelInv, BusReset
    PROVE  ChannelInv'
BY AbortKeeps DEF BusReset, InProgress

LEMMA TransferTimeoutKeeps ==
    ASSUME ChannelInv, TransferTimeout
    PROVE  ChannelInv'
<1>1. transfer \in Transfer /\ transfer' = [transfer EXCEPT !.timedOut = TRUE]
    BY DEF TransferTimeout, InProgress, ChannelInv, TypeOK
<1>2. transfer' \in Transfer /\ transfer'.timedOut
    BY <1>1 DEF Transfer
<1> QED BY <1>2, AbortKeeps DEF TransferTimeout, InProgress

LEMMA LateDataStageKeeps ==
    ASSUME ChannelInv, LateDataStage
    PROVE  ChannelInv'
<1>1. /\ ~ InProgress /\ transfer' = None
      /\ UNCHANGED <<req, active, count, curReq, tasks, threads>>
    BY DEF LateDataStage, InProgress
<1>2. TransferOK'
    BY <1>1 DEF ChannelInv, TransferOK, InProgress
<1> QED BY <1>1, <1>2, TransferOnly DEF ChannelInv, TypeOK

LEMMA TransferCompletedKeeps ==
    ASSUME ChannelInv, TransferCompleted
    PROVE  ChannelInv'
<1>1. transfer' = None /\ curReq' = None /\ UNCHANGED threads
    BY DEF TransferCompleted
<1>2. TransferOK'
    BY <1>1 DEF TransferOK, InProgress
<1>3. curReq' \in Obj \cup {None} /\ transfer' \in Transfer \cup {None}
    BY <1>1
<1>4. CASE curReq = None
    BY <1>1, <1>2, <1>3, <1>4, TransferOnly DEF TransferCompleted
<1>5. CASE curReq # None
    <2>1. PICK o : o = curReq
        OBVIOUS
    <2>2. PICK received \in BOOLEAN : received = (transfer.req = curReq)
        OBVIOUS
    <2>3. {o} \in SUBSET Active /\ FinishActive({o}, "NONE", received)
        BY <1>5, <2>1, <2>2 DEF TransferCompleted
    <2>4. ~ Aborts => ("NONE" = "NONE" <=> received)
        BY <1>5, <2>2 DEF ChannelInv, TransferOK
    <2>5. "NONE" \in Results /\ "NONE" \in {"NONE", "CANCELLED", "ABORTED"}
        BY DEF Results
    <2> QED BY <1>1, <1>2, <1>3, <2>3, <2>4, <2>5, FinishActiveKeeps
<1> QED BY <1>4, <1>5

LEMMA InitInv == Init => ChannelInv
<1> SUFFICES ASSUME Init PROVE ChannelInv
    OBVIOUS
<1>1. /\ active = <<>> /\ tasks = <<>> /\ count = 0 /\ running = None /\ handling = {} /\ setting = {}
      /\ curReq = None /\ transfer = None /\ req = [o \in Obj |-> Free]
    BY DEF Init
<1>2. Free \in Request /\ Free.state = "free"
    BY DEF Free, Request, Results
<1>3. active \in Seq(Obj) /\ tasks \in Seq(Task) /\ Len(active) = 0 /\ DOMAIN active = {} /\ DOMAIN tasks = {}
    BY <1>1, EmptySeq
<1>4. TypeOK
    BY <1>1, <1>2, <1>3, ChannelAssumption DEF TypeOK, ChannelAssumption
<1>5. ListOK
    BY <1>1, <1>3 DEF ListOK, Distinct, Once
<1>6. Active = {} /\ Queue = {}
    BY <1>3 DEF Active, Queue, Members
<1>7. TransferOK
    BY <1>1 DEF TransferOK, InProgress
<1>8. ASSUME NEW o \in Obj PROVE Owned(o) /\ Purposeful(o) /\ Answered(o)
    <2>1. req[o] = Free /\ req[o].state = "free"
        BY <1>1, <1>2
    <2>2. Owned(o)
        BY <1>1, <1>6, <2>1 DEF Owned, Worked, Queued, Taken, Live, InThread
    <2>3. Purposeful(o)
        BY <1>1, <1>6 DEF Purposeful, Doing, Running
    <2>4. Answered(o)
        BY <1>6, <2>1 DEF Answered, Live
    <2> QED BY <2>2, <2>3, <2>4
<1> QED BY <1>4, <1>5, <1>7, <1>8 DEF ChannelInv, ObjectsOK

LEMMA NextInv == ChannelInv /\ [Next]_vars => ChannelInv'
<1> SUFFICES ASSUME ChannelInv, [Next]_vars PROVE ChannelInv'
    OBVIOUS
<1>1. CASE Host
    BY <1>1, InitRequestKeeps, CheckRequestKeeps, SendSetupKeeps, RecvRequestKeeps, ResetRequestKeeps, BusResetKeeps
    DEF Host
<1>2. CASE Bus
    BY <1>2, SendRequestKeeps, TransferCompletedKeeps, TransferTimeoutKeeps, LateDataStageKeeps DEF Bus
<1>3. CASE SystemThread
    BY <1>3, TakeTaskKeeps, InvokeKeeps, AllocRequestDataKeeps, ConcludeAllocKeeps, FinishRequestKeeps
    DEF SystemThread
<1>4. CASE \E o \in Obj : Handler(o)
    BY <1>4, AllocReplyDataKeeps, SetResultKeeps, ConcludeResultKeeps DEF Handler
<1>5. CASE UNCHANGED vars
    <2>1. UNCHANGED <<req, active, count, tasks, threads, curReq, transfer>>
        BY <1>5 DEF vars, threads
    <2>2. TransferOK'
        BY <2>1, SameMembers DEF ChannelInv, TransferOK, InProgress
    <2> QED BY <2>1, <2>2, TransferOnly DEF ChannelInv, TypeOK
<1> QED BY <1>1, <1>2, <1>3, <1>4, <1>5 DEF Next

-----------------------------------------------------------------------------
(* Invariants *)

\* Every variable keeps to its type; the count of active requests never leaves
\* 0 .. USB_REQUEST_MAX_ACTIVE_COUNT, whatever is cancelled.
THEOREM ControlTypeCorrect == Spec => []TypeOK
<1>1. ChannelInv => TypeOK
    BY DEF ChannelInv
<1> QED BY <1>1, InitInv, NextInv, PTL DEF Spec

\* The references that threads hold to a request: none, or one.
LEMMA WorkersCount ==
    ASSUME ChannelInv, NEW o \in Obj
    PROVE  /\ ~ Worked(o) => Workers(o) = {}
           /\ Worked(o) => \E w : Workers(o) = {w}
<1> DEFINE Q == {<<"queue", i>> : i \in {i \in DOMAIN tasks : tasks[i].req = o}}
           R == {w \in {<<"system thread", 0>>} : running # None /\ running.task.req = o}
           H == {w \in {<<"handler", 0>>} : o \in handling}
           S == {w \in {<<"setResult", 0>>} : o \in setting}
<1>1. Workers(o) = Q \cup R \cup H \cup S
    BY DEF Workers
<1>2. Owned(o) /\ Once(tasks)
    BY DEF ChannelInv, ObjectsOK, ListOK
<1>3. IF Queued(o) THEN \E w : Q = {w} ELSE Q = {}
    <2>1. CASE Queued(o)
        <3>1. PICK i \in DOMAIN tasks : tasks[i].req = o
            BY <2>1 DEF Queued, Queue, Members
        <3>2. \A j \in DOMAIN tasks : tasks[j].req = o => j = i
            BY <1>2, <3>1 DEF Once
        <3>3. Q = {<<"queue", i>>}
            BY <3>1, <3>2
        <3> QED BY <2>1, <3>3
    <2>2. CASE ~ Queued(o)
        BY <2>2 DEF Queued, Queue, Members
    <2> QED BY <2>1, <2>2
<1>4. R = IF Taken(o) THEN {<<"system thread", 0>>} ELSE {}
    BY DEF Taken
<1>5. H = IF o \in handling THEN {<<"handler", 0>>} ELSE {}
    OBVIOUS
<1>6. S = IF o \in setting THEN {<<"setResult", 0>>} ELSE {}
    OBVIOUS
<1> HIDE DEF Q, R, H, S
<1>7. CASE Queued(o)
    <2>1. R = {} /\ H = {} /\ S = {}
        BY <1>2, <1>4, <1>5, <1>6, <1>7 DEF Owned
    <2> QED BY <1>1, <1>3, <1>7, <2>1 DEF Worked
<1>8. CASE Taken(o)
    <2>1. Q = {} /\ H = {} /\ S = {}
        BY <1>2, <1>3, <1>5, <1>6, <1>8 DEF Owned
    <2> QED BY <1>1, <1>4, <1>8, <2>1 DEF Worked
<1>9. CASE o \in handling
    <2>1. Q = {} /\ R = {} /\ S = {}
        BY <1>2, <1>3, <1>4, <1>6, <1>9 DEF Owned
    <2> QED BY <1>1, <1>5, <1>9, <2>1 DEF Worked
<1>10. CASE o \in setting
    <2>1. Q = {} /\ R = {} /\ H = {}
        BY <1>2, <1>3, <1>4, <1>5, <1>10 DEF Owned
    <2> QED BY <1>1, <1>6, <1>10, <2>1 DEF Worked
<1>11. CASE ~ Worked(o)
    <2>1. Q = {} /\ R = {} /\ H = {} /\ S = {}
        BY <1>3, <1>4, <1>5, <1>6, <1>11 DEF Worked
    <2> QED BY <1>1, <1>11, <2>1
<1> QED BY <1>7, <1>8, <1>9, <1>10, <1>11 DEF Worked

\* Every request has exactly one owner, the host or one place in the queue, the system
\* thread or a handler, also when finishActiveRequest() takes it from the host at a moment
\* when a thread holds it; and the count of active requests is that of the list.
THEOREM RequestsHaveOneOwner == Spec => []OneOwner
<1>1. ChannelInv => OneOwner
    <2> SUFFICES ASSUME ChannelInv PROVE OneOwner
        OBVIOUS
    <2>1. count = Len(active) /\ count = Cardinality(Active)
        <3>1. active \in Seq(Obj) /\ Distinct(active) /\ count = Len(active)
            BY DEF ChannelInv, TypeOK, ListOK
        <3> QED BY <3>1, DistinctCount, SameMembers
    <2>2. ASSUME NEW o \in Obj, Live(o)
          PROVE  Cardinality(Workers(o)) = IF o \in Active /\ ~ InThread(req[o]) THEN 0 ELSE 1
        <3>1. Worked(o) <=> (o \in Active => InThread(req[o]))
            BY <2>2 DEF ChannelInv, ObjectsOK, Owned
        <3>2. CASE Worked(o)
            <4>1. PICK w : Workers(o) = {w}
                BY <3>2, WorkersCount
            <4> QED BY <3>1, <3>2, <4>1, FS_Singleton
        <3>3. CASE ~ Worked(o)
            <4>1. Workers(o) = {}
                BY <3>3, WorkersCount
            <4> QED BY <3>1, <3>3, <4>1, FS_EmptySet
        <3> QED BY <3>2, <3>3
    <2> QED BY <2>1, <2>2 DEF OneOwner
<1> QED BY <1>1, InitInv, NextInv, PTL DEF Spec

\* If the host does not give up its transfers, nothing refers to a request that was returned
\* to the pool: no thread, not curReq_ and no transfer in progress that has not timed out.
THEOREM FreedStaysForgotten == ASSUME ~ Aborts PROVE Spec => []FreedIsForgotten
<1>1. ChannelInv => FreedIsForgotten
    <2> SUFFICES ASSUME ChannelInv PROVE FreedIsForgotten
        OBVIOUS
    <2>1. curReq \in Active \cup {None}
        BY DEF ChannelInv, TransferOK
    <2>2. ASSUME NEW o \in Obj, ~ Live(o)
          PROVE  o \notin Active /\ Workers(o) = {} /\ (InProgress => transfer.req # o)
        <3>1. o \notin Active /\ ~ Worked(o)
            BY <2>2 DEF ChannelInv, ObjectsOK, Owned
        <3>2. InProgress => transfer.req # o
            BY <3>1, NoneAssumption DEF ChannelInv, TransferOK, NoneAssumption
        <3> QED BY <3>1, <3>2, WorkersCount
    <2> QED BY <2>1, <2>2 DEF FreedIsForgotten
<1> QED BY <1>1, InitInv, NextInv, PTL DEF Spec

-----------------------------------------------------------------------------
(* Completion handlers *)

\* finishActiveRequest() returns to the pool only what has no completion handler.
LEMMA FinishActiveReturns ==
    ASSUME ChannelInv, NEW os \in SUBSET Active,
           NEW result \in Results, NEW received \in BOOLEAN, FinishActive(os, result, received),
           NEW o \in Obj, Returned(o)
    PROVE  ~ req[o].handler
<1>1. FinishEffect(os, result, received)
    BY FinishActiveEffect DEF ChannelInv
<1>2. req[o] \in Request /\ req[o].state # "free" /\ Free.state = "free"
    BY DEF Returned, Live, ChannelInv, TypeOK, Free
<1>3. o \in os
    BY <1>1, <1>2 DEF FinishEffect, Returned
<1> DEFINE d == Detached([req[o] EXCEPT !.result = result, !.received = received])
<1>4. d = Free
    BY <1>1, <1>3 DEF FinishEffect, Returned
<1>5. Leaves(d, req[o], result, received)
    BY <1>2, DetachedIs, Zenon
<1> HIDE DEF d
<1>6. ~ InThread(req[o]) /\ ~ HoldsMemory(req[o])
    BY <1>2, <1>4, <1>5 DEF Leaves
<1> QED BY <1>6 DEF HoldsMemory

\* A request with a completion handler is returned by finishRequest() or at the end of
\* setResult() only, and then it is no longer active.
LEMMA ReturnStep ==
    ASSUME ChannelInv, [Next]_vars, NEW o \in Obj, Returned(o), req[o].handler
    PROVE  (FinishRequest \/ ConcludeResult(o)) /\ o \notin Active
<1>1. /\ req \in [Obj -> Request] /\ req[o] \in Request
      /\ Live(o) /\ req[o].state # "free" /\ req'[o] = Free /\ Free.state = "free"
      /\ Owned(o) /\ Purposeful(o) /\ Answered(o)
    BY DEF Returned, Live, ChannelInv, TypeOK, Free, ObjectsOK
<1>2. req'[o].state # req[o].state
    BY <1>1
<1>3. ASSUME NEW os \in SUBSET Active, NEW result \in Results, NEW received \in BOOLEAN
      PROVE  ~ FinishActive(os, result, received)
    BY FinishActiveReturns
<1>4. "NONE" \in Results /\ "CANCELLED" \in Results /\ "ABORTED" \in Results
    BY DEF Results
<1>5. CASE InitRequest
    <2>1. ~ (count >= MaxActive) /\ ~ \A x \in Obj : Live(x)
        BY <1>2, <1>5 DEF InitRequest
    <2>2. PICK x \in Obj, payload \in {"none", "small", "large"}, pooled \in BOOLEAN :
              ~ Live(x) /\ req' = [req EXCEPT ![x] = NewRequest(x, payload, pooled)]
        BY <1>5, <2>1 DEF InitRequest
    <2> QED BY <1>1, <1>2, <2>2
<1>6. CASE CheckRequest
    <2>1. PICK x \in Active : FinishActive({x}, req[x].result, FALSE)
        BY <1>1, <1>2, <1>6 DEF CheckRequest
    <2>2. req[x].result \in Results /\ {x} \in SUBSET Active
        BY ActiveIsObj DEF Request
    <2> QED BY <1>3, <2>1, <2>2
<1>7. CASE SendSetup \/ RecvRequest
    BY <1>2, <1>7 DEF SendSetup, RecvRequest
<1>8. CASE ResetRequest
    <2>1. \A x \in Active : {x} \in SUBSET Active
        OBVIOUS
    <2> QED BY <1>3, <1>4, <1>8, <2>1 DEF ResetRequest
<1>9. CASE BusReset \/ TransferTimeout
    BY <1>3, <1>4, <1>9 DEF BusReset, TransferTimeout, AbortRequests
<1>10. CASE SendRequest
    <2>1. \/ UNCHANGED req
          \/ req' = [req EXCEPT ![transfer.req].state = "PENDING"]
        BY <1>10 DEF SendRequest
    <2> QED BY <1>1, <1>2, <2>1 DEF Request
<1>11. CASE TransferCompleted
    <2>1. curReq # None
        BY <1>2, <1>11 DEF TransferCompleted
    <2>2. PICK received \in BOOLEAN : received = (transfer.req = curReq)
        OBVIOUS
    <2>3. {curReq} \in SUBSET Active /\ FinishActive({curReq}, "NONE", received)
        BY <1>11, <2>1, <2>2 DEF TransferCompleted
    <2> QED BY <1>3, <1>4, <2>3
<1>12. CASE TakeTask \/ InvokeRequestHandler
    BY <1>2, <1>12 DEF TakeTask, InvokeRequestHandler
<1>13. CASE AllocRequestData
    <2>1. PICK data \in {"none", "heap"} : req' = [req EXCEPT ![running.task.req].data = data]
        BY <1>13 DEF AllocRequestData
    <2> QED BY <1>1, <1>2, <2>1 DEF Request
<1>14. CASE ConcludeAlloc
    <2>1. PICK p \in Obj : p = running.task.req /\ Taken(p) /\ Doing("allocRequestData", p)
        BY <1>14, RunningTask DEF ConcludeAlloc
    <2>2. ~ req[p].handler
        BY <2>1, AtHand DEF Purposeful
    <2>3. o # p
        BY <2>2
    <2>4. req'[o] = req[o]
        BY <1>1, <1>14, <2>1, <2>3 DEF ConcludeAlloc
    <2> QED BY <1>2, <2>4
<1>15. CASE FinishRequest
    <2>1. PICK p \in Obj : p = running.task.req /\ Taken(p) /\ Doing("finishRequest", p)
        BY <1>15, RunningTask DEF FinishRequest
    <2>2. req' = [req EXCEPT ![p] = Free]
        BY <1>15, <2>1 DEF FinishRequest, Finish
    <2>3. o = p
        BY <1>1, <1>2, <2>2
    <2> QED BY <1>1, <1>15, <2>1, <2>3 DEF Purposeful
<1>16. ASSUME NEW p \in Obj, Handler(p) PROVE ConcludeResult(o) /\ o \notin Active
    <2>1. CASE AllocReplyData(p) \/ FreeRequestData(p)
        <3>1. \/ \E reply \in BOOLEAN : req' = [req EXCEPT ![p].reply = reply]
              \/ req' = [req EXCEPT ![p].data = "none"]
            BY <2>1 DEF AllocReplyData, FreeRequestData
        <3> QED BY <1>1, <1>2, <3>1 DEF Request
    <2>2. CASE SetResult(p)
        <3>1. PICK handler \in BOOLEAN : req' = [req EXCEPT ![p].data = "none", ![p].handler = handler]
            BY <2>2 DEF SetResult
        <3> QED BY <1>1, <1>2, <3>1 DEF Request
    <2>3. CASE ConcludeResult(p)
        <3>1. req[p].state = "PENDING" => req' = [req EXCEPT ![p].result = "HANDLED", ![p].state = "DONE"]
            BY <2>3 DEF ConcludeResult
        <3>2. req[p].state # "PENDING" => req' = [req EXCEPT ![p] = Free]
            BY <2>3 DEF ConcludeResult, Finish
        <3>3. req[p].state # "PENDING"
            BY <1>1, <1>2, <3>1 DEF Request
        <3>4. o = p
            BY <1>1, <1>2, <3>2, <3>3
        <3>5. o \in setting
            BY <2>3, <3>4 DEF ConcludeResult
        <3>6. o \notin Active
            BY <1>1, <3>3, <3>4, <3>5 DEF Owned, Worked, Purposeful, InThread
        <3> QED BY <2>3, <3>4, <3>6
    <2> QED BY <1>16, <2>1, <2>2, <2>3 DEF Handler
<1>17. CASE LateDataStage \/ UNCHANGED vars
    BY <1>2, <1>17 DEF LateDataStage, vars
<1> QED BY <1>5, <1>6, <1>7, <1>8, <1>9, <1>10, <1>11, <1>12, <1>13, <1>14, <1>15, <1>16, <1>17
        DEF Next, Host, Bus, SystemThread

\* finishActiveRequest(), in the interrupt, never returns a request whose completion handler
\* is yet to be called, and the handler is called with the final result.
THEOREM HandlersRunAtTheEnd == Spec => HandlerRunsAtTheEnd
<1> DEFINE A == \A o \in Obj : Returned(o) /\ req[o].handler =>
                   /\ FinishRequest \/ ConcludeResult(o)
                   /\ req[o].result \notin {"UNKNOWN", "HANDLED"}
<1>1. ChannelInv /\ [Next]_vars => A
    <2> SUFFICES ASSUME ChannelInv, [Next]_vars, NEW o \in Obj, Returned(o), req[o].handler
                 PROVE  (FinishRequest \/ ConcludeResult(o)) /\ req[o].result \notin {"UNKNOWN", "HANDLED"}
        OBVIOUS
    <2>1. (FinishRequest \/ ConcludeResult(o)) /\ o \notin Active
        BY ReturnStep
    <2>2. req[o].result \in {"NONE", "CANCELLED", "ABORTED"}
        BY <2>1 DEF ChannelInv, ObjectsOK, Answered, Returned
    <2> QED BY <2>1, <2>2
<1> HIDE DEF A
<1>2. Spec => [][A]_vars
    BY <1>1, InitInv, NextInv, PTL DEF Spec
<1> QED BY <1>2 DEF HandlerRunsAtTheEnd, A

\* If the host does not give up its transfers, a completion handler is called with the
\* result for "received" exactly if the data stage with the reply was completed in time.
THEOREM ResultsMeanReceived == ASSUME ~ Aborts PROVE Spec => ResultMeansReceived
<1> DEFINE A == \A o \in Obj : Returned(o) /\ req[o].handler => (req[o].result = "NONE" <=> req[o].received)
<1>1. ChannelInv /\ [Next]_vars => A
    <2> SUFFICES ASSUME ChannelInv, [Next]_vars, NEW o \in Obj, Returned(o), req[o].handler
                 PROVE  req[o].result = "NONE" <=> req[o].received
        OBVIOUS
    <2>1. o \notin Active
        BY ReturnStep
    <2> QED BY <2>1 DEF ChannelInv, ObjectsOK, Answered, Returned
<1> HIDE DEF A
<1>2. Spec => [][A]_vars
    BY <1>1, InitInv, NextInv, PTL DEF Spec
<1> QED BY <1>2 DEF ResultMeansReceived, A

-----------------------------------------------------------------------------
(* Each request is handled once *)

\* The phase of a request shows in its state, except that a cancelled request may be in any
\* hands.
PhaseFits(o) ==
    /\ Phase(o) = "free" <=> ~ Live(o)
    /\ Phase(o) = "submitted" <=> Doing("invokeRequestHandler", o)
    /\ Phase(o) = "handling" <=> o \in handling \cup setting
    /\ req[o].state = "ALLOC_PENDING" => Phase(o) = "allocating"
    /\ req[o].state = "RECV_PAYLOAD" => Phase(o) = IF o \in Active THEN "receiving" ELSE "done"
    /\ req[o].state = "ALLOC_FAILED" => Phase(o) = "done"
    /\ req[o].state = "PENDING" => Phase(o) \in {"submitted", "handling"}
    /\ req[o].state = "DONE" => Phase(o) \in {"submitted", "handling", "done"}
    /\ req[o].state = "DONE" /\ o \in Active => Phase(o) = "done"
    /\ o \in Active => Live(o) /\ o \in Obj

LEMMA PhasesFit == ChannelInv => \A o \in Obj : PhaseFits(o)
<1> SUFFICES ASSUME ChannelInv, NEW o \in Obj PROVE PhaseFits(o)
    OBVIOUS
<1>1. Owned(o) /\ Purposeful(o) /\ req[o] \in Request
    BY DEF ChannelInv, ObjectsOK, TypeOK
<1>2. Submitted(o) <=> Doing("invokeRequestHandler", o)
    BY DEF Submitted, Doing, Queue, Members
<1>3. Doing("invokeRequestHandler", o) => Worked(o) /\ o \notin handling \cup setting
    BY <1>1 DEF Doing, Worked, Queued, Taken, TaskOf, Owned
<1>4. o \in handling \cup setting => Worked(o)
    BY DEF Worked
<1>5. ASSUME Worked(o), o \notin handling \cup setting
      PROVE  \E func \in {"allocRequestData", "invokeRequestHandler", "finishRequest"} : Doing(func, o)
    <2>1. CASE Queued(o)
        <3>1. PICK t \in Queue : t.req = o
            BY <2>1 DEF Queued
        <3>2. t \in Task
            <4>1. tasks \in Seq(Task)
                BY DEF ChannelInv, TypeOK
            <4> QED BY <3>1, <4>1, ElementOfSeq, LenProperties DEF Queue, Members
        <3>3. t = TaskOf(t.func, o)
            BY <3>1, <3>2 DEF Task, TaskOf
        <3> QED BY <3>1, <3>2, <3>3 DEF Doing, Task
    <2>2. CASE Taken(o)
        <3>1. running.task \in Task /\ running # None /\ running.task.req = o
            BY <2>2 DEF Taken, ChannelInv, TypeOK, Job
        <3>2. running.task = TaskOf(running.task.func, o)
            BY <3>1 DEF Task, TaskOf
        <3> QED BY <3>1, <3>2 DEF Doing, Task
    <2> QED BY <1>5, <2>1, <2>2 DEF Worked
<1>6. req[o].state = "PENDING" => Worked(o)
    BY <1>1 DEF Owned, InThread, Live
<1>7. req[o].state = "PENDING" => Doing("invokeRequestHandler", o) \/ o \in handling \cup setting
    <2> SUFFICES ASSUME req[o].state = "PENDING", o \notin handling \cup setting
                 PROVE  Doing("invokeRequestHandler", o)
        OBVIOUS
    <2>1. ~ Doing("allocRequestData", o) /\ ~ Doing("finishRequest", o)
        BY <1>1 DEF Purposeful, Owned, InThread
    <2> QED BY <1>5, <1>6, <2>1
<1>8. Worked(o) => Live(o)
    BY <1>1 DEF Owned
<1>9. req[o].state = "DONE" /\ o \in Active => ~ Worked(o)
    BY <1>1 DEF Owned, InThread
<1>10. Doing("invokeRequestHandler", o) \/ o \in handling \cup setting => req[o].state \in {"PENDING", "DONE"}
    BY <1>1 DEF Purposeful
<1>11. o \in Active => Live(o)
    BY <1>1 DEF Owned
<1> HIDE DEF Doing, Worked
<1> QED BY <1>2, <1>3, <1>4, <1>7, <1>8, <1>9, <1>10, <1>11 DEF PhaseFits, Phase, Live

LEMMA PhasesFitNext == ChannelInv' => \A o \in Obj : PhaseFits(o)'
<1>1. (ChannelInv => \A o \in Obj : PhaseFits(o))'
    BY PhasesFit, PTL
<1> QED BY <1>1

\* Nothing happens to a request whose state stays, if it stays where it is.
LEMMA PhaseStays ==
    ASSUME NEW o, req'[o].state = req[o].state,
           o \in Active' <=> o \in Active,
           Doing("invokeRequestHandler", o)' <=> Doing("invokeRequestHandler", o),
           o \in (handling \cup setting)' <=> o \in handling \cup setting
    PROVE  Phase(o)' = Phase(o)
<1>1. Submitted(o) <=> Doing("invokeRequestHandler", o)
    BY DEF Submitted, Doing, Queue, Members
<1>2. Submitted(o)' <=> Doing("invokeRequestHandler", o)'
    BY DEF Submitted, Doing, Queue, Members
<1> HIDE DEF Doing
<1> QED BY <1>1, <1>2 DEF Phase, Live

\* A step about one request leaves the phases of the others.
LEMMA OthersStay ==
    ASSUME NEW p,
           \A o \in Obj \ {p} : /\ req'[o] = req[o]
                                /\ o \in Active' <=> o \in Active
                                /\ o \in handling' <=> o \in handling
                                /\ o \in setting' <=> o \in setting,
           \A t : t.req # p => (t \in Queue' <=> t \in Queue),
           running' = running \/ (/\ running # None => running.task.req = p
                                  /\ running' # None => running'.task.req = p)
    PROVE  \A o \in Obj \ {p} : Phase(o)' = Phase(o)
<1> TAKE o \in Obj \ {p}
<1>1. TaskOf("invokeRequestHandler", o).req # p
    BY DEF TaskOf
<1>2. Doing("invokeRequestHandler", o)' <=> Doing("invokeRequestHandler", o)
    BY <1>1 DEF Doing
<1> QED BY <1>2, PhaseStays

ServiceStep == [Service!Next]_([o \in Obj |-> Phase(o)])

LEMMA PhasesStay ==
    ASSUME \A o \in Obj : Phase(o)' = Phase(o)
    PROVE  ServiceStep
BY DEF ServiceStep

\* One request moves from a phase to another one.
LEMMA PhaseMoves ==
    ASSUME NEW p \in Obj, \A o \in Obj \ {p} : Phase(o)' = Phase(o),
           \/ Phase(p)' = Phase(p)
           \/ Phase(p) = "free" /\ Phase(p)' \in {"allocating", "receiving", "submitted"}
           \/ Phase(p) = "allocating" /\ Phase(p)' \in {"receiving", "done"}
           \/ Phase(p) = "receiving" /\ Phase(p)' = "submitted"
           \/ Phase(p) = "submitted" /\ Phase(p)' = "handling"
           \/ Phase(p) = "handling" /\ Phase(p)' \in {"done", "free"}
           \/ Phase(p) = "done" /\ Phase(p)' = "free"
    PROVE  ServiceStep
<1> DEFINE ph == [o \in Obj |-> Phase(o)]
<1>1. ph' = [ph EXCEPT ![p] = Phase(p)'] /\ ph[p] = Phase(p)
    OBVIOUS
<1>2. CASE Phase(p)' = Phase(p)
    BY <1>2, PhasesStay
<1>3. CASE Phase(p)' # Phase(p)
    <2>1. \/ Service!Accept(p) \/ Service!Allocate(p) \/ Service!Submit(p)
          \/ Service!Handle(p) \/ Service!Conclude(p) \/ Service!Release(p)
        BY <1>1, <1>3 DEF Service!Accept, Service!Allocate, Service!Submit, Service!Handle,
           Service!Conclude, Service!Release, Service!Move
    <2> QED BY <2>1 DEF ServiceStep, Service!Next
<1> QED BY <1>2, <1>3

\* Whatever finishActiveRequest() does to requests is a cancellation.
LEMMA FinishActiveServes ==
    ASSUME ChannelInv, ChannelInv', NEW os \in SUBSET Active,
           NEW result \in Results, NEW received \in BOOLEAN, FinishActive(os, result, received),
           UNCHANGED threads
    PROVE  ServiceStep
<1>1. FinishEffect(os, result, received)
    BY FinishActiveEffect DEF ChannelInv
<1>2. \A o \in Obj : PhaseFits(o) /\ PhaseFits(o)'
    BY PhasesFit, PhasesFitNext
<1>3. Active' = Active \ os
    BY <1>1, SameMembers DEF FinishEffect
<1>4. \A o \in Obj : TaskOf("invokeRequestHandler", o) \in Queue' <=> TaskOf("invokeRequestHandler", o) \in Queue
    <2>1. \A o, x \in Obj : TaskOf("invokeRequestHandler", o) # TaskOf("finishRequest", x)
        BY DEF TaskOf
    <2>2. os \subseteq Obj
        BY ActiveIsObj
    <2> QED BY <1>1, <2>1, <2>2 DEF FinishEffect, Queue
<1>5. \A o \in Obj : Doing("invokeRequestHandler", o)' <=> Doing("invokeRequestHandler", o)
    BY <1>4 DEF Doing, threads
<1>6. handling' = handling /\ setting' = setting
    BY DEF threads
<1>7. ASSUME NEW o \in Obj
      PROVE  \/ Phase(o)' = Phase(o)
             \/ Phase(o) \in {"allocating", "receiving", "done"} /\ Phase(o)' \in {"done", "free"}
    <2>1. CASE o \notin os
        <3>1. req'[o] = req[o] /\ (o \in Active' <=> o \in Active)
            BY <1>1, <1>3, <2>1 DEF FinishEffect
        <3> QED BY <1>5, <1>6, <3>1, PhaseStays
    <2>2. CASE o \in os
        <3> DEFINE d == Detached([req[o] EXCEPT !.result = result, !.received = received])
        <3>1. req'[o] = d /\ req[o] \in Request /\ o \in Active /\ Live(o)
            BY <1>1, <1>2, <2>2 DEF FinishEffect, ChannelInv, TypeOK, PhaseFits
        <3>2. Leaves(d, req[o], result, received)
            BY <3>1, DetachedIs, Zenon DEF Live
        <3> HIDE DEF d
        <3>3. PhaseFits(o) /\ PhaseFits(o)' /\ o \notin Active'
            BY <1>2, <1>3, <2>2
        <3>4. Phase(o) \in {"allocating", "receiving", "done", "submitted", "handling"}
            BY <3>1, <3>3 DEF PhaseFits, Request, Live
        <3>5. Phase(o) \in {"submitted", "handling"} => Phase(o)' = Phase(o)
            BY <1>5, <1>6, <3>3 DEF PhaseFits
        <3>6. ASSUME Phase(o) \notin {"submitted", "handling"} PROVE Phase(o)' \in {"done", "free"}
            <4>1. Phase(o)' \notin {"submitted", "handling"}
                BY <1>5, <1>6, <3>3, <3>6 DEF PhaseFits
            <4>2. req'[o].state \in {"free", "DONE", "RECV_PAYLOAD", "ALLOC_FAILED"}
                <5>1. CASE InThread(req[o])
                    BY <3>1, <3>2, <5>1 DEF Leaves
                <5>2. CASE ~ InThread(req[o])
                    BY <3>1, <3>2, <5>2 DEF Leaves, InThread, Request, Free
                <5> QED BY <5>1, <5>2
            <4> QED BY <3>3, <4>1, <4>2 DEF PhaseFits, Live
        <3> QED BY <3>4, <3>5, <3>6
    <2> QED BY <2>1, <2>2
<1>8. Service!Cancel
    <2> DEFINE ph == [o \in Obj |-> Phase(o)]
    <2>1. \A o \in Obj : Phase(o)' \in Service!Phases
        BY DEF Phase, Service!Phases
    <2>2. ph' \in [Obj -> Service!Phases] /\ \A o \in Obj : ph'[o] = Phase(o)' /\ ph[o] = Phase(o)
        BY <2>1
    <2> QED BY <1>7, <2>2 DEF Service!Cancel
<1> QED BY <1>8 DEF ServiceStep, Service!Next

\* A thread works on a request that it holds.
LEMMA WorkerServes ==
    ASSUME ChannelInv, ChannelInv', NEW p \in Obj, NEW r \in Request,
           UNCHANGED <<interrupt, tasks>>,
           req' = [req EXCEPT ![p] = r],
           running' = running \/ (Taken(p) /\ running' = None) \/ (Taken(p) /\ running' # None /\ running'.task = running.task),
           handling' \ {p} = handling \ {p}, setting' \ {p} = setting \ {p},
           \/ Phase(p)' = Phase(p)
           \/ Phase(p) = "allocating" /\ Phase(p)' \in {"receiving", "done"}
           \/ Phase(p) = "submitted" /\ Phase(p)' = "handling"
           \/ Phase(p) = "handling" /\ Phase(p)' \in {"done", "free"}
           \/ Phase(p) = "done" /\ Phase(p)' = "free"
    PROVE  ServiceStep
<1>1. Active' = Active /\ Queue' = Queue
    BY SameMembers DEF interrupt
<1>2. \A o \in Obj \ {p} : /\ req'[o] = req[o]
                           /\ o \in Active' <=> o \in Active
                           /\ o \in handling' <=> o \in handling
                           /\ o \in setting' <=> o \in setting
    BY <1>1 DEF ChannelInv, TypeOK
<1>3. running' = running \/ (/\ running # None => running.task.req = p
                             /\ running' # None => running'.task.req = p)
    BY DEF Taken
<1>4. \A o \in Obj \ {p} : Phase(o)' = Phase(o)
    BY <1>1, <1>2, <1>3, OthersStay
<1> QED BY <1>4, PhaseMoves

LEMMA InitRequestServes ==
    ASSUME ChannelInv, ChannelInv', InitRequest
    PROVE  ServiceStep
<1>1. UNCHANGED threads
    BY DEF InitRequest
<1>2. \A o \in Obj : PhaseFits(o) /\ PhaseFits(o)' /\ req[o] \in Request
    BY PhasesFit, PhasesFitNext DEF ChannelInv, TypeOK
<1>3. CASE UNCHANGED <<req, active, count, tasks>>
    <2>1. Active' = Active
        BY <1>3, SameMembers
    <2>2. \A o \in Obj : Doing("invokeRequestHandler", o)' <=> Doing("invokeRequestHandler", o)
        BY <1>1, <1>3 DEF Doing, Queue, Members, threads
    <2> QED BY <1>1, <1>3, <2>1, <2>2, PhaseStays, PhasesStay DEF threads
<1>4. CASE ~ UNCHANGED <<req, active, count, tasks>>
    <2>1. ~ (count >= MaxActive) /\ ~ \A o \in Obj : Live(o)
        BY <1>4 DEF InitRequest
    <2>2. PICK p \in {x \in Obj : ~ Live(x)}, payload \in {"none", "small", "large"}, pooled \in BOOLEAN :
              /\ pooled => payload = "small"
              /\ req' = [req EXCEPT ![p] = NewRequest(p, payload, pooled)]
              /\ active' = <<p>> \o active
              /\ tasks' = CASE payload = "none" -> Append(tasks, TaskOf("invokeRequestHandler", p))
                            [] pooled           -> tasks
                            [] OTHER            -> Append(tasks, TaskOf("allocRequestData", p))
        BY <2>1 DEF InitRequest
    <2>3. p \notin Active /\ ~ Worked(p) /\ Phase(p) = "free"
        BY <1>2, <2>2 DEF PhaseFits, ChannelInv, ObjectsOK, Owned
    <2>4. req'[p].state \in {"PENDING", "RECV_PAYLOAD", "ALLOC_PENDING"} /\ \A o \in Obj \ {p} : req'[o] = req[o]
        <3>1. NewRequest(p, payload, pooled).state \in {"PENDING", "RECV_PAYLOAD", "ALLOC_PENDING"}
            BY DEF NewRequest, Free
        <3> QED BY <2>2, <3>1 DEF ChannelInv, TypeOK
    <2>5. Active' = Active \cup {p}
        <3>1. active \in Seq(Obj) /\ Distinct(active) /\ p \in Obj
            BY <2>2 DEF ChannelInv, TypeOK, ListOK
        <3> QED BY <2>2, <2>3, <3>1, ListPrepend, SameMembers
    <2>6. \A t : t.req # p => (t \in Queue' <=> t \in Queue)
        <3>1. \A u \in Members(tasks) : u.req # p
            BY <2>3 DEF Worked, Queued, Queue
        <3>2. tasks \in Seq(Task) /\ Once(tasks)
            BY DEF ChannelInv, TypeOK, ListOK
        <3>3. tasks' = tasks \/ \E func \in {"allocRequestData", "invokeRequestHandler"} : tasks' = Append(tasks, TaskOf(func, p))
            BY <2>2
        <3>4. \A func \in {"allocRequestData", "invokeRequestHandler"} : TaskOf(func, p) \in Task /\ TaskOf(func, p).req = p
            BY <2>2 DEF TaskOf, Task
        <3>5. CASE tasks' = tasks
            BY <3>5, SameMembers
        <3>6. ASSUME NEW func \in {"allocRequestData", "invokeRequestHandler"}, tasks' = Append(tasks, TaskOf(func, p))
              PROVE  Queue' = Queue \cup {TaskOf(func, p)}
            BY <3>1, <3>2, <3>4, <3>6, QueueAppend DEF Queue
        <3> QED BY <3>3, <3>4, <3>5, <3>6
    <2>7. running' = running /\ handling' = handling /\ setting' = setting
        BY <1>1 DEF threads
    <2>8. \A o \in Obj \ {p} : Phase(o)' = Phase(o)
        BY <2>4, <2>5, <2>6, <2>7, OthersStay
    <2>9. Phase(p)' \in {"allocating", "receiving", "submitted"}
        <3>1. PhaseFits(p)' /\ p \in Active'
            BY <1>2, <2>2, <2>5
        <3>2. p \notin handling' \cup setting'
            BY <2>3, <2>7 DEF Worked
        <3> QED BY <2>4, <3>1, <3>2 DEF PhaseFits
    <2> QED BY <2>2, <2>3, <2>8, <2>9, PhaseMoves
<1> QED BY <1>3, <1>4

LEMMA SendRequestServes ==
    ASSUME ChannelInv, ChannelInv', SendRequest
    PROVE  ServiceStep
<1>1. UNCHANGED threads /\ active' = active
    BY DEF SendRequest
<1>2. Active' = Active
    BY <1>1, SameMembers
<1>3. CASE UNCHANGED <<req, tasks>>
    <2>1. \A o \in Obj : Doing("invokeRequestHandler", o)' <=> Doing("invokeRequestHandler", o)
        BY <1>1, <1>3 DEF Doing, Queue, Members, threads
    <2> QED BY <1>1, <1>2, <1>3, <2>1, PhaseStays, PhasesStay DEF threads
<1>4. CASE ~ UNCHANGED <<req, tasks>>
    <2>1. PICK p : p = transfer.req
        OBVIOUS
    <2>2. /\ p \in Active /\ req[p].state = "RECV_PAYLOAD"
          /\ req' = [req EXCEPT ![p].state = "PENDING"]
          /\ tasks' = Append(tasks, TaskOf("invokeRequestHandler", p))
        BY <1>4, <2>1 DEF SendRequest
    <2>3. p \in Obj /\ PhaseFits(p) /\ PhaseFits(p)' /\ req \in [Obj -> Request]
        BY <2>2, ActiveIsObj, PhasesFit, PhasesFitNext DEF ChannelInv, TypeOK
    <2>4. req'[p].state = "PENDING" /\ \A o \in Obj \ {p} : req'[o] = req[o]
        BY <2>2, <2>3 DEF Request
    <2>5. ~ Worked(p)
        BY <2>2, <2>3 DEF ChannelInv, ObjectsOK, Owned, InThread
    <2>6. \A t : t.req # p => (t \in Queue' <=> t \in Queue)
        <3>1. \A u \in Members(tasks) : u.req # p
            BY <2>5 DEF Worked, Queued, Queue
        <3>2. tasks \in Seq(Task) /\ Once(tasks)
            BY DEF ChannelInv, TypeOK, ListOK
        <3>3. TaskOf("invokeRequestHandler", p) \in Task /\ TaskOf("invokeRequestHandler", p).req = p
            BY <2>3 DEF TaskOf, Task
        <3>4. Queue' = Queue \cup {TaskOf("invokeRequestHandler", p)}
            BY <2>2, <3>1, <3>2, <3>3, QueueAppend DEF Queue
        <3> QED BY <3>3, <3>4
    <2>7. running' = running /\ handling' = handling /\ setting' = setting
        BY <1>1 DEF threads
    <2>8. \A o \in Obj \ {p} : Phase(o)' = Phase(o)
        BY <1>2, <2>4, <2>6, <2>7, OthersStay
    <2>9. Phase(p) = "receiving" /\ Phase(p)' = "submitted"
        BY <2>2, <2>3, <2>4, <2>5, <2>7 DEF PhaseFits, Worked
    <2> QED BY <2>3, <2>8, <2>9, PhaseMoves
<1> QED BY <1>3, <1>4

LEMMA HostServes ==
    ASSUME ChannelInv, ChannelInv', Host \/ TransferCompleted \/ TransferTimeout \/ LateDataStage
    PROVE  ServiceStep
<1>1. ASSUME UNCHANGED <<req, active, tasks, threads>> PROVE ServiceStep
    <2>1. Active' = Active
        BY <1>1, SameMembers
    <2>2. \A o \in Obj : Doing("invokeRequestHandler", o)' <=> Doing("invokeRequestHandler", o)
        BY <1>1 DEF Doing, Queue, Members, threads
    <2> QED BY <1>1, <2>1, <2>2, PhaseStays, PhasesStay DEF threads
<1>2. ASSUME NEW o \in Active, NEW result \in Results, NEW received \in BOOLEAN,
             FinishActive({o}, result, received), UNCHANGED threads
      PROVE  ServiceStep
    <2>1. {o} \in SUBSET Active
        OBVIOUS
    <2> QED BY <1>2, <2>1, FinishActiveServes
<1>3. ASSUME NEW result \in Results, FinishActive(Active, result, FALSE), UNCHANGED threads PROVE ServiceStep
    <2>1. Active \in SUBSET Active
        OBVIOUS
    <2> QED BY <1>3, <2>1, FinishActiveServes
<1>4. "NONE" \in Results /\ "CANCELLED" \in Results /\ "ABORTED" \in Results
    BY DEF Results
<1>5. CASE InitRequest
    BY <1>5, InitRequestServes
<1>6. CASE CheckRequest
    <2>1. UNCHANGED threads
        BY <1>6 DEF CheckRequest
    <2>2. \/ UNCHANGED <<req, active, count, tasks>>
          \/ \E o \in Active : FinishActive({o}, req[o].result, FALSE)
        BY <1>6 DEF CheckRequest
    <2>3. \A o \in Active : req[o].result \in Results
        BY ActiveIsObj DEF Request
    <2> QED BY <1>1, <1>2, <2>1, <2>2, <2>3
<1>7. CASE SendSetup \/ RecvRequest
    BY <1>1, <1>7 DEF SendSetup, RecvRequest
<1>8. CASE ResetRequest
    BY <1>2, <1>3, <1>4, <1>8 DEF ResetRequest
<1>9. CASE BusReset \/ TransferTimeout
    BY <1>3, <1>4, <1>9 DEF BusReset, TransferTimeout, AbortRequests
<1>10. CASE TransferCompleted
    <2>1. UNCHANGED threads
        BY <1>10 DEF TransferCompleted
    <2>2. PICK received \in BOOLEAN : received = (transfer.req = curReq)
        OBVIOUS
    <2>3. \/ UNCHANGED <<req, active, count, tasks>>
          \/ curReq \in Active /\ FinishActive({curReq}, "NONE", received)
        BY <1>10, <2>2 DEF TransferCompleted
    <2> QED BY <1>1, <1>2, <1>4, <2>1, <2>3
<1>11. CASE LateDataStage
    BY <1>1, <1>11 DEF LateDataStage
<1> QED BY <1>5, <1>6, <1>7, <1>8, <1>9, <1>10, <1>11 DEF Host

\* The request that the system thread has taken, and its phase before and after.
LEMMA TakenServes ==
    ASSUME ChannelInv, ChannelInv',
           InvokeRequestHandler \/ AllocRequestData \/ ConcludeAlloc \/ FinishRequest
    PROVE  ServiceStep
<1>1. PICK p \in Obj : /\ p = running.task.req /\ Taken(p) /\ running \in Job
                       /\ \/ InvokeRequestHandler /\ Doing("invokeRequestHandler", p)
                          \/ (AllocRequestData \/ ConcludeAlloc) /\ running.task.func = "allocRequestData"
                                                                 /\ Doing("allocRequestData", p)
                          \/ FinishRequest /\ Doing("finishRequest", p) /\ running.task.func = "finishRequest"
    <2>1. CASE InvokeRequestHandler
        BY <2>1, RunningTask DEF InvokeRequestHandler
    <2>2. CASE AllocRequestData
        <3>1. Running("allocRequestData", "taken")
            BY <2>2 DEF AllocRequestData
        <3> QED BY <2>2, <3>1, RunningTask DEF Running
    <2>3. CASE ConcludeAlloc
        <3>1. Running("allocRequestData", "allocated")
            BY <2>3 DEF ConcludeAlloc
        <3> QED BY <2>3, <3>1, RunningTask DEF Running
    <2>4. CASE FinishRequest
        <3>1. Running("finishRequest", "taken")
            BY <2>4 DEF FinishRequest
        <3> QED BY <2>4, <3>1, RunningTask DEF Running
    <2> QED BY <2>1, <2>2, <2>3, <2>4
<1>2. /\ ~ Queued(p) /\ Live(p) /\ (p \in Active => InThread(req[p])) /\ p \notin handling \cup setting
      /\ Owned(p) /\ Purposeful(p) /\ req[p] \in Request
    BY <1>1, AtHand
<1>3. PhaseFits(p) /\ PhaseFits(p)' /\ req \in [Obj -> Request] /\ req' \in [Obj -> Request]
    BY PhasesFit, PhasesFitNext DEF ChannelInv, TypeOK
<1>4. UNCHANGED <<interrupt, tasks>>
    BY <1>1 DEF InvokeRequestHandler, AllocRequestData, ConcludeAlloc, FinishRequest
<1>5. Active' = Active /\ Queue' = Queue
    BY <1>4, SameMembers DEF interrupt
<1>6. \A func : TaskOf(func, p) \notin Queue'
    BY <1>2, <1>5, NotQueued
<1>7. running.task.func # "invokeRequestHandler" => ~ Doing("invokeRequestHandler", p)
    BY <1>5, <1>6 DEF Doing, TaskOf
<1>8. running' = None => ~ Doing("invokeRequestHandler", p)'
    BY <1>6 DEF Doing
<1>9. CASE InvokeRequestHandler /\ Doing("invokeRequestHandler", p)
    <2>1. /\ handling' = handling \cup {p} /\ setting' = setting /\ running' = None
          /\ req' = [req EXCEPT ![p] = req[p]]
        BY <1>1, <1>3, <1>9 DEF InvokeRequestHandler
    <2>2. Phase(p) = "submitted" /\ Phase(p)' = "handling"
        BY <1>3, <1>9, <2>1 DEF PhaseFits
    <2>3. handling' \ {p} = handling \ {p} /\ setting' \ {p} = setting \ {p}
        BY <2>1
    <2> QED BY <1>1, <1>2, <1>4, <2>1, <2>2, <2>3, WorkerServes
<1>10. CASE AllocRequestData /\ running.task.func = "allocRequestData"
    <2>1. PICK data \in {"none", "heap"} : req' = [req EXCEPT ![p].data = data]
        BY <1>1, <1>10 DEF AllocRequestData
    <2>2. /\ running' = [running EXCEPT !.step = "allocated"] /\ handling' = handling /\ setting' = setting
        BY <1>10 DEF AllocRequestData
    <2>3. running'.task = running.task /\ running' # None
        <3>1. running' \in Job /\ running'.task = running.task
            BY <1>1, <2>2 DEF Job
        <3> QED BY <3>1, NoneAssumption DEF NoneAssumption
    <2>4. req' = [req EXCEPT ![p] = req'[p]] /\ req'[p] \in Request /\ req'[p].state = req[p].state
        BY <1>3, <2>1 DEF Request
    <2>5. Doing("invokeRequestHandler", p)' <=> Doing("invokeRequestHandler", p)
        BY <1>1, <1>5, <2>3 DEF Doing, Taken
    <2>6. Phase(p)' = Phase(p)
        BY <1>5, <2>2, <2>4, <2>5, PhaseStays
    <2> QED BY <1>1, <1>4, <2>2, <2>3, <2>4, <2>6, WorkerServes
<1>11. CASE ConcludeAlloc /\ running.task.func = "allocRequestData" /\ Doing("allocRequestData", p)
    <2>1. /\ running' = None /\ handling' = handling /\ setting' = setting
          /\ req' = [req EXCEPT ![p] =
                 IF req[p].state # "ALLOC_PENDING" THEN Free
                 ELSE [req[p] EXCEPT !.state = IF req[p].data = "heap" THEN "RECV_PAYLOAD" ELSE "ALLOC_FAILED"]]
        BY <1>1, <1>11 DEF ConcludeAlloc
    <2>2. /\ req' = [req EXCEPT ![p] = req'[p]] /\ req'[p] \in Request
          /\ req[p].state = "ALLOC_PENDING" => req'[p].state \in {"RECV_PAYLOAD", "ALLOC_FAILED"}
          /\ req[p].state # "ALLOC_PENDING" => req'[p].state = "free"
        BY <1>3, <2>1 DEF Request, Free
    <2>3. req[p].state \in {"ALLOC_PENDING", "DONE"}
        BY <1>2, <1>11 DEF Purposeful
    <2>4. CASE req[p].state = "ALLOC_PENDING"
        <3>1. Phase(p) = "allocating" /\ Phase(p)' \in {"receiving", "done"}
            BY <1>3, <2>2, <2>4 DEF PhaseFits
        <3> QED BY <1>1, <1>4, <2>1, <2>2, <3>1, WorkerServes
    <2>5. CASE req[p].state # "ALLOC_PENDING"
        <3>1. Phase(p) = "done"
            BY <1>2, <1>3, <1>7, <1>11, <2>3, <2>5 DEF PhaseFits
        <3>2. Phase(p)' = "free"
            BY <1>3, <2>2, <2>5 DEF PhaseFits, Live
        <3> QED BY <1>1, <1>4, <2>1, <2>2, <3>1, <3>2, WorkerServes
    <2> QED BY <2>4, <2>5
<1>12. CASE FinishRequest /\ Doing("finishRequest", p) /\ running.task.func = "finishRequest"
    <2>1. /\ running' = None /\ handling' = handling /\ setting' = setting
          /\ req' = [req EXCEPT ![p] = Free]
        BY <1>1, <1>12 DEF FinishRequest, Finish
    <2>2. req' = [req EXCEPT ![p] = req'[p]] /\ req'[p] \in Request /\ req'[p].state = "free"
        BY <1>3, <2>1 DEF Free
    <2>3. p \notin Active
        BY <1>2, <1>12 DEF Purposeful
    <2>4. Phase(p) = "done"
        <3>1. req[p].state \in {"RECV_PAYLOAD", "ALLOC_FAILED", "DONE"}
            BY <1>2, <2>3 DEF Owned, InThread, Request, Live
        <3> QED BY <1>2, <1>3, <1>7, <1>12, <2>3, <3>1 DEF PhaseFits
    <2>5. Phase(p)' = "free"
        BY <1>3, <2>2 DEF PhaseFits, Live
    <2> QED BY <1>1, <1>4, <2>1, <2>2, <2>4, <2>5, WorkerServes
<1> QED BY <1>1, <1>9, <1>10, <1>11, <1>12

LEMMA TakeTaskServes ==
    ASSUME ChannelInv, TakeTask
    PROVE  ServiceStep
<1>1. /\ tasks \in Seq(Task) /\ Once(tasks) /\ tasks # <<>> /\ running = None
      /\ tasks' = Tail(tasks) /\ running' = [step |-> "taken", task |-> Head(tasks)]
      /\ UNCHANGED <<interrupt, req, handling, setting>>
    BY DEF ChannelInv, TypeOK, ListOK, TakeTask
<1>2. Head(tasks) \in Queue /\ Head(tasks) \in Task /\ Queue' = Queue \ {Head(tasks)}
    BY <1>1, QueueTail, HeadTailProperties DEF Queue
<1>3. running' # None /\ running'.task = Head(tasks)
    <2>1. running' \in Job /\ running'.task = Head(tasks)
        BY <1>1, <1>2 DEF Job
    <2> QED BY <2>1, NoneAssumption DEF NoneAssumption
<1>4. Active' = Active
    BY <1>1, SameMembers DEF interrupt
<1>5. \A o \in Obj : Doing("invokeRequestHandler", o)' <=> Doing("invokeRequestHandler", o)
    BY <1>1, <1>2, <1>3 DEF Doing
<1> QED BY <1>1, <1>4, <1>5, PhaseStays, PhasesStay

LEMMA HandlerServes ==
    ASSUME ChannelInv, ChannelInv', NEW p \in Obj, Handler(p)
    PROVE  ServiceStep
<1>1. p \in handling \cup setting
    BY DEF Handler, AllocReplyData, FreeRequestData, SetResult, ConcludeResult
<1>2. PhaseFits(p) /\ PhaseFits(p)' /\ req \in [Obj -> Request] /\ req' \in [Obj -> Request]
    BY PhasesFit, PhasesFitNext DEF ChannelInv, TypeOK
<1>3. ~ Queued(p) /\ ~ Taken(p) /\ Purposeful(p) /\ Phase(p) = "handling"
      /\ (p \in handling => p \notin setting) /\ (p \in setting => p \notin handling)
    BY <1>1, <1>2, AtHand DEF PhaseFits
<1>4. UNCHANGED <<interrupt, tasks, running>>
    BY DEF Handler, AllocReplyData, FreeRequestData, SetResult, ConcludeResult, threads
<1>5. ~ Doing("invokeRequestHandler", p)'
    <2>1. Active' = Active /\ Queue' = Queue
        BY <1>4, SameMembers DEF interrupt
    <2>2. running' # None => running'.task.req # p
        BY <1>3, <1>4 DEF Taken
    <2> QED BY <1>3, <1>4, <2>1, <2>2, NotQueued DEF Doing, TaskOf
<1>6. /\ req' = [req EXCEPT ![p] = req'[p]] /\ req'[p] \in Request
      /\ handling' \ {p} = handling \ {p} /\ setting' \ {p} = setting \ {p}
    <2>1. \E r : req' = [req EXCEPT ![p] = r]
        BY <1>2 DEF Handler, AllocReplyData, FreeRequestData, SetResult, ConcludeResult, Finish
    <2>2. handling' \ {p} = handling \ {p} /\ setting' \ {p} = setting \ {p}
        BY DEF Handler, AllocReplyData, FreeRequestData, SetResult, ConcludeResult, threads
    <2> QED BY <1>2, <2>1, <2>2
<1>7. Phase(p)' \in {"handling", "done", "free"}
    <2>1. CASE ~ ConcludeResult(p)
        <3>1. p \in handling' \cup setting'
            BY <1>1, <2>1 DEF Handler, AllocReplyData, FreeRequestData, SetResult, threads
        <3> QED BY <1>2, <3>1 DEF PhaseFits
    <2>2. CASE ConcludeResult(p)
        <3>1. p \notin handling' \cup setting'
            BY <1>3, <2>2 DEF ConcludeResult
        <3>2. req'[p].state \in {"DONE", "free"}
            BY <1>2, <2>2 DEF ConcludeResult, Finish, Free, Request
        <3> QED BY <1>2, <1>5, <3>1, <3>2 DEF PhaseFits, Live
    <2> QED BY <2>1, <2>2
<1> QED BY <1>3, <1>4, <1>6, <1>7, WorkerServes

LEMMA NextServes == ChannelInv /\ ChannelInv' /\ [Next]_vars => ServiceStep
<1> SUFFICES ASSUME ChannelInv, ChannelInv', [Next]_vars PROVE ServiceStep
    OBVIOUS
<1>1. CASE Host \/ Bus
    BY <1>1, HostServes, SendRequestServes DEF Bus
<1>2. CASE SystemThread
    BY <1>2, TakeTaskServes, TakenServes DEF SystemThread
<1>3. CASE \E o \in Obj : Handler(o)
    BY <1>3, HandlerServes
<1>4. CASE UNCHANGED vars
    <2>1. UNCHANGED <<req, active, tasks, running, handling, setting>> /\ Active' = Active
        BY <1>4, SameMembers DEF vars
    <2>2. \A o \in Obj : Doing("invokeRequestHandler", o)' <=> Doing("invokeRequestHandler", o)
        BY <2>1 DEF Doing, Queue, Members
    <2> QED BY <2>1, <2>2, PhaseStays, PhasesStay
<1> QED BY <1>1, <1>2, <1>3, <1>4 DEF Next

\* Every request is given to its handler exactly once, after its payload, and is left to the
\* handler until that concludes it: whatever the host repeats, cancels or resets meanwhile,
\* and also if it gives up transfers, the channel implements the abstract service.
THEOREM RequestsHandledOnce == Spec => ImplementsService
<1>1. Init => Service!Init
    BY DEF Init, Service!Init, Phase, Live, Free
<1> QED BY <1>1, InitInv, NextInv, NextServes, PTL DEF Spec, ImplementsService, Service!Spec, ServiceStep

=============================================================================
