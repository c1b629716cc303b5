------------------------ MODULE NotificationsProofs ------------------------
(* The event bus, the failure counts of jobs and the notification engine, for   *)
(* any number of publishers, browsers, rules and channels and any buffers.      *)
EXTENDS Notifications, SequenceTheorems, TLAPS

-----------------------------------------------------------------------------
(* Failure counts *)

Ends == [at : {"running", "read", "written"}, failed : BOOLEAN, count : Nat]

(* Until two ends of the job overlap, nobody writes between a read and the      *)
(* write that follows it: whoever has read the count holds what is stored, or   *)
(* none when the read failed.                                                   *)
JobInv ==
    /\ failures \in Nat /\ failedRuns \in Nat /\ streak \in Nat
    /\ overlapped \in BOOLEAN /\ misread \in BOOLEAN
    /\ ending \in [Runners -> Ends]
    /\ FailureCountSound
    /\ \A r \in Runners : ending[r].at = "written" /\ ending[r].failed => ending[r].count + 1 <= failedRuns
    /\ \A r \in Runners : ~overlapped /\ ending[r].at = "read" =>
          /\ ending[r].count <= failures /\ (~misread => ending[r].count = failures)
          /\ \A q \in Runners : ending[q].at = "read" => q = r

JobMove ==
    \/ \E r \in Runners :
          ReadFailures(r) \/ WriteJobState(r) \/ FailToWriteJobState(r) \/ PublishJobRun(r)
    \/ JobRestart

LEMMA JobMoves ==
    ASSUME [Next]_vars
    PROVE  JobMove \/ UNCHANGED jobVars
<1>1. CASE Next
    <2>1. CASE BusStep
        BY <2>1 DEF BusStep
    <2>2. CASE JobStep
        BY <2>2 DEF JobStep, JobMove
    <2>3. CASE EditStep
        BY <2>3 DEF EditStep, SaveNotificationChannel, DeleteNotificationChannel, StartTest,
                    SaveNotificationRule, DeleteNotificationRule, Edited
    <2>4. CASE EngineWorks
        BY <2>4 DEF EngineWorks, Receive, ListEnabledNotificationRules, AttachNotificationRuleChannels,
                    SendStep, GetNotificationChannelForSend, CreateNotificationDelivery, Send,
                    UpdateNotificationDelivery, PublishDelivered, AfterPublish, EngineStep
    <2>5. CASE SendStep(Tester)
        BY <2>5 DEF SendStep, GetNotificationChannelForSend, CreateNotificationDelivery, Send,
                    UpdateNotificationDelivery, PublishDelivered, AfterPublish, EngineStep
    <2>6. CASE Restart
        BY <2>6 DEF Restart, JobMove
    <2>7. CASE \E a \in Senders : StoreFails(a)
        BY <2>7 DEF StoreFails
    <2> QED
        BY <1>1, <2>1, <2>2, <2>3, <2>4, <2>5, <2>6, <2>7 DEF Next
<1>2. CASE UNCHANGED vars
    BY <1>2 DEF vars
<1> QED
    BY <1>1, <1>2

LEMMA JobStart == Init => JobInv
<1> SUFFICES ASSUME Init PROVE JobInv
    OBVIOUS
<1>1. ending \in [Runners -> Ends] /\ \A r \in Runners : ending[r].at = "running"
    BY DEF Init, JobInit, Ends, Running
<1>2. failures = 0 /\ failedRuns = 0 /\ streak = 0
    BY DEF Init, JobInit
<1>3. overlapped \in BOOLEAN /\ misread \in BOOLEAN
    BY DEF Init, JobInit
<1>4. FailureCountSound
    BY <1>1, <1>2 DEF FailureCountSound
<1> QED
    BY <1>1, <1>2, <1>3, <1>4 DEF JobInv

LEMMA JobReads ==
    ASSUME JobInv, NEW r \in Runners, ReadFailures(r)
    PROVE  JobInv'
<1>1. PICK failed \in BOOLEAN, count \in FailuresRead :
          /\ ending' = [ending EXCEPT ![r] = [at |-> "read", failed |-> failed, count |-> count]]
          /\ misread' = (misread \/ count # failures)
    BY DEF ReadFailures
<1>2. count \in Nat /\ count <= failures
    BY DEF FailuresRead, JobInv
<1>3. ending' \in [Runners -> Ends]
    BY <1>1, <1>2 DEF JobInv, Ends
<1>4. \A q \in Runners : ending'[q] = IF q = r THEN [at |-> "read", failed |-> failed, count |-> count]
                                      ELSE ending[q]
    BY <1>1 DEF JobInv
<1>5. UNCHANGED <<failures, failedRuns, streak>>
    BY DEF ReadFailures
<1>6. overlapped' \in BOOLEAN /\ misread' \in BOOLEAN /\ (~misread' => ~misread /\ count = failures)
    BY <1>1 DEF ReadFailures, JobInv
<1>7. ~overlapped' => ~overlapped /\ \A q \in Runners : ending[q].at # "read"
    BY DEF ReadFailures
<1>8. count <= failedRuns
    BY <1>2 DEF JobInv, FailureCountSound
<1>9. FailureCountSound'
    BY <1>4, <1>5, <1>6, <1>7, <1>8 DEF JobInv, FailureCountSound
<1>10. \A q \in Runners : ending'[q].at = "written" /\ ending'[q].failed => ending'[q].count + 1 <= failedRuns'
    BY <1>4, <1>5 DEF JobInv
<1>11. \A q \in Runners : ~overlapped' /\ ending'[q].at = "read" =>
           q = r /\ ending'[q].count <= failures' /\ (~misread' => ending'[q].count = failures')
    BY <1>2, <1>4, <1>5, <1>6, <1>7
<1> QED
    BY <1>3, <1>5, <1>6, <1>9, <1>10, <1>11 DEF JobInv

LEMMA JobWrites ==
    ASSUME JobInv, NEW r \in Runners, WriteJobState(r)
    PROVE  JobInv'
<1>1. PICK w : w = IF ending[r].failed \/ ending[r].count > 0 THEN [ending[r] EXCEPT !.at = "written"] ELSE Running
    OBVIOUS
<1>2. ending' = [ending EXCEPT ![r] = w]
    BY <1>1 DEF WriteJobState
<1>3. /\ w \in Ends /\ w.at # "read"
      /\ w.at = "written" => w.failed = ending[r].failed /\ w.count = ending[r].count
    BY <1>1 DEF JobInv, Ends, Running
<1>4. ending' \in [Runners -> Ends] /\ \A q \in Runners : ending'[q] = IF q = r THEN w ELSE ending[q]
    BY <1>2, <1>3 DEF JobInv
<1>5. ending[r] \in Ends /\ ending[r].count <= failedRuns
    BY DEF JobInv, WriteJobState, FailureCountSound
<1>6. /\ failures' = (IF ending[r].failed THEN ending[r].count + 1 ELSE 0)
      /\ failedRuns' = (IF ending[r].failed THEN failedRuns + 1 ELSE failedRuns)
      /\ streak' = (IF ending[r].failed THEN streak + 1 ELSE 0)
      /\ overlapped' = overlapped /\ misread' = misread
    BY DEF WriteJobState, NextFailures
<1>7. failures' \in Nat /\ failedRuns' \in Nat /\ streak' \in Nat /\ failures' <= failedRuns' /\ failedRuns <= failedRuns'
    BY <1>5, <1>6 DEF JobInv, Ends
<1>8. ~overlapped => failures' <= streak' /\ (~misread => failures' = streak')
    <2>1. ~overlapped => /\ ending[r].count <= failures /\ (~misread => ending[r].count = failures)
                         /\ failures <= streak /\ (~misread => failures = streak)
        BY DEF JobInv, WriteJobState, FailureCountSound
    <2>2. ending[r].count \in Nat /\ failures \in Nat /\ streak \in Nat
        BY <1>5 DEF JobInv, Ends
    <2> QED
        BY <1>6, <2>1, <2>2
<1>9. FailureCountSound'
    BY <1>3, <1>4, <1>6, <1>7, <1>8 DEF JobInv, Ends, FailureCountSound
<1>10. \A q \in Runners : ending'[q].at = "written" /\ ending'[q].failed => ending'[q].count + 1 <= failedRuns'
    BY <1>3, <1>4, <1>5, <1>6, <1>7 DEF JobInv, Ends
<1>11. \A q \in Runners : ~overlapped => ending'[q].at # "read"
    BY <1>3, <1>4 DEF JobInv, WriteJobState
<1> QED
    BY <1>4, <1>6, <1>7, <1>9, <1>10, <1>11 DEF JobInv

LEMMA JobStays ==
    ASSUME JobInv, UNCHANGED <<failures, failedRuns, streak, overlapped, misread>>,
           \A r \in Runners : ending'[r] = ending[r] \/ ending'[r] = Running,
           ending' \in [Runners -> Ends]
    PROVE  JobInv'
BY DEF JobInv, FailureCountSound, Running

LEMMA JobKept ==
    ASSUME JobInv, [Next]_vars
    PROVE  JobInv'
<1>0. Running \in Ends
    BY DEF Running, Ends
<1>1. ASSUME NEW r \in Runners, ReadFailures(r) PROVE JobInv'
    BY <1>1, JobReads
<1>2. ASSUME NEW r \in Runners, WriteJobState(r) PROVE JobInv'
    BY <1>2, JobWrites
<1>3. ASSUME NEW r \in Runners, FailToWriteJobState(r) \/ PublishJobRun(r) PROVE JobInv'
    <2>1. ending' = [ending EXCEPT ![r] = Running] /\ UNCHANGED <<failures, failedRuns, streak, overlapped, misread>>
        BY <1>3 DEF FailToWriteJobState, PublishJobRun
    <2>2. ending' \in [Runners -> Ends] /\ \A q \in Runners : ending'[q] = ending[q] \/ ending'[q] = Running
        BY <2>1, <1>0 DEF JobInv
    <2> QED
        BY <2>1, <2>2, JobStays
<1>4. CASE JobRestart
    <2>1. ending' \in [Runners -> Ends] /\ \A q \in Runners : ending'[q] = Running
        BY <1>4, <1>0 DEF JobRestart
    <2> QED
        BY <1>4, <2>1, JobStays DEF JobRestart
<1>5. CASE UNCHANGED jobVars
    BY <1>5 DEF jobVars, JobInv, FailureCountSound
<1> QED
    BY <1>1, <1>2, <1>3, <1>4, <1>5, JobMoves DEF JobMove

LEMMA JobAlways == Spec => []JobInv
<1> QED
    BY JobStart, JobKept, PTL DEF Spec

(* However many runs of a job end at once and whatever reads fail: the stored   *)
(* count of failures in a row never exceeds the failed runs there have been;    *)
(* until two ends overlap it is at most the streak, and the streak itself until *)
(* a read fails (RecordJobRunWithOutcome).                                      *)
THEOREM CountsAreSound == Spec => []FailureCountSound
<1>1. JobInv => FailureCountSound
    BY DEF JobInv
<1> QED
    BY <1>1, JobAlways, PTL

-----------------------------------------------------------------------------
(* The bus *)

Kinds == {"worker_failed", "worker_recovered", "notification"}
Events == [from : Publishers, at : Nat, type : Kinds, failures : Nat]
Held == [event : Events \cup {NoEvent}, left : SUBSET Subscribers]

(* What a channel holds: stamps c at most, and later than t says was taken. *)
Ordered(q, t, c) ==
    \A i \in 1 .. Len(q) :
        /\ q[i].at <= c /\ t[q[i].from] < q[i].at
        /\ \A j \in 1 .. i - 1 : q[j].from = q[i].from => q[j].at < q[i].at

Counted(q, n) == \A i \in 1 .. Len(q) : q[i].failures <= n

(* An event still to be offered is later than all its publisher has sent before. *)
LaterThan(q, e) == \A i \in 1 .. Len(q) : q[i].from = e.from => q[i].at < e.at

BusTypes ==
    /\ clock \in Nat
    /\ DOMAIN queue \subseteq Subscribers
    /\ queue \in [DOMAIN queue -> Seq(Events)]
    /\ sending \in [Publishers -> Held]
    /\ taken \in [Subscribers -> [Publishers -> Nat]]

BusInv ==
    /\ BusTypes
    /\ \A s \in DOMAIN queue :
          /\ Len(queue[s]) <= Buffer(s)
          /\ Ordered(queue[s], taken[s], clock)
          /\ Counted(queue[s], failedRuns)
    /\ \A s \in Subscribers, p \in Publishers : taken[s][p] <= clock
    /\ \A p \in Publishers : sending[p].left # {} =>
          /\ sending[p].left \subseteq DOMAIN queue
          /\ sending[p].event \in Events /\ sending[p].event.from = p
          /\ sending[p].event.at <= clock /\ sending[p].event.failures <= failedRuns
          /\ \A s \in sending[p].left :
                taken[s][p] < sending[p].event.at /\ LaterThan(queue[s], sending[p].event)

BusMove ==
    \/ \E b \in Browsers : Subscribe(b) \/ Unsubscribe(b)
    \/ \E s \in Subscribers : Take(s)
    \/ \E p \in Publishers, s \in Subscribers : Offer(p, s)
    \/ \E p \in Publishers, k \in Kinds, n \in 0 .. failedRuns : Publish(p, k, n)
    \/ BusRestart

LEMMA BusMoves ==
    ASSUME JobInv, [Next]_vars
    PROVE  BusMove \/ UNCHANGED busVars
<1>0. Engine \in Subscribers /\ Senders \subseteq Publishers /\ User \in Publishers /\ Runners \subseteq Publishers
    BY EngineAssumption, SendersAssumption, RunnersAssumption DEF Subscribers, Senders
<1>1. CASE BusStep
    BY <1>1 DEF BusStep, BusMove, Subscribers
<1>2. CASE JobStep
    <2>1. PICK r \in Runners :
              ReadFailures(r) \/ WriteJobState(r) \/ FailToWriteJobState(r) \/ PublishJobRun(r)
        BY <1>2 DEF JobStep
    <2>2. CASE PublishJobRun(r)
        <3>1. NextFailures(ending[r]) \in 0 .. failedRuns
            BY <2>2 DEF JobInv, Ends, NextFailures, PublishJobRun
        <3>2. PICK k \in Kinds : Publish(r, k, NextFailures(ending[r]))
            BY <2>2 DEF PublishJobRun, Kinds
        <3> QED
            BY <1>0, <3>1, <3>2 DEF BusMove
    <2> QED
        BY <2>1, <2>2 DEF ReadFailures, WriteJobState, FailToWriteJobState, busVars
<1>3. CASE EditStep
    <2>0. 0 \in 0 .. failedRuns /\ "notification" \in Kinds
        BY DEF JobInv, Kinds
    <2>1. Edited \/ UNCHANGED busVars
        BY <1>3 DEF EditStep, SaveNotificationChannel, DeleteNotificationChannel, StartTest,
                    SaveNotificationRule, DeleteNotificationRule
    <2> QED
        BY <1>0, <2>0, <2>1 DEF Edited, BusMove
<1>4. ASSUME NEW a \in Senders, SendStep(a) PROVE BusMove \/ UNCHANGED busVars
    <2>0. 0 \in 0 .. failedRuns /\ "notification" \in Kinds /\ a \in Publishers
        BY <1>0 DEF JobInv, Kinds
    <2>1. Publish(a, "notification", 0) \/ UNCHANGED busVars
        BY <1>4 DEF SendStep, GetNotificationChannelForSend, CreateNotificationDelivery, Send,
                    UpdateNotificationDelivery, PublishDelivered, AfterPublish
    <2> QED
        BY <2>0, <2>1 DEF BusMove
<1>5. CASE EngineWorks
    BY <1>0, <1>4, <1>5 DEF EngineWorks, Receive, ListEnabledNotificationRules,
                            AttachNotificationRuleChannels, Senders, BusMove
<1>6. CASE Restart
    BY <1>6 DEF Restart, BusMove
<1>7. CASE \E a \in Senders : StoreFails(a)
    BY <1>7 DEF StoreFails
<1>8. CASE UNCHANGED vars
    BY <1>8 DEF vars
<1> QED
    BY <1>1, <1>2, <1>3, <1>4, <1>5, <1>6, <1>7, <1>8 DEF Next, Senders

LEMMA RunsOnlyGrow ==
    ASSUME JobInv, [Next]_vars
    PROVE  failedRuns <= failedRuns'
<1>1. JobMove \/ UNCHANGED jobVars
    BY JobMoves
<1>2. failedRuns' = failedRuns \/ failedRuns' = failedRuns + 1
    BY <1>1 DEF JobMove, jobVars, ReadFailures, WriteJobState, FailToWriteJobState, PublishJobRun, JobRestart
<1> QED
    BY <1>2 DEF JobInv

LEMMA Appended ==
    ASSUME NEW q \in Seq(Events), NEW e \in Events, NEW t \in [Publishers -> Nat], NEW c \in Nat, NEW n \in Nat,
           Ordered(q, t, c), Counted(q, n), e.at <= c, t[e.from] < e.at, LaterThan(q, e), e.failures <= n
    PROVE  /\ Append(q, e) \in Seq(Events) /\ Len(Append(q, e)) = Len(q) + 1
           /\ Ordered(Append(q, e), t, c) /\ Counted(Append(q, e), n)
           /\ \A f \in Events : LaterThan(q, f) /\ e.from # f.from => LaterThan(Append(q, e), f)
<1>1. PICK r : r = Append(q, e)
    OBVIOUS
<1>2. /\ r \in Seq(Events) /\ Len(r) = Len(q) + 1 /\ Len(q) \in Nat
      /\ \A i \in 1 .. Len(q) : r[i] = q[i]
      /\ r[Len(q) + 1] = e
    BY <1>1, AppendProperties, LenProperties
<1>3. \A i \in 1 .. Len(r) : i \in 1 .. Len(q) \/ i = Len(q) + 1
    BY <1>2
<1>4. Ordered(r, t, c)
    BY <1>2, <1>3 DEF Ordered, LaterThan
<1>5. Counted(r, n)
    BY <1>2, <1>3 DEF Counted
<1>6. \A f \in Events : LaterThan(q, f) /\ e.from # f.from => LaterThan(r, f)
    BY <1>2, <1>3 DEF LaterThan
<1> QED
    BY <1>1, <1>2, <1>4, <1>5, <1>6

LEMMA Taken ==
    ASSUME NEW q \in Seq(Events), q # <<>>, NEW t \in [Publishers -> Nat], NEW c \in Nat, NEW n \in Nat,
           Ordered(q, t, c), Counted(q, n)
    PROVE  /\ Head(q) \in Events /\ Head(q).at <= c /\ Head(q).failures <= n
           /\ Tail(q) \in Seq(Events) /\ Len(Tail(q)) = Len(q) - 1
           /\ Ordered(Tail(q), [t EXCEPT ![Head(q).from] = Head(q).at], c) /\ Counted(Tail(q), n)
           /\ \A f \in Events : LaterThan(q, f) =>
                 LaterThan(Tail(q), f) /\ (f.from = Head(q).from => Head(q).at < f.at)
<1>1. PICK r, h : r = Tail(q) /\ h = Head(q)
    OBVIOUS
<1>2. /\ h \in Events /\ r \in Seq(Events) /\ Len(q) \in Nat \ {0} /\ Len(r) = Len(q) - 1
      /\ \A i \in 1 .. Len(r) : r[i] = q[i + 1]
    BY <1>1, HeadTailProperties, EmptySeq
<1>3. h = q[1]
    BY <1>1
<1>4. \A i \in 1 .. Len(r) : i + 1 \in 1 .. Len(q) /\ q[i + 1] \in Events /\ \A j \in 1 .. i - 1 : j + 1 \in 1 .. (i + 1) - 1
    BY <1>2, ElementOfSeq
<1>5. Ordered(r, [t EXCEPT ![h.from] = h.at], c)
    <2> SUFFICES ASSUME NEW i \in 1 .. Len(r)
                 PROVE  /\ r[i].at <= c /\ [t EXCEPT ![h.from] = h.at][r[i].from] < r[i].at
                        /\ \A j \in 1 .. i - 1 : r[j].from = r[i].from => r[j].at < r[i].at
        BY DEF Ordered
    <2>1. PICK k : k = i + 1 /\ k \in 1 .. Len(q) /\ r[i] = q[k] /\ q[k] \in Events /\ k \in Int /\ i \in Int
        BY <1>2, <1>4
    <2>2. q[k].at <= c /\ t[q[k].from] < q[k].at
        BY <2>1 DEF Ordered
    <2>3. h.from = q[k].from => h.at < q[k].at
        <3>1. 1 \in 1 .. k - 1
            BY <2>1, <1>2
        <3> QED
            BY <1>3, <2>1, <3>1 DEF Ordered
    <2>4. \A j \in 1 .. i - 1 : r[j].from = r[i].from => r[j].at < r[i].at
        <3> SUFFICES ASSUME NEW j \in 1 .. i - 1, r[j].from = r[i].from PROVE r[j].at < r[i].at
            OBVIOUS
        <3>1. PICK l : l = j + 1 /\ l \in 1 .. k - 1 /\ r[j] = q[l]
            BY <1>2, <2>1
        <3> QED
            BY <2>1, <3>1 DEF Ordered
    <2>5. [t EXCEPT ![h.from] = h.at][q[k].from] < q[k].at
        BY <2>1, <2>2, <2>3 DEF Events
    <2> QED
        BY <2>1, <2>2, <2>4, <2>5
<1>6. Counted(r, n)
    BY <1>2, <1>4 DEF Counted
<1>7. h.at <= c /\ h.failures <= n
    <2>1. 1 \in 1 .. Len(q)
        BY <1>2
    <2> QED
        BY <1>3, <2>1 DEF Ordered, Counted
<1>8. \A f \in Events : LaterThan(q, f) => LaterThan(r, f) /\ (f.from = h.from => h.at < f.at)
    <2>1. 1 \in 1 .. Len(q)
        BY <1>2
    <2> QED
        BY <1>2, <1>3, <1>4, <2>1 DEF LaterThan
<1> QED
    BY <1>1, <1>2, <1>5, <1>6, <1>7, <1>8

LEMMA BusStart == Init => BusInv
<1> SUFFICES ASSUME Init PROVE BusInv
    OBVIOUS
<1>1. /\ DOMAIN queue = {Engine} /\ queue \in [{Engine} -> Seq(Events)] /\ queue[Engine] = <<>>
      /\ \A p \in Publishers : sending[p] = Quiet
      /\ \A s \in Subscribers, p \in Publishers : taken[s][p] = 0
      /\ clock = 0
    BY EmptySeq DEF Init, BusInit, NothingTaken
<1>2. BusTypes
    BY <1>1 DEF BusTypes, Init, BusInit, Subscribers, NothingTaken, Quiet, Held
<1>3. Len(queue[Engine]) = 0 /\ Len(queue[Engine]) <= Buffer(Engine)
    BY <1>1, BufferAssumption DEF Buffer
<1>4. Engine \in Subscribers
    BY DEF Subscribers
<1> QED
    BY <1>1, <1>2, <1>3, <1>4 DEF BusInv, Ordered, Counted, Quiet

LEMMA BusRests ==
    ASSUME BusInv, UNCHANGED busVars, failedRuns \in Nat, failedRuns' \in Nat, failedRuns <= failedRuns'
    PROVE  BusInv'
<1>1. UNCHANGED <<queue, sending, clock, taken>>
    BY DEF busVars
<1>2. BusTypes'
    BY <1>1 DEF BusInv, BusTypes
<1>3. \A s \in DOMAIN queue : Counted(queue[s], failedRuns')
    <2> SUFFICES ASSUME NEW s \in DOMAIN queue, NEW i \in 1 .. Len(queue[s]) PROVE queue[s][i].failures <= failedRuns'
        BY DEF Counted
    <2>1. queue[s] \in Seq(Events)
        BY DEF BusInv, BusTypes
    <2>2. queue[s][i] \in Events
        BY <2>1, ElementOfSeq
    <2> QED
        BY <2>2 DEF BusInv, Counted, Events
<1>4. \A p \in Publishers : sending[p].left # {} => sending[p].event.failures <= failedRuns'
    BY DEF BusInv, Events
<1> QED
    BY <1>1, <1>2, <1>3, <1>4 DEF BusInv

LEMMA Unlocked ==
    ASSUME BusInv, ~Locked
    PROVE  \A p \in Publishers : sending[p].left = {}
BY DEF Locked, Quiet

LEMMA BusSubscribes ==
    ASSUME BusInv, NEW b \in Browsers, Subscribe(b), failedRuns' = failedRuns
    PROVE  BusInv'
<1>1. \A p \in Publishers : sending'[p].left = {}
    BY Unlocked DEF Subscribe
<1>2. /\ DOMAIN queue' = DOMAIN queue \cup {b}
      /\ \A s \in DOMAIN queue' : queue'[s] = IF s = b THEN <<>> ELSE queue[s]
      /\ UNCHANGED <<sending, clock, taken>>
    BY DEF Subscribe
<1>3. <<>> \in Seq(Events) /\ Len(<<>>) = 0
    BY EmptySeq
<1>4. queue' \in [DOMAIN queue' -> Seq(Events)]
    BY <1>2, <1>3 DEF Subscribe, BusInv, BusTypes
<1>5. BusTypes'
    BY <1>2, <1>4 DEF BusInv, BusTypes, Subscribers
<1>6. 0 <= Buffer(b)
    BY BufferAssumption DEF Buffer
<1>7. \A s \in DOMAIN queue' : /\ Len(queue'[s]) <= Buffer(s)
                              /\ Ordered(queue'[s], taken'[s], clock') /\ Counted(queue'[s], failedRuns')
    BY <1>2, <1>3, <1>6 DEF BusInv, Ordered, Counted
<1> QED
    BY <1>1, <1>2, <1>5, <1>7 DEF BusInv

LEMMA BusUnsubscribes ==
    ASSUME BusInv, NEW b \in Browsers, Unsubscribe(b), failedRuns' = failedRuns
    PROVE  BusInv'
<1>1. \A p \in Publishers : sending'[p].left = {}
    BY Unlocked DEF Unsubscribe
<1>2. /\ DOMAIN queue' = DOMAIN queue \ {b} /\ b \in Subscribers
      /\ \A s \in DOMAIN queue' : queue'[s] = queue[s]
      /\ \A s \in Subscribers : taken'[s] = IF s = b THEN NothingTaken ELSE taken[s]
      /\ UNCHANGED <<sending, clock>>
    BY DEF Unsubscribe, BusInv, BusTypes, Subscribers
<1>3. queue' \in [DOMAIN queue' -> Seq(Events)]
    BY <1>2 DEF Unsubscribe, BusInv, BusTypes
<1>4. NothingTaken \in [Publishers -> Nat] /\ \A p \in Publishers : NothingTaken[p] = 0
    BY DEF NothingTaken
<1>5. taken' \in [Subscribers -> [Publishers -> Nat]]
    BY <1>4 DEF Unsubscribe, BusInv, BusTypes
<1>6. BusTypes'
    BY <1>2, <1>3, <1>5 DEF BusInv, BusTypes
<1>7. \A s \in Subscribers, p \in Publishers : taken'[s][p] <= clock'
    <2> SUFFICES ASSUME NEW s \in Subscribers, NEW p \in Publishers PROVE taken'[s][p] <= clock
        BY <1>2
    <2>1. 0 <= clock /\ taken[s][p] <= clock
        BY DEF BusInv, BusTypes
    <2>2. taken'[s][p] = IF s = b THEN 0 ELSE taken[s][p]
        BY <1>2, <1>4
    <2> QED
        BY <2>1, <2>2
<1>8. \A s \in DOMAIN queue' : s \in DOMAIN queue /\ queue'[s] = queue[s] /\ taken'[s] = taken[s]
    BY <1>2 DEF BusInv, BusTypes
<1>9. \A s \in DOMAIN queue' : /\ Len(queue'[s]) <= Buffer(s)
                              /\ Ordered(queue'[s], taken'[s], clock') /\ Counted(queue'[s], failedRuns')
    BY <1>2, <1>8 DEF BusInv
<1> QED
    BY <1>1, <1>6, <1>7, <1>9 DEF BusInv

LEMMA BusPublishes ==
    ASSUME BusInv, JobInv, NEW p \in Publishers, NEW k \in Kinds, NEW n \in 0 .. failedRuns, Publish(p, k, n),
           failedRuns' = failedRuns
    PROVE  BusInv'
<1>1. PICK e : e = Event(p, k, n)
    OBVIOUS
<1>2. e \in Events /\ e.from = p /\ e.at = clock + 1 /\ e.failures <= failedRuns
    BY <1>1 DEF Event, Events, BusInv, BusTypes, JobInv
<1>3. PICK w : w = IF DOMAIN queue = {} THEN Quiet ELSE [event |-> e, left |-> DOMAIN queue]
    OBVIOUS
<1>4. /\ w \in Held /\ w.left \subseteq DOMAIN queue
      /\ w.left # {} => w.event = e
    BY <1>2, <1>3 DEF Held, Quiet, BusInv, BusTypes
<1>5. /\ \A q \in Publishers : sending'[q] = IF q = p THEN w ELSE sending[q]
      /\ sending' \in [Publishers -> Held]
      /\ UNCHANGED <<queue, taken>> /\ clock' = clock + 1
    BY <1>1, <1>3, <1>4 DEF Publish, BusInv, BusTypes
<1>6. BusTypes'
    BY <1>5 DEF BusInv, BusTypes
<1>7. \A s \in DOMAIN queue : \A i \in 1 .. Len(queue[s]) : queue[s][i] \in Events /\ queue[s][i].at <= clock
    BY ElementOfSeq DEF BusInv, BusTypes, Ordered
<1>8. \A s \in DOMAIN queue : Ordered(queue'[s], taken'[s], clock')
    <2> SUFFICES ASSUME NEW s \in DOMAIN queue PROVE Ordered(queue[s], taken[s], clock + 1)
        BY <1>5
    <2>1. Ordered(queue[s], taken[s], clock) /\ clock \in Nat
        BY DEF BusInv, BusTypes
    <2>2. \A i \in 1 .. Len(queue[s]) : queue[s][i].at <= clock + 1
        BY <1>7, <2>1 DEF Events
    <2> QED
        BY <2>1, <2>2 DEF Ordered
<1>9. \A s \in Subscribers, q \in Publishers : taken'[s][q] <= clock'
    BY <1>5 DEF BusInv, BusTypes
<1>10. \A s \in w.left : taken'[s][p] < e.at /\ LaterThan(queue'[s], e)
    BY <1>2, <1>4, <1>5, <1>7 DEF BusInv, BusTypes, LaterThan, Events
<1>11. \A q \in Publishers : sending'[q].left # {} =>
          /\ sending'[q].left \subseteq DOMAIN queue'
          /\ sending'[q].event \in Events /\ sending'[q].event.from = q
          /\ sending'[q].event.at <= clock' /\ sending'[q].event.failures <= failedRuns'
          /\ \A s \in sending'[q].left :
                taken'[s][q] < sending'[q].event.at /\ LaterThan(queue'[s], sending'[q].event)
    <2> SUFFICES ASSUME NEW q \in Publishers, sending'[q].left # {}
                 PROVE  /\ sending'[q].left \subseteq DOMAIN queue'
                        /\ sending'[q].event \in Events /\ sending'[q].event.from = q
                        /\ sending'[q].event.at <= clock' /\ sending'[q].event.failures <= failedRuns'
                        /\ \A s \in sending'[q].left :
                              taken'[s][q] < sending'[q].event.at /\ LaterThan(queue'[s], sending'[q].event)
        OBVIOUS
    <2>1. CASE q = p
        BY <1>2, <1>4, <1>5, <1>10, <2>1 DEF BusInv, BusTypes
    <2>2. CASE q # p
        <3>1. sending[q].event \in Events /\ sending[q].event.at <= clock
            BY <1>5, <2>2 DEF BusInv
        <3>2. sending'[q].event.at <= clock'
            BY <1>5, <2>2, <3>1 DEF BusInv, BusTypes, Events
        <3> QED
            BY <1>5, <2>2, <3>2 DEF BusInv
    <2> QED
        BY <2>1, <2>2
<1> QED
    BY <1>5, <1>6, <1>8, <1>9, <1>11 DEF BusInv

LEMMA BusTakes ==
    ASSUME BusInv, JobInv, NEW s \in Subscribers, Take(s), failedRuns' = failedRuns
    PROVE  BusInv'
<1>1. PICK q, h, t : q = queue[s] /\ h = Head(queue[s]) /\ t = [taken[s] EXCEPT ![h.from] = h.at]
    OBVIOUS
<1>2. /\ s \in DOMAIN queue /\ q \in Seq(Events) /\ q # <<>> /\ taken[s] \in [Publishers -> Nat]
      /\ clock \in Nat /\ failedRuns \in Nat /\ Ordered(q, taken[s], clock) /\ Counted(q, failedRuns)
    BY <1>1 DEF Take, BusInv, BusTypes, JobInv
<1>3. /\ h \in Events /\ h.at <= clock
      /\ Tail(q) \in Seq(Events) /\ Len(Tail(q)) = Len(q) - 1
      /\ Ordered(Tail(q), t, clock) /\ Counted(Tail(q), failedRuns)
      /\ \A f \in Events : LaterThan(q, f) => LaterThan(Tail(q), f) /\ (f.from = h.from => h.at < f.at)
    BY <1>1, <1>2, Taken
<1>4. t \in [Publishers -> Nat] /\ \A p \in Publishers : t[p] = IF p = h.from THEN h.at ELSE taken[s][p]
    BY <1>1, <1>2, <1>3 DEF Events
<1>5. /\ UNCHANGED <<sending, clock>> /\ DOMAIN queue' = DOMAIN queue
      /\ \A r \in DOMAIN queue : queue'[r] = IF r = s THEN Tail(q) ELSE queue[r]
      /\ queue' \in [DOMAIN queue -> Seq(Events)]
    BY <1>1, <1>2, <1>3 DEF Take, BusInv, BusTypes
<1>6. taken' = [taken EXCEPT ![s] = t]
    BY <1>1 DEF Take
<1>7. /\ \A r \in Subscribers : taken'[r] = IF r = s THEN t ELSE taken[r]
      /\ taken' \in [Subscribers -> [Publishers -> Nat]]
    BY <1>4, <1>6 DEF BusInv, BusTypes
<1>8. BusTypes'
    BY <1>5, <1>7 DEF BusInv, BusTypes
<1>9. \A r \in DOMAIN queue' : /\ Len(queue'[r]) <= Buffer(r)
                               /\ Ordered(queue'[r], taken'[r], clock') /\ Counted(queue'[r], failedRuns')
    <2>1. Len(q) \in Nat
        BY <1>2, LenProperties
    <2>2. Len(q) <= Buffer(s) /\ Buffer(s) \in Nat
        BY <1>1, <1>2, BufferAssumption DEF BusInv, Buffer
    <2>3. Len(Tail(q)) <= Buffer(s)
        BY <1>3, <2>1, <2>2
    <2>4. \A r \in DOMAIN queue : r \in Subscribers
        BY DEF BusInv, BusTypes
    <2> QED
        BY <1>3, <1>5, <1>7, <2>3, <2>4 DEF BusInv
<1>10. \A r \in Subscribers, p \in Publishers : taken'[r][p] <= clock'
    BY <1>3, <1>4, <1>5, <1>7 DEF BusInv
<1>11. \A p \in Publishers : \A r \in sending'[p].left :
          taken'[r][p] < sending'[p].event.at /\ LaterThan(queue'[r], sending'[p].event)
    <2> SUFFICES ASSUME NEW p \in Publishers, NEW r \in sending[p].left
                 PROVE  taken'[r][p] < sending[p].event.at /\ LaterThan(queue'[r], sending[p].event)
        BY <1>5
    <2>1. /\ sending[p].event \in Events /\ sending[p].event.from = p
          /\ r \in DOMAIN queue /\ r \in Subscribers
          /\ taken[r][p] < sending[p].event.at /\ LaterThan(queue[r], sending[p].event)
        BY DEF BusInv, BusTypes
    <2>2. CASE r = s
        <3>1. LaterThan(q, sending[p].event)
            BY <1>1, <2>1, <2>2
        <3>2. LaterThan(Tail(q), sending[p].event) /\ (p = h.from => h.at < sending[p].event.at)
            BY <1>3, <2>1, <3>1
        <3> QED
            BY <1>4, <1>5, <1>7, <2>1, <2>2, <3>2
    <2>3. CASE r # s
        BY <1>5, <1>7, <2>1, <2>3
    <2> QED
        BY <2>2, <2>3
<1> QED
    BY <1>5, <1>8, <1>9, <1>10, <1>11 DEF BusInv

LEMMA BusOffers ==
    ASSUME BusInv, JobInv, NEW p \in Publishers, NEW s \in Subscribers, Offer(p, s), failedRuns' = failedRuns
    PROVE  BusInv'
<1>1. PICK q, e, w : q = queue[s] /\ e = sending[p].event
                     /\ w = IF sending[p].left = {s} THEN Quiet ELSE [sending[p] EXCEPT !.left = sending[p].left \ {s}]
    OBVIOUS
<1>2. /\ s \in DOMAIN queue /\ q \in Seq(Events) /\ e \in Events /\ e.from = p
      /\ e.at <= clock /\ e.failures <= failedRuns
      /\ taken[s] \in [Publishers -> Nat] /\ taken[s][e.from] < e.at /\ LaterThan(q, e)
      /\ clock \in Nat /\ failedRuns \in Nat /\ Ordered(q, taken[s], clock) /\ Counted(q, failedRuns)
      /\ s \in sending[p].left
    BY <1>1 DEF Offer, BusInv, BusTypes, JobInv
<1>3. /\ Append(q, e) \in Seq(Events) /\ Len(Append(q, e)) = Len(q) + 1
      /\ Ordered(Append(q, e), taken[s], clock) /\ Counted(Append(q, e), failedRuns)
      /\ \A f \in Events : LaterThan(q, f) /\ e.from # f.from => LaterThan(Append(q, e), f)
    BY <1>2, Appended
<1>4. PICK r : r = Offered(q, s, e)
    OBVIOUS
<1>5. /\ r \in Seq(Events) /\ Len(r) <= Buffer(s)
      /\ Ordered(r, taken[s], clock) /\ Counted(r, failedRuns)
      /\ \A f \in Events : LaterThan(q, f) /\ e.from # f.from => LaterThan(r, f)
    <2>1. Len(q) \in Nat
        BY <1>2, LenProperties
    <2>2. Len(q) <= Buffer(s) /\ Buffer(s) \in Nat
        BY <1>1, <1>2, BufferAssumption DEF BusInv, Buffer
    <2> QED
        BY <1>2, <1>3, <1>4, <2>1, <2>2 DEF Offered
<1>6. /\ w \in Held /\ w.left \subseteq sending[p].left \ {s}
      /\ w.left # {} => w.event = e
    BY <1>1 DEF Held, Quiet, BusInv, BusTypes
<1>7. /\ UNCHANGED <<clock, taken>>
      /\ queue' = [queue EXCEPT ![s] = r] /\ sending' = [sending EXCEPT ![p] = w]
    BY <1>1, <1>4 DEF Offer
<1>8. /\ DOMAIN queue' = DOMAIN queue
      /\ \A t \in DOMAIN queue : queue'[t] = IF t = s THEN r ELSE queue[t]
      /\ queue' \in [DOMAIN queue -> Seq(Events)]
      /\ \A o \in Publishers : sending'[o] = IF o = p THEN w ELSE sending[o]
      /\ sending' \in [Publishers -> Held]
    BY <1>5, <1>6, <1>7 DEF BusInv, BusTypes
<1>9. BusTypes'
    BY <1>7, <1>8 DEF BusInv, BusTypes
<1>10. \A t \in DOMAIN queue' : /\ Len(queue'[t]) <= Buffer(t)
                                /\ Ordered(queue'[t], taken'[t], clock') /\ Counted(queue'[t], failedRuns')
    BY <1>5, <1>7, <1>8 DEF BusInv
<1>11. ASSUME NEW o \in Publishers, sending'[o].left # {}
       PROVE  /\ sending'[o].left \subseteq DOMAIN queue'
              /\ sending'[o].event \in Events /\ sending'[o].event.from = o
              /\ sending'[o].event.at <= clock' /\ sending'[o].event.failures <= failedRuns'
              /\ \A t \in sending'[o].left :
                    taken'[t][o] < sending'[o].event.at /\ LaterThan(queue'[t], sending'[o].event)
    <2>1. /\ sending'[o].left \subseteq sending[o].left /\ sending'[o].event = sending[o].event
          /\ o = p => s \notin sending'[o].left
        BY <1>1, <1>6, <1>8, <1>11
    <2>2. /\ sending[o].left \subseteq DOMAIN queue
          /\ sending[o].event \in Events /\ sending[o].event.from = o
          /\ sending[o].event.at <= clock /\ sending[o].event.failures <= failedRuns
          /\ \A t \in sending[o].left : taken[t][o] < sending[o].event.at /\ LaterThan(queue[t], sending[o].event)
        BY <1>11, <2>1 DEF BusInv
    <2>3. \A t \in sending'[o].left : LaterThan(queue'[t], sending'[o].event)
        BY <1>1, <1>2, <1>5, <1>8, <2>1, <2>2
    <2> QED
        BY <1>7, <1>8, <2>1, <2>2, <2>3
<1> QED
    BY <1>7, <1>9, <1>10, <1>11 DEF BusInv

LEMMA BusRestarts ==
    ASSUME BusInv, BusRestart
    PROVE  BusInv'
<1>1. /\ DOMAIN queue' = {Engine} /\ queue' \in [{Engine} -> Seq(Events)] /\ queue'[Engine] = <<>>
      /\ \A p \in Publishers : sending'[p] = Quiet
      /\ \A s \in Subscribers, p \in Publishers : taken'[s][p] = 0
      /\ clock' = clock
    BY EmptySeq DEF BusRestart, NothingTaken
<1>2. BusTypes'
    BY <1>1 DEF BusInv, BusTypes, BusRestart, Subscribers, NothingTaken, Quiet, Held
<1>3. Len(queue'[Engine]) = 0 /\ Len(queue'[Engine]) <= Buffer(Engine)
    BY <1>1, BufferAssumption DEF Buffer
<1>4. \A s \in Subscribers, p \in Publishers : taken'[s][p] <= clock'
    BY <1>1 DEF BusInv, BusTypes
<1> QED
    BY <1>1, <1>2, <1>3, <1>4 DEF BusInv, Ordered, Counted, Quiet

LEMMA BusKept ==
    ASSUME BusInv, JobInv, [Next]_vars
    PROVE  BusInv'
<1>1. BusMove \/ UNCHANGED busVars
    BY BusMoves
<1>2. failedRuns \in Nat /\ failedRuns' \in Nat /\ failedRuns <= failedRuns'
    BY RunsOnlyGrow, JobKept DEF JobInv
<1>3. failedRuns' = failedRuns \/ UNCHANGED busVars
    BY JobMoves DEF JobMove, jobVars, ReadFailures, WriteJobState, FailToWriteJobState, PublishJobRun, JobRestart
<1>4. CASE BusMove /\ failedRuns' = failedRuns
    BY <1>4, BusSubscribes, BusUnsubscribes, BusPublishes, BusTakes, BusOffers, BusRestarts DEF BusMove
<1>5. CASE UNCHANGED busVars
    BY <1>2, <1>5, BusRests
<1> QED
    BY <1>1, <1>3, <1>4, <1>5

LEMMA BusAlways == Spec => []BusInv
<1> QED
    BY BusStart, BusKept, JobAlways, PTL DEF Spec

(* Whatever publishers, browsers and the engine do at once: a subscriber sees   *)
(* the events of a publisher in the order of their publication, though it may   *)
(* miss some, and no channel holds more than its buffer (Publish of bus.go).    *)
THEOREM EventsKeepOrder == Spec => []OrderPerPublisher
<1>1. BusInv => OrderPerPublisher
    BY DEF BusInv, OrderPerPublisher, Ordered, LaterThan
<1> QED
    BY <1>1, BusAlways, PTL

-----------------------------------------------------------------------------
(* The senders *)

Phases == {"receive", "rules", "attach", "next", "create", "send", "update", "publish", "published"}
Pairs == (Rules \cup {NoRule}) \X Channels
Steps == [at : Phases, event : Events \cup {NoEvent}, list : SUBSET Rules, todo : SUBSET Pairs,
          pair : Pairs \cup {<<>>}, delivery : Nat, ok : BOOLEAN]
RuleRows == [enabled : BOOLEAN, channels : SUBSET Channels]
Deliveries == [rule : Rules \cup {NoRule}, channel : Channels, event : Events \cup {NoEvent},
               status : {"pending", "sent", "failed"}]

RowTypes ==
    /\ channels \in [DOMAIN channels -> BOOLEAN] /\ DOMAIN channels \subseteq Channels
    /\ rules \in [DOMAIN rules -> RuleRows] /\ DOMAIN rules \subseteq Rules
    /\ offSince \in [Channels \cup Rules -> Nat \cup {On}]

WorkTypes ==
    /\ deliveries \in Seq(Deliveries) /\ calls \in Seq(Seq(BOOLEAN)) /\ Len(calls) = Len(deliveries)
    /\ work \in [Senders -> Steps]
    /\ \A a \in Senders : work[a].at = "create" => work[a].pair \in Pairs

(* Of two senders none writes the delivery of the other, and what a sender is   *)
(* about to write is the outcome of the one call there was.                     *)
Writers == {a \in Senders : work[a].at \in {"send", "update"}}
TruthInv ==
    /\ WorkTypes
    /\ DeliveriesTellTheTruth
    /\ \A a \in Writers :
          /\ work[a].delivery \in 1 .. Len(deliveries)
          /\ deliveries[work[a].delivery].status = "pending"
          /\ calls[work[a].delivery] = IF work[a].at = "send" THEN <<>> ELSE <<work[a].ok>>
          /\ \A b \in Writers : work[b].delivery = work[a].delivery => b = a

RowMove ==
    \/ \E c \in Channels :
          (\E enabled \in BOOLEAN : SaveNotificationChannel(c, enabled)) \/ DeleteNotificationChannel(c)
    \/ \E r \in Rules :
          \/ \E enabled \in BOOLEAN, cs \in SUBSET Channels : SaveNotificationRule(r, enabled, cs)
          \/ DeleteNotificationRule(r)

WorkMove ==
    \/ Receive \/ ListEnabledNotificationRules \/ AttachNotificationRuleChannels
    \/ \E c \in Channels : StartTest(c)
    \/ \E a \in Senders : SendStep(a) \/ StoreFails(a)
    \/ Restart

rowVars == <<channels, rules, offSince>>
workVars == <<deliveries, calls, work>>

LEMMA SenderMoves ==
    ASSUME [Next]_vars
    PROVE  \/ RowMove /\ UNCHANGED workVars
           \/ WorkMove /\ UNCHANGED rowVars
           \/ UNCHANGED <<rowVars, workVars>>
<1>1. CASE BusStep \/ JobStep \/ UNCHANGED vars
    BY <1>1 DEF BusStep, JobStep, vars, notifyVars, rowVars, workVars
<1>2. CASE EditStep
    BY <1>2 DEF EditStep, RowMove, WorkMove, SaveNotificationChannel, DeleteNotificationChannel, StartTest,
                SaveNotificationRule, DeleteNotificationRule, Edited, rowVars, workVars, storeVars
<1>3. ASSUME NEW a \in Senders, SendStep(a) PROVE WorkMove /\ UNCHANGED rowVars
    BY <1>3 DEF WorkMove, rowVars, SendStep, GetNotificationChannelForSend, CreateNotificationDelivery, Send,
                UpdateNotificationDelivery, PublishDelivered, AfterPublish, EngineStep
<1>4. CASE EngineWorks
    BY <1>3, <1>4 DEF EngineWorks, WorkMove, rowVars, Receive, ListEnabledNotificationRules,
                      AttachNotificationRuleChannels, EngineStep, Senders
<1>5. CASE Restart
    BY <1>5 DEF Restart, WorkMove, rowVars, storeVars
<1>6. CASE \E a \in Senders : StoreFails(a)
    BY <1>6 DEF StoreFails, WorkMove, rowVars, storeVars
<1> QED
    BY <1>1, <1>2, <1>3, <1>4, <1>5, <1>6 DEF Next, Senders

LEMMA RowsStart == Init => RowTypes
<1> SUFFICES ASSUME Init PROVE RowTypes
    OBVIOUS
<1>1. PICK cs \in SUBSET Channels, rs \in SUBSET Rules :
          /\ channels = [c \in cs |-> TRUE]
          /\ rules = [r \in rs |-> [enabled |-> TRUE, channels |-> cs]]
          /\ offSince = [x \in Channels \cup Rules |-> IF x \in cs \cup rs THEN On ELSE 0]
    BY DEF Init
<1> QED
    BY <1>1 DEF RowTypes, RuleRows

LEMMA RowsKept ==
    ASSUME RowTypes, clock \in Nat, [Next]_vars
    PROVE  RowTypes'
<1>0. ASSUME NEW x \in Channels \cup Rules, NEW on \in BOOLEAN, Switched(x, on)
      PROVE  offSince' \in [Channels \cup Rules -> Nat \cup {On}]
    BY <1>0 DEF Switched, RowTypes
<1>1. ASSUME NEW c \in Channels, NEW enabled \in BOOLEAN, SaveNotificationChannel(c, enabled) PROVE RowTypes'
    BY <1>0, <1>1 DEF SaveNotificationChannel, RowTypes, Put
<1>2. ASSUME NEW c \in Channels, DeleteNotificationChannel(c) PROVE RowTypes'
    <2>1. offSince' \in [Channels \cup Rules -> Nat \cup {On}]
        BY <1>0, <1>2 DEF DeleteNotificationChannel
    <2>2. channels' \in [DOMAIN channels' -> BOOLEAN] /\ DOMAIN channels' \subseteq Channels
        BY <1>2 DEF DeleteNotificationChannel, RowTypes, Remove
    <2>3. \A r \in DOMAIN rules : [rules[r] EXCEPT !.channels = rules[r].channels \ {c}] \in RuleRows
        BY DEF RowTypes, RuleRows
    <2>4. rules' \in [DOMAIN rules' -> RuleRows] /\ DOMAIN rules' \subseteq Rules
        BY <1>2, <2>3 DEF DeleteNotificationChannel, RowTypes
    <2> QED
        BY <2>1, <2>2, <2>4 DEF RowTypes
<1>3. ASSUME NEW r \in Rules, NEW enabled \in BOOLEAN, NEW cs \in SUBSET Channels,
             SaveNotificationRule(r, enabled, cs)
      PROVE  RowTypes'
    BY <1>0, <1>3 DEF SaveNotificationRule, RowTypes, Put, RuleRows
<1>4. ASSUME NEW r \in Rules, DeleteNotificationRule(r) PROVE RowTypes'
    BY <1>0, <1>4 DEF DeleteNotificationRule, RowTypes, Remove
<1>5. CASE UNCHANGED rowVars
    BY <1>5 DEF rowVars, RowTypes
<1> QED
    BY <1>1, <1>2, <1>3, <1>4, <1>5, SenderMoves DEF RowMove

LEMMA RowsAlways == Spec => []RowTypes
<1>1. BusInv => clock \in Nat
    BY DEF BusInv, BusTypes
<1> QED
    BY <1>1, RowsStart, RowsKept, BusAlways, PTL DEF Spec

LEMMA TruthStart == Init => TruthInv
<1> SUFFICES ASSUME Init PROVE TruthInv
    OBVIOUS
<1>1. deliveries = <<>> /\ calls = <<>> /\ work = [a \in Senders |-> Waiting]
    BY DEF Init
<1>2. Waiting \in Steps /\ Waiting.at = "receive"
    BY DEF Waiting, Steps, Phases
<1>3. /\ deliveries \in Seq(Deliveries) /\ calls \in Seq(Seq(BOOLEAN))
      /\ Len(deliveries) = 0 /\ Len(calls) = 0
    BY <1>1, EmptySeq
<1> QED
    BY <1>1, <1>2, <1>3 DEF TruthInv, WorkTypes, Writers, DeliveriesTellTheTruth

(* The fields of a sender's memory change one at a time. *)
LEMMA StepChanges ==
    /\ \A w \in Steps, p \in Phases : [w EXCEPT !.at = p] \in Steps
    /\ \A w \in Steps, p \in Phases, n \in Nat : [w EXCEPT !.at = p, !.delivery = n] \in Steps
    /\ \A w \in Steps, p \in Phases, ok \in BOOLEAN : [w EXCEPT !.at = p, !.ok = ok] \in Steps
    /\ \A w \in Steps, list \in SUBSET Rules, todo \in SUBSET Pairs :
          [w EXCEPT !.list = list, !.todo = todo] \in Steps
    /\ \A w \in Steps, p \in Phases, todo \in SUBSET Pairs : [w EXCEPT !.at = p, !.todo = todo] \in Steps
    /\ \A w \in Steps, p \in Phases, todo \in SUBSET Pairs, pair \in Pairs :
          [w EXCEPT !.todo = todo, !.pair = pair, !.at = p] \in Steps
BY DEF Steps

LEMMA StepFields ==
    ASSUME NEW w \in Steps
    PROVE  /\ w.at \in Phases /\ w.event \in Events \cup {NoEvent} /\ w.list \in SUBSET Rules
           /\ w.todo \in SUBSET Pairs /\ w.delivery \in Nat /\ w.ok \in BOOLEAN
           /\ w = [at |-> w.at, event |-> w.event, list |-> w.list, todo |-> w.todo, pair |-> w.pair,
                   delivery |-> w.delivery, ok |-> w.ok]
BY DEF Steps

(* A sender that writes no delivery. *)
LEMMA TruthStays ==
    ASSUME TruthInv, NEW a \in Senders, NEW w \in Steps, w.at \notin {"send", "update"},
           w.at = "create" => w.pair \in Pairs, work' = [work EXCEPT ![a] = w], UNCHANGED <<deliveries, calls>>
    PROVE  TruthInv'
<1>1. work' \in [Senders -> Steps] /\ \A b \in Senders : work'[b] = IF b = a THEN w ELSE work[b]
    BY DEF TruthInv, WorkTypes
<1>2. WorkTypes'
    BY <1>1 DEF TruthInv, WorkTypes
<1>3. Writers' = Writers \ {a} /\ \A b \in Writers' : work'[b] = work[b]
    BY <1>1 DEF Writers
<1> QED
    BY <1>2, <1>3 DEF TruthInv, DeliveriesTellTheTruth

LEMMA TruthPrepared ==
    ASSUME TruthInv, RowTypes, BusInv,
           \/ Receive \/ ListEnabledNotificationRules \/ AttachNotificationRuleChannels
           \/ \E c \in Channels : StartTest(c)
    PROVE  TruthInv'
<1>0. Engine \in Senders /\ Tester \in Senders /\ Waiting \in Steps /\ work[Engine] \in Steps
    BY DEF Senders, Waiting, Steps, Phases, TruthInv, WorkTypes
<1>1. CASE Receive
    <2>1. PICK w : w = IF Translated(Head(queue[Engine]))
                          THEN [Waiting EXCEPT !.at = "rules", !.event = Head(queue[Engine])]
                          ELSE Waiting
        OBVIOUS
    <2>2. Head(queue[Engine]) \in Events
        BY <1>1, HeadTailProperties DEF Receive, Take, BusInv, BusTypes
    <2>3. w \in Steps /\ w.at \in {"rules", "receive"}
        BY <2>1, <2>2 DEF Waiting, Steps, Phases
    <2>4. work' = [work EXCEPT ![Engine] = w] /\ UNCHANGED <<deliveries, calls>>
        BY <1>1, <2>1 DEF Receive, Goes
    <2> QED
        BY <1>0, <2>3, <2>4, TruthStays
<1>2. CASE ListEnabledNotificationRules
    <2>1. PICK w : w = [work[Engine] EXCEPT !.at = "attach", !.list = {r \in DOMAIN rules : rules[r].enabled}]
        OBVIOUS
    <2>2. w \in Steps /\ w.at = "attach"
        BY <1>0, <2>1 DEF Steps, Phases, RowTypes
    <2>3. work' = [work EXCEPT ![Engine] = w] /\ UNCHANGED <<deliveries, calls>>
        BY <1>2, <2>1 DEF ListEnabledNotificationRules, Goes
    <2> QED
        BY <1>0, <2>2, <2>3, TruthStays
<1>3. CASE AttachNotificationRuleChannels
    <2>1. PICK w : /\ work' = [work EXCEPT ![Engine] = w]
                   /\ \/ w = [work[Engine] EXCEPT !.at = "next"]
                      \/ \E r \in work[Engine].list :
                            w = [work[Engine] EXCEPT !.list = @ \ {r}, !.todo = @ \cup
                                    IF MatchesRule(r, work[Engine].event) THEN {r} \X ChannelsOf(r) ELSE {}]
        BY <1>3 DEF AttachNotificationRuleChannels, Goes
    <2>2. ASSUME NEW r \in work[Engine].list PROVE {r} \X ChannelsOf(r) \in SUBSET Pairs
        BY <1>0, StepFields DEF ChannelsOf, RowTypes, RuleRows, Pairs
    <2>3. w \in Steps /\ w.at \in {"attach", "next"}
        <3>1. CASE w = [work[Engine] EXCEPT !.at = "next"]
            <4>1. "next" \in Phases
                BY DEF Phases
            <4>2. w \in Steps
                BY <1>0, <3>1, <4>1, StepChanges
            <4> QED
                BY <1>0, <3>1, <4>2 DEF Steps
        <3>2. ASSUME NEW r \in work[Engine].list,
                     w = [work[Engine] EXCEPT !.list = @ \ {r}, !.todo = @ \cup
                             IF MatchesRule(r, work[Engine].event) THEN {r} \X ChannelsOf(r) ELSE {}]
              PROVE  w \in Steps /\ w.at = "attach"
            <4>1. PICK l, t : /\ l = work[Engine].list \ {r}
                              /\ t = work[Engine].todo \cup
                                       IF MatchesRule(r, work[Engine].event) THEN {r} \X ChannelsOf(r) ELSE {}
                OBVIOUS
            <4>2. l \in SUBSET Rules /\ t \in SUBSET Pairs /\ w = [work[Engine] EXCEPT !.list = l, !.todo = t]
                BY <1>0, <2>2, <3>2, <4>1, StepFields
            <4> QED
                BY <1>0, <1>3, <4>2, StepChanges DEF AttachNotificationRuleChannels, Steps
        <3> QED
            BY <2>1, <3>1, <3>2
    <2> QED
        BY <1>0, <1>3, <2>1, <2>3, TruthStays DEF AttachNotificationRuleChannels
<1>4. ASSUME NEW c \in Channels, StartTest(c) PROVE TruthInv'
    <2>1. PICK w : w = [Waiting EXCEPT !.at = "next", !.todo = {<<NoRule, c>>}]
        OBVIOUS
    <2>2. w \in Steps /\ w.at = "next"
        <3>1. {<<NoRule, c>>} \in SUBSET Pairs /\ "next" \in Phases
            BY DEF Pairs, Phases
        <3>2. w \in Steps
            BY <1>0, <2>1, <3>1, StepChanges
        <3> QED
            BY <1>0, <2>1, <3>2 DEF Steps
    <2>3. work' = [work EXCEPT ![Tester] = w] /\ UNCHANGED <<deliveries, calls>>
        BY <1>4, <2>1 DEF StartTest, Goes, storeVars
    <2> QED
        BY <1>0, <2>2, <2>3, TruthStays
<1> QED
    BY <1>1, <1>2, <1>3, <1>4

LEMMA TruthBetween ==
    ASSUME TruthInv, NEW a \in Senders,
           GetNotificationChannelForSend(a) \/ PublishDelivered(a) \/ AfterPublish(a) \/ StoreFails(a)
    PROVE  TruthInv'
<1>0. Waiting \in Steps /\ work[a] \in Steps
    BY DEF Waiting, Steps, Phases, TruthInv, WorkTypes
<1>1. PICK w : /\ work' = [work EXCEPT ![a] = w] /\ UNCHANGED <<deliveries, calls>>
               /\ \/ w = Waiting
                  \/ \E pair \in work[a].todo :
                        w = [work[a] EXCEPT !.todo = @ \ {pair}, !.pair = pair,
                                !.at = IF MaySend(a, pair[2]) THEN "create" ELSE "next"]
                  \/ \E pair \in work[a].todo : w = [work[a] EXCEPT !.todo = @ \ {pair}, !.pair = pair, !.at = "next"]
                  \/ w = [work[a] EXCEPT !.at = "published"]
                  \/ w = [work[a] EXCEPT !.at = "next"]
    BY DEF GetNotificationChannelForSend, PublishDelivered, AfterPublish, StoreFails, Goes, Skip, storeVars
<1>2. work[a].todo \subseteq Pairs
    BY <1>0 DEF Steps
<1>3. w \in Steps /\ w.at \notin {"send", "update"} /\ (w.at = "create" => w.pair \in Pairs)
    <2>1. CASE w = Waiting
        BY <1>0, <2>1 DEF Waiting
    <2>2. ASSUME NEW p \in {"published", "next"}, w = [work[a] EXCEPT !.at = p]
          PROVE  w \in Steps /\ w.at = p
        <3>1. p \in Phases
            BY DEF Phases
        <3> QED
            BY <1>0, <2>2, <3>1, StepChanges DEF Steps
    <2>3. ASSUME NEW pair \in work[a].todo, NEW p \in {"create", "next"},
                 w = [work[a] EXCEPT !.todo = work[a].todo \ {pair}, !.pair = pair, !.at = p]
          PROVE  w \in Steps /\ w.at = p /\ w.pair \in Pairs
        <3>1. p \in Phases /\ pair \in Pairs /\ work[a].todo \ {pair} \in SUBSET Pairs
            BY <1>2 DEF Phases
        <3>2. w \in Steps
            BY <1>0, <2>3, <3>1, StepChanges
        <3> QED
            BY <1>0, <2>3, <3>1, <3>2 DEF Steps
    <2> QED
        BY <1>1, <2>1, <2>2, <2>3
<1> QED
    BY <1>1, <1>3, TruthStays

LEMMA TruthCreated ==
    ASSUME TruthInv, NEW a \in Senders, CreateNotificationDelivery(a)
    PROVE  TruthInv'
<1>1. PICK d, n, w : /\ d = [rule |-> work[a].pair[1], channel |-> work[a].pair[2],
                             event |-> work[a].event, status |-> "pending"]
                     /\ n = Len(deliveries) + 1
                     /\ w = [work[a] EXCEPT !.at = "send", !.delivery = n]
    OBVIOUS
<1>2. d \in Deliveries /\ work[a] \in Steps
    BY <1>1 DEF CreateNotificationDelivery, TruthInv, WorkTypes, Steps, Pairs, Deliveries
<1>3. /\ deliveries' \in Seq(Deliveries) /\ Len(deliveries') = n /\ Len(deliveries) \in Nat
      /\ \A i \in 1 .. Len(deliveries) : deliveries'[i] = deliveries[i]
      /\ deliveries'[n] = d
    BY <1>1, <1>2, AppendProperties, LenProperties DEF CreateNotificationDelivery, TruthInv, WorkTypes
<1>4. <<>> \in Seq(BOOLEAN) /\ Len(<<>>) = 0
    BY EmptySeq
<1>5. /\ calls' \in Seq(Seq(BOOLEAN)) /\ Len(calls') = n
      /\ \A i \in 1 .. Len(deliveries) : calls'[i] = calls[i]
      /\ calls'[n] = <<>>
    BY <1>1, <1>4, AppendProperties DEF CreateNotificationDelivery, TruthInv, WorkTypes
<1>6. /\ work' \in [Senders -> Steps] /\ w.at = "send" /\ w.delivery = n
      /\ \A b \in Senders : work'[b] = IF b = a THEN w ELSE work[b]
    <2>1. n \in Nat /\ "send" \in Phases
        BY <1>1, <1>3 DEF Phases
    <2>2. w \in Steps
        BY <1>1, <1>2, <2>1, StepChanges
    <2>3. w.at = "send" /\ w.delivery = n
        BY <1>1, <1>2 DEF Steps
    <2>4. work' = [work EXCEPT ![a] = w]
        BY <1>1, <1>3 DEF CreateNotificationDelivery, Goes
    <2> QED
        BY <2>2, <2>3, <2>4 DEF TruthInv, WorkTypes
<1>7. WorkTypes'
    BY <1>3, <1>5, <1>6 DEF TruthInv, WorkTypes
<1>8. \A i \in 1 .. Len(deliveries') : i \in 1 .. Len(deliveries) \/ i = n
    BY <1>1, <1>3
<1>9. DeliveriesTellTheTruth'
    <2>1. DeliveriesTellTheTruth /\ d.status = "pending"
        BY <1>1 DEF TruthInv
    <2>2. Len(calls'[n]) <= 1
        BY <1>4, <1>5
    <2> QED
        BY <1>3, <1>5, <1>8, <2>1, <2>2 DEF DeliveriesTellTheTruth
<1>10. \A b \in Writers' : b = a \/ (b \in Writers /\ work'[b] = work[b])
    BY <1>6 DEF Writers
<1>11. \A b \in Writers : work[b].delivery \in 1 .. Len(deliveries)
    BY DEF TruthInv
<1>12. n \notin 1 .. Len(deliveries) /\ n \in 1 .. n
    BY <1>1, <1>3
<1>13. \A b \in Writers' :
          /\ work'[b].delivery \in 1 .. Len(deliveries')
          /\ deliveries'[work'[b].delivery].status = "pending"
          /\ calls'[work'[b].delivery] = IF work'[b].at = "send" THEN <<>> ELSE <<work'[b].ok>>
          /\ \A c \in Writers' : work'[c].delivery = work'[b].delivery => c = b
    <2> SUFFICES ASSUME NEW b \in Writers'
                 PROVE  /\ work'[b].delivery \in 1 .. Len(deliveries')
                        /\ deliveries'[work'[b].delivery].status = "pending"
                        /\ calls'[work'[b].delivery] = IF work'[b].at = "send" THEN <<>> ELSE <<work'[b].ok>>
                        /\ \A c \in Writers' : work'[c].delivery = work'[b].delivery => c = b
        OBVIOUS
    <2>1. CASE b = a
        <3>1. work'[b] = w /\ w.delivery = n /\ w.at = "send" /\ d.status = "pending"
            BY <1>1, <1>6, <2>1 DEF Writers
        <3>2. \A c \in Writers' : work'[c].delivery = n => c = a
            BY <1>10, <1>11, <1>12
        <3> QED
            BY <1>3, <1>5, <1>12, <2>1, <3>1, <3>2
    <2>2. CASE b \in Writers /\ work'[b] = work[b] /\ b # a
        <3>1. work[b].delivery \in 1 .. Len(deliveries) /\ work[b].delivery \in 1 .. Len(deliveries')
            BY <1>1, <1>3, <1>11, <2>2
        <3>2. \A c \in Writers' : work'[c].delivery = work'[b].delivery => c = b
            <4> SUFFICES ASSUME NEW c \in Writers', work'[c].delivery = work'[b].delivery PROVE c = b
                OBVIOUS
            <4>1. CASE c = a
                BY <1>6, <1>12, <2>2, <3>1, <4>1
            <4>2. CASE c \in Writers /\ work'[c] = work[c]
                BY <2>2, <4>2 DEF TruthInv
            <4> QED
                BY <1>10, <4>1, <4>2
        <3>3. /\ deliveries[work[b].delivery].status = "pending"
              /\ calls[work[b].delivery] = IF work[b].at = "send" THEN <<>> ELSE <<work[b].ok>>
            BY <2>2 DEF TruthInv
        <3> QED
            BY <1>3, <1>5, <2>2, <3>1, <3>2, <3>3
    <2> QED
        BY <1>10, <2>1, <2>2
<1> QED
    BY <1>7, <1>9, <1>13 DEF TruthInv

LEMMA TruthSent ==
    ASSUME TruthInv, NEW a \in Senders, Send(a)
    PROVE  TruthInv'
<1>1. PICK ok \in BOOLEAN : /\ calls' = [calls EXCEPT ![work[a].delivery] = Append(@, ok)]
                            /\ work' = [work EXCEPT ![a] = [work[a] EXCEPT !.at = "update", !.ok = ok]]
    BY DEF Send, Goes
<1>2. PICK n, w : n = work[a].delivery /\ w = [work[a] EXCEPT !.at = "update", !.ok = ok]
    OBVIOUS
<1>3. a \in Writers /\ n \in 1 .. Len(deliveries) /\ calls[n] = <<>> /\ deliveries' = deliveries
    BY <1>2 DEF Send, Writers, TruthInv
<1>4. Append(calls[n], ok) = <<ok>> /\ <<ok>> \in Seq(BOOLEAN) /\ Len(<<ok>>) = 1
    BY <1>3
<1>5. /\ calls' \in Seq(Seq(BOOLEAN)) /\ Len(calls') = Len(calls)
      /\ \A i \in 1 .. Len(deliveries) : calls'[i] = IF i = n THEN <<ok>> ELSE calls[i]
    <2>1. calls' = [calls EXCEPT ![n] = <<ok>>]
        BY <1>1, <1>2, <1>4
    <2> QED
        BY <1>3, <1>4, <2>1, ExceptSeq DEF TruthInv, WorkTypes
<1>6. /\ work' \in [Senders -> Steps] /\ w.at = "update" /\ w.delivery = n /\ w.ok = ok
      /\ \A b \in Senders : work'[b] = IF b = a THEN w ELSE work[b]
    <2>1. work[a] \in Steps /\ "update" \in Phases
        BY DEF TruthInv, WorkTypes, Phases
    <2>2. w \in Steps
        BY <1>2, <2>1, StepChanges
    <2>3. w.at = "update" /\ w.delivery = n /\ w.ok = ok
        BY <1>2, <2>1 DEF Steps
    <2> QED
        BY <1>1, <1>2, <2>2, <2>3 DEF TruthInv, WorkTypes
<1>7. WorkTypes'
    BY <1>3, <1>5, <1>6 DEF TruthInv, WorkTypes
<1>8. deliveries[n].status = "pending"
    BY <1>2, <1>3 DEF TruthInv
<1>9. DeliveriesTellTheTruth'
    <2>1. DeliveriesTellTheTruth /\ Len(<<ok>>) <= 1
        BY <1>4 DEF TruthInv
    <2> QED
        BY <1>3, <1>5, <1>8, <2>1 DEF DeliveriesTellTheTruth
<1>10. Writers' = Writers /\ \A b \in Writers : work'[b].delivery = work[b].delivery
    BY <1>2, <1>3, <1>6 DEF Writers
<1>11. \A b \in Writers : b # a => work[b].delivery # n /\ work'[b] = work[b]
    BY <1>2, <1>3, <1>6 DEF TruthInv, Writers
<1>12. ASSUME NEW b \in Writers'
       PROVE  /\ work'[b].delivery \in 1 .. Len(deliveries')
              /\ deliveries'[work'[b].delivery].status = "pending"
              /\ calls'[work'[b].delivery] = IF work'[b].at = "send" THEN <<>> ELSE <<work'[b].ok>>
              /\ \A c \in Writers' : work'[c].delivery = work'[b].delivery => c = b
    <2>1. /\ work[b].delivery \in 1 .. Len(deliveries) /\ deliveries[work[b].delivery].status = "pending"
          /\ calls[work[b].delivery] = IF work[b].at = "send" THEN <<>> ELSE <<work[b].ok>>
          /\ \A c \in Writers : work[c].delivery = work[b].delivery => c = b
        BY <1>10, <1>12 DEF TruthInv
    <2>2. CASE b = a
        <3>1. work'[b] = w /\ w.delivery = n /\ w.at = "update" /\ w.ok = ok /\ n = work[b].delivery
            BY <1>2, <1>6, <2>2 DEF Writers
        <3>2. calls'[n] = <<ok>>
            BY <1>3, <1>5
        <3>3. \A c \in Writers' : work'[c].delivery = n => c = b
            BY <1>10, <2>1, <3>1
        <3> QED
            BY <1>3, <2>1, <3>1, <3>2, <3>3
    <2>3. CASE b # a
        BY <1>3, <1>5, <1>10, <1>11, <2>1, <2>3
    <2> QED
        BY <2>2, <2>3
<1> QED
    BY <1>7, <1>9, <1>12 DEF TruthInv

LEMMA TruthUpdated ==
    ASSUME TruthInv, NEW a \in Senders, UpdateNotificationDelivery(a)
    PROVE  TruthInv'
<1>1. PICK n, w, d : /\ n = work[a].delivery /\ w = [work[a] EXCEPT !.at = "publish"]
                     /\ d = [deliveries[n] EXCEPT !.status = StatusOf(a)]
    OBVIOUS
<1>2. /\ a \in Writers /\ n \in 1 .. Len(deliveries) /\ calls[n] = <<work[a].ok>> /\ calls' = calls
      /\ deliveries[n] \in Deliveries /\ work[a] \in Steps
    BY <1>1, ElementOfSeq DEF UpdateNotificationDelivery, Writers, TruthInv, WorkTypes
<1>3. d \in Deliveries /\ d.status = StatusOf(a) /\ work[a].ok \in BOOLEAN
    BY <1>1, <1>2 DEF Deliveries, StatusOf, Steps
<1>4. /\ deliveries' \in Seq(Deliveries) /\ Len(deliveries') = Len(deliveries)
      /\ \A i \in 1 .. Len(deliveries) : deliveries'[i] = IF i = n THEN d ELSE deliveries[i]
    <2>1. deliveries' = [deliveries EXCEPT ![n] = d]
        BY <1>1 DEF UpdateNotificationDelivery
    <2> QED
        BY <1>2, <1>3, <2>1, ExceptSeq DEF TruthInv, WorkTypes
<1>5. /\ work' \in [Senders -> Steps] /\ w.at = "publish"
      /\ \A b \in Senders : work'[b] = IF b = a THEN w ELSE work[b]
    <2>1. "publish" \in Phases
        BY DEF Phases
    <2>2. w \in Steps
        BY <1>1, <1>2, <2>1, StepChanges
    <2>3. w.at = "publish"
        BY <1>1, <1>2 DEF Steps
    <2> QED
        BY <1>1, <2>2, <2>3 DEF UpdateNotificationDelivery, Goes, TruthInv, WorkTypes
<1>6. WorkTypes'
    BY <1>2, <1>4, <1>5 DEF TruthInv, WorkTypes
<1>7. calls[n] = <<d.status = "sent">>
    <2>1. (d.status = "sent") = work[a].ok
        BY <1>3 DEF StatusOf
    <2> QED
        BY <1>2, <2>1
<1>8. DeliveriesTellTheTruth'
    BY <1>2, <1>4, <1>7 DEF TruthInv, DeliveriesTellTheTruth
<1>9. Writers' = Writers \ {a} /\ \A b \in Writers' : work'[b] = work[b]
    BY <1>5 DEF Writers
<1>10. \A b \in Writers' : work[b].delivery # n
    BY <1>1, <1>2, <1>9 DEF TruthInv
<1> QED
    BY <1>2, <1>4, <1>6, <1>8, <1>9, <1>10 DEF TruthInv

LEMMA TruthKept ==
    ASSUME TruthInv, RowTypes, BusInv, [Next]_vars
    PROVE  TruthInv'
<1>1. CASE WorkMove
    <2>1. CASE Restart
        <3>1. Waiting \in Steps /\ Waiting.at = "receive"
            BY DEF Waiting, Steps, Phases
        <3>2. work' \in [Senders -> Steps] /\ \A a \in Senders : work'[a] = Waiting
            BY <2>1, <3>1 DEF Restart
        <3> QED
            BY <2>1, <3>1, <3>2 DEF Restart, storeVars, TruthInv, WorkTypes, Writers, DeliveriesTellTheTruth
    <2> QED
        BY <1>1, <2>1, TruthPrepared, TruthBetween, TruthCreated, TruthSent, TruthUpdated DEF WorkMove, SendStep
<1>2. CASE UNCHANGED workVars
    BY <1>2 DEF workVars, TruthInv, WorkTypes, Writers, DeliveriesTellTheTruth
<1> QED
    BY <1>1, <1>2, SenderMoves DEF workVars

LEMMA TruthAlways == Spec => []TruthInv
<1> QED
    BY TruthStart, TruthKept, RowsAlways, BusAlways, PTL DEF Spec

(* Through restarts, failures of the store and test requests: no delivery is    *)
(* sent twice, and a final status is the outcome of the one call of Send        *)
(* (handleEnvelope of the engine, TestNotificationChannel).                     *)
THEOREM DeliveriesAreTrue == Spec => []DeliveriesTellTheTruth
<1>1. TruthInv => DeliveriesTellTheTruth
    BY DEF TruthInv
<1> QED
    BY <1>1, TruthAlways, PTL

(* Who lets go of a delivery.  A sender that holds none and takes none.         *)
NoneLetGo ==
    \A i \in DOMAIN deliveries' :
        (Pending(i) /\ ~InHand(i))' => (Pending(i) /\ ~InHand(i)) \/ breaks' > breaks

LEMMA HandsStay ==
    ASSUME WorkTypes, NEW a \in Senders, NEW w, work' = [work EXCEPT ![a] = w],
           work[a].at \notin {"send", "update"}, deliveries' = deliveries
    PROVE  NoneLetGo
<1>1. \A b \in Senders \ {a} : work'[b] = work[b]
    BY DEF WorkTypes
<1>2. ASSUME NEW i, InHand(i) PROVE InHand(i)'
    <2>1. PICK b \in Senders : work[b].at \in {"send", "update"} /\ work[b].delivery = i
        BY <1>2 DEF InHand
    <2> QED
        BY <1>1, <2>1 DEF InHand
<1> QED
    BY <1>2 DEF NoneLetGo, Pending

LEMMA CreatedInHand ==
    ASSUME TruthInv, NEW a \in Senders, CreateNotificationDelivery(a)
    PROVE  NoneLetGo
<1>1. PICK d, n, w : /\ d = [rule |-> work[a].pair[1], channel |-> work[a].pair[2],
                             event |-> work[a].event, status |-> "pending"]
                     /\ n = Len(deliveries) + 1
                     /\ w = [work[a] EXCEPT !.at = "send", !.delivery = n]
    OBVIOUS
<1>2. d \in Deliveries /\ work[a] \in Steps
    BY <1>1 DEF CreateNotificationDelivery, TruthInv, WorkTypes, Steps, Pairs, Deliveries
<1>3. /\ deliveries' \in Seq(Deliveries) /\ Len(deliveries') = n /\ Len(deliveries) \in Nat
      /\ \A i \in 1 .. Len(deliveries) : deliveries'[i] = deliveries[i]
    BY <1>1, <1>2, AppendProperties, LenProperties DEF CreateNotificationDelivery, TruthInv, WorkTypes
<1>4. /\ w.at = "send" /\ w.delivery = n /\ work'[a] = w
      /\ \A b \in Senders \ {a} : work'[b] = work[b]
    <2>1. w.at = "send" /\ w.delivery = n
        BY <1>1, <1>2 DEF Steps
    <2>2. work' = [work EXCEPT ![a] = w]
        BY <1>1, <1>3 DEF CreateNotificationDelivery, Goes
    <2> QED
        BY <2>1, <2>2 DEF TruthInv, WorkTypes
<1>5. InHand(n)'
    BY <1>4 DEF InHand
<1>6. ASSUME NEW i \in DOMAIN deliveries', i # n, ~InHand(i)' PROVE i \in DOMAIN deliveries /\ ~InHand(i)
    <2>1. i \in 1 .. Len(deliveries)
        BY <1>1, <1>3, <1>6
    <2>2. work[a].at = "create"
        BY DEF CreateNotificationDelivery
    <2>3. ~InHand(i)
        BY <1>4, <1>6, <2>2 DEF InHand
    <2>4. DOMAIN deliveries = 1 .. Len(deliveries)
        BY DEF TruthInv, WorkTypes
    <2> QED
        BY <2>1, <2>3, <2>4
<1>7. \A i \in DOMAIN deliveries : i \in 1 .. Len(deliveries)
    BY DEF TruthInv, WorkTypes
<1> QED
    BY <1>3, <1>5, <1>6, <1>7 DEF NoneLetGo, Pending

LEMMA SentInHand ==
    ASSUME TruthInv, NEW a \in Senders, Send(a)
    PROVE  NoneLetGo
<1>1. PICK ok \in BOOLEAN : work' = [work EXCEPT ![a] = [work[a] EXCEPT !.at = "update", !.ok = ok]]
    BY DEF Send, Goes
<1>2. /\ work'[a].at = "update" /\ work'[a].delivery = work[a].delivery
      /\ \A b \in Senders \ {a} : work'[b] = work[b]
    BY <1>1 DEF TruthInv, WorkTypes, Steps
<1>3. deliveries' = deliveries
    BY DEF Send
<1>4. \A i : InHand(i) => InHand(i)'
    BY <1>2 DEF InHand
<1> QED
    BY <1>3, <1>4 DEF NoneLetGo, Pending

LEMMA UpdatedNoLongerPending ==
    ASSUME TruthInv, NEW a \in Senders, UpdateNotificationDelivery(a)
    PROVE  NoneLetGo
<1>1. PICK n : n = work[a].delivery
    OBVIOUS
<1>2. a \in Writers /\ n \in 1 .. Len(deliveries) /\ work[a].ok \in BOOLEAN
    BY <1>1 DEF UpdateNotificationDelivery, Writers, TruthInv, WorkTypes, Steps
<1>3. /\ deliveries \in Seq(Deliveries) /\ deliveries[n] \in Deliveries
      /\ deliveries' = [deliveries EXCEPT ![n] = [deliveries[n] EXCEPT !.status = StatusOf(a)]]
    BY <1>1, <1>2, ElementOfSeq DEF UpdateNotificationDelivery, TruthInv, WorkTypes
<1>4. StatusOf(a) # "pending"
    BY <1>2 DEF StatusOf
<1>5. /\ DOMAIN deliveries' = DOMAIN deliveries
      /\ \A i \in DOMAIN deliveries : i # n => deliveries'[i] = deliveries[i]
    BY <1>3
<1>6. n \in DOMAIN deliveries /\ deliveries'[n].status # "pending"
    BY <1>2, <1>3, <1>4 DEF Deliveries
<1>7. \A b \in Senders \ {a} : work'[b] = work[b]
    BY DEF UpdateNotificationDelivery, Goes, TruthInv, WorkTypes
<1>8. \A i : i # n /\ InHand(i) => InHand(i)'
    BY <1>1, <1>7 DEF InHand
<1> QED
    BY <1>5, <1>6, <1>8 DEF NoneLetGo, Pending

LEMMA NobodyLetsGo ==
    ASSUME TruthInv, breaks \in Nat, [Next]_vars
    PROVE  NoneLetGo
<1>0. WorkTypes /\ Engine \in Senders /\ Tester \in Senders
    BY DEF TruthInv, Senders
<1>1. CASE UNCHANGED workVars
    BY <1>1 DEF workVars, NoneLetGo, Pending, InHand
<1>2. CASE Restart \/ \E a \in Senders : StoreFails(a)
    <2>1. breaks' = breaks + 1
        BY <1>2 DEF Restart, StoreFails
    <2> QED
        BY <2>1 DEF NoneLetGo
<1>3. CASE Receive \/ ListEnabledNotificationRules \/ AttachNotificationRuleChannels
    <2>1. \E w : work' = [work EXCEPT ![Engine] = w]
        BY <1>3 DEF Receive, ListEnabledNotificationRules, AttachNotificationRuleChannels, Goes
    <2>2. deliveries' = deliveries /\ work[Engine].at \notin {"send", "update"}
        BY <1>3 DEF Receive, ListEnabledNotificationRules, AttachNotificationRuleChannels
    <2> QED
        BY <1>0, <2>1, <2>2, HandsStay
<1>4. ASSUME NEW c \in Channels, StartTest(c) PROVE NoneLetGo
    <2>1. \E w : work' = [work EXCEPT ![Tester] = w]
        BY <1>4 DEF StartTest, Goes
    <2>2. deliveries' = deliveries /\ work[Tester].at \notin {"send", "update"}
        BY <1>4 DEF StartTest, storeVars
    <2> QED
        BY <1>0, <2>1, <2>2, HandsStay
<1>5. ASSUME NEW a \in Senders, GetNotificationChannelForSend(a) \/ PublishDelivered(a) \/ AfterPublish(a)
      PROVE  NoneLetGo
    <2>1. \E w : work' = [work EXCEPT ![a] = w]
        BY <1>5 DEF GetNotificationChannelForSend, PublishDelivered, AfterPublish, Goes
    <2>2. deliveries' = deliveries /\ work[a].at \notin {"send", "update"}
        BY <1>5 DEF GetNotificationChannelForSend, PublishDelivered, AfterPublish
    <2> QED
        BY <1>0, <2>1, <2>2, HandsStay
<1> QED
    BY <1>1, <1>2, <1>3, <1>4, <1>5, SenderMoves, CreatedInHand, SentInHand, UpdatedNoLongerPending
       DEF WorkMove, SendStep, workVars

LEMMA BreaksAreCounted == Spec => [](breaks \in Nat)
<1>1. Init => breaks \in Nat
    BY DEF Init
<1>2. breaks \in Nat /\ [Next]_vars => (breaks \in Nat)'
    <2> SUFFICES ASSUME breaks \in Nat, [Next]_vars PROVE breaks' \in Nat
        OBVIOUS
    <2>1. CASE BusStep \/ JobStep \/ EditStep \/ UNCHANGED vars
        BY <2>1 DEF BusStep, JobStep, EditStep, vars, notifyVars, SaveNotificationChannel, StartTest,
                    DeleteNotificationChannel, SaveNotificationRule, DeleteNotificationRule, Edited
    <2>2. ASSUME NEW a, SendStep(a) PROVE breaks' = breaks
        BY <2>2 DEF SendStep, GetNotificationChannelForSend, CreateNotificationDelivery, Send,
                    UpdateNotificationDelivery, PublishDelivered, AfterPublish, EngineStep
    <2>3. CASE EngineWorks
        BY <2>2, <2>3 DEF EngineWorks, Receive, ListEnabledNotificationRules,
                          AttachNotificationRuleChannels, EngineStep
    <2>4. CASE Restart \/ \E a \in Senders : StoreFails(a)
        <3>1. breaks' = breaks + 1
            BY <2>4 DEF Restart, StoreFails
        <3> QED
            BY <3>1
    <2> QED
        BY <2>1, <2>2, <2>3, <2>4 DEF Next
<1> QED
    BY <1>1, <1>2, PTL DEF Spec

(* A pending delivery is let go of only by a failure of the store or a stop of  *)
(* the process, for any number of deliveries and whatever the engine, a test    *)
(* and edits do at once (handleEnvelope, TestNotificationChannel).              *)
THEOREM PendingStaysInHand == Spec => PendingIsInHand
<1>1. TruthInv /\ breaks \in Nat /\ [Next]_vars => [NoneLetGo]_vars
    BY NobodyLetsGo
<1> QED
    BY <1>1, TruthAlways, BreaksAreCounted, PTL DEF Spec, PendingIsInHand, NoneLetGo

-----------------------------------------------------------------------------
(* Thresholds, and what is switched off *)

Silent(off, x, e) == ~(off[x] = On \/ off[x] >= e.at)
Warranted(off, c, n, r, e) ==
    /\ e \in Events /\ e.at <= c /\ e.failures <= n
    /\ e.failures >= MinFailures[r]
    /\ ~Silent(off, r, e)

(* What sender a may hold, off being offSince, c the clock, n the failed runs.  *)
StepWarranted(a, w, off, c, n) ==
    /\ w.at \in {"rules", "attach"} => w.event \in Events /\ w.event.at <= c /\ w.event.failures <= n
    /\ w.at = "attach" => \A r \in w.list : ~Silent(off, r, w.event)
    /\ \A pair \in w.todo : pair[1] # NoRule => a = Engine /\ Warranted(off, c, n, pair[1], w.event)
    /\ w.at = "create" /\ w.pair[1] # NoRule =>
          a = Engine /\ Warranted(off, c, n, w.pair[1], w.event) /\ ~Silent(off, w.pair[2], w.event)

EnabledIsOn ==
    /\ \A c \in DOMAIN channels : channels[c] => offSince[c] = On
    /\ \A r \in DOMAIN rules : rules[r].enabled => offSince[r] = On

WarrantInv ==
    /\ EnabledIsOn
    /\ \A a \in Senders : StepWarranted(a, work[a], offSince, clock, failedRuns)
    /\ AlertsNeedFailures
    /\ \A i \in 1 .. Len(deliveries) : deliveries[i].rule # NoRule => deliveries[i].event \in Events

LEMMA WarrantStart == Init => WarrantInv
<1> SUFFICES ASSUME Init PROVE WarrantInv
    OBVIOUS
<1>1. PICK cs \in SUBSET Channels, rs \in SUBSET Rules :
          /\ channels = [c \in cs |-> TRUE]
          /\ rules = [r \in rs |-> [enabled |-> TRUE, channels |-> cs]]
          /\ offSince = [x \in Channels \cup Rules |-> IF x \in cs \cup rs THEN On ELSE 0]
    BY DEF Init
<1>2. EnabledIsOn
    BY <1>1 DEF EnabledIsOn
<1>3. \A a \in Senders : StepWarranted(a, work[a], offSince, clock, failedRuns)
    BY DEF Init, Waiting, StepWarranted
<1>4. deliveries = <<>> /\ Len(<<>>) = 0
    BY DEF Init
<1> QED
    BY <1>2, <1>3, <1>4 DEF WarrantInv, AlertsNeedFailures

LEMMA ClockGrows ==
    ASSUME BusInv, JobInv, [Next]_vars
    PROVE  clock \in Nat /\ clock' \in Nat /\ clock <= clock'
<1>1. clock' = clock \/ clock' = clock + 1
    BY BusMoves DEF BusMove, busVars, Subscribe, Unsubscribe, Take, Offer, Publish, BusRestart
<1> QED
    BY <1>1 DEF BusInv, BusTypes

LEMMA OffSinceMoves ==
    ASSUME RowTypes, [Next]_vars, NEW x \in Channels \cup Rules
    PROVE  offSince'[x] = offSince[x] \/ offSince'[x] = On \/ offSince'[x] = clock
<1>1. ASSUME NEW y \in Channels \cup Rules, NEW on, Switched(y, on)
      PROVE  offSince'[x] = offSince[x] \/ offSince'[x] = On \/ offSince'[x] = clock
    BY <1>1 DEF Switched, RowTypes
<1>2. CASE RowMove
    BY <1>1, <1>2 DEF RowMove, SaveNotificationChannel, DeleteNotificationChannel,
                      SaveNotificationRule, DeleteNotificationRule
<1>3. CASE UNCHANGED rowVars
    BY <1>3 DEF rowVars
<1> QED
    BY <1>2, <1>3, SenderMoves DEF rowVars

LEMMA WarrantLasts ==
    ASSUME RowTypes, BusInv, JobInv, [Next]_vars, NEW e \in Events, e.at <= clock
    PROVE  /\ e.at <= clock' /\ (e.failures <= failedRuns => e.failures <= failedRuns')
           /\ \A x \in Channels \cup Rules : ~Silent(offSince, x, e) => ~Silent(offSince', x, e)
           /\ \A r \in Rules : Warranted(offSince, clock, failedRuns, r, e)
                                  => Warranted(offSince', clock', failedRuns', r, e)
<1>1. e.at \in Nat /\ e.failures \in Nat
    BY DEF Events
<1>2. e.at <= clock'
    BY <1>1, ClockGrows
<1>3. e.failures <= failedRuns => e.failures <= failedRuns'
    <2>1. failedRuns \in Nat /\ failedRuns' \in Nat /\ failedRuns <= failedRuns'
        BY RunsOnlyGrow, JobKept DEF JobInv
    <2> QED
        BY <1>1, <2>1
<1>4. ASSUME NEW x \in Channels \cup Rules, ~Silent(offSince, x, e) PROVE ~Silent(offSince', x, e)
    <2>1. offSince'[x] = offSince[x] \/ offSince'[x] = On \/ offSince'[x] = clock
        BY OffSinceMoves
    <2> QED
        BY <1>4, <2>1 DEF Silent
<1>5. ASSUME NEW r \in Rules, Warranted(offSince, clock, failedRuns, r, e)
      PROVE  Warranted(offSince', clock', failedRuns', r, e)
    BY <1>2, <1>3, <1>4, <1>5 DEF Warranted
<1> QED
    BY <1>2, <1>3, <1>4, <1>5

LEMMA StepLasts ==
    ASSUME RowTypes, BusInv, JobInv, [Next]_vars, NEW a \in Senders, NEW w \in Steps,
           w.at = "create" => w.pair \in Pairs, StepWarranted(a, w, offSince, clock, failedRuns)
    PROVE  StepWarranted(a, w, offSince', clock', failedRuns')
<1>1. w.list \subseteq Rules /\ \A pair \in w.todo : pair[1] # NoRule => pair[1] \in Rules
    BY StepFields DEF Pairs
<1>2. w.at = "create" => w.pair[2] \in Channels /\ (w.pair[1] # NoRule => w.pair[1] \in Rules)
    BY DEF Pairs
<1>3. w.at \in {"rules", "attach"} =>
          w.event \in Events /\ w.event.at <= clock' /\ w.event.failures <= failedRuns'
    BY WarrantLasts DEF StepWarranted
<1>4. w.at = "attach" => \A r \in w.list : ~Silent(offSince', r, w.event)
    BY <1>1, WarrantLasts DEF StepWarranted
<1>5. \A pair \in w.todo : pair[1] # NoRule =>
          a = Engine /\ Warranted(offSince', clock', failedRuns', pair[1], w.event)
    <2> SUFFICES ASSUME NEW pair \in w.todo, pair[1] # NoRule
                 PROVE  a = Engine /\ Warranted(offSince', clock', failedRuns', pair[1], w.event)
        OBVIOUS
    <2>1. a = Engine /\ Warranted(offSince, clock, failedRuns, pair[1], w.event)
        BY DEF StepWarranted
    <2>2. w.event \in Events /\ w.event.at <= clock /\ pair[1] \in Rules
        BY <1>1, <2>1 DEF Warranted
    <2> QED
        BY <2>1, <2>2, WarrantLasts
<1>6. ASSUME w.at = "create", w.pair[1] # NoRule
      PROVE  /\ a = Engine /\ Warranted(offSince', clock', failedRuns', w.pair[1], w.event)
             /\ ~Silent(offSince', w.pair[2], w.event)
    <2>1. /\ a = Engine /\ Warranted(offSince, clock, failedRuns, w.pair[1], w.event)
          /\ ~Silent(offSince, w.pair[2], w.event)
        BY <1>6 DEF StepWarranted
    <2>2. w.event \in Events /\ w.event.at <= clock
        BY <2>1 DEF Warranted
    <2> QED
        BY <1>2, <1>6, <2>1, <2>2, WarrantLasts
<1> QED
    BY <1>3, <1>4, <1>5, <1>6 DEF StepWarranted

LEMMA EnabledStaysOn ==
    ASSUME RowTypes, EnabledIsOn, [Next]_vars
    PROVE  EnabledIsOn'
<1>1. ASSUME NEW c \in Channels, NEW enabled \in BOOLEAN, SaveNotificationChannel(c, enabled) PROVE EnabledIsOn'
    BY <1>1, SendersAssumption DEF SaveNotificationChannel, Switched, Put, RowTypes, EnabledIsOn
<1>2. ASSUME NEW c \in Channels, DeleteNotificationChannel(c) PROVE EnabledIsOn'
    BY <1>2, SendersAssumption DEF DeleteNotificationChannel, Switched, Remove, RowTypes, RuleRows, EnabledIsOn
<1>3. ASSUME NEW r \in Rules, NEW enabled \in BOOLEAN, NEW cs \in SUBSET Channels,
             SaveNotificationRule(r, enabled, cs)
      PROVE  EnabledIsOn'
    BY <1>3, SendersAssumption DEF SaveNotificationRule, Switched, Put, RowTypes, EnabledIsOn
<1>4. ASSUME NEW r \in Rules, DeleteNotificationRule(r) PROVE EnabledIsOn'
    BY <1>4, SendersAssumption DEF DeleteNotificationRule, Switched, Remove, RowTypes, EnabledIsOn
<1>5. CASE UNCHANGED rowVars
    BY <1>5 DEF rowVars, EnabledIsOn
<1> QED
    BY <1>1, <1>2, <1>3, <1>4, <1>5, SenderMoves DEF RowMove, rowVars

LEMMA WarrantPrepared ==
    ASSUME RowTypes, BusInv, JobInv, TruthInv, WarrantInv,
           \/ Receive \/ ListEnabledNotificationRules \/ AttachNotificationRuleChannels
           \/ \E c \in Channels : StartTest(c)
    PROVE  \A a \in Senders : StepWarranted(a, work'[a], offSince, clock, failedRuns)
<1>0. /\ Engine \in Senders /\ Tester \in Senders /\ work \in [Senders -> Steps]
      /\ StepWarranted(Engine, work[Engine], offSince, clock, failedRuns)
    BY DEF Senders, TruthInv, WorkTypes, WarrantInv
<1>1. ASSUME NEW a \in Senders, NEW w, work' = [work EXCEPT ![a] = w],
             StepWarranted(a, w, offSince, clock, failedRuns)
      PROVE  \A b \in Senders : StepWarranted(b, work'[b], offSince, clock, failedRuns)
    BY <1>0, <1>1 DEF WarrantInv
<1>2. CASE Receive
    <2>1. PICK w, h : /\ h = Head(queue[Engine])
                      /\ w = IF Translated(h) THEN [Waiting EXCEPT !.at = "rules", !.event = h] ELSE Waiting
        OBVIOUS
    <2>2. h \in Events /\ h.at <= clock /\ h.failures <= failedRuns
        <3>1. PICK q : q = queue[Engine]
            OBVIOUS
        <3>2. /\ q \in Seq(Events) /\ q # <<>> /\ taken[Engine] \in [Publishers -> Nat] /\ clock \in Nat
              /\ failedRuns \in Nat /\ Ordered(q, taken[Engine], clock) /\ Counted(q, failedRuns)
            BY <1>2, <3>1 DEF Receive, Take, BusInv, BusTypes, Subscribers, JobInv
        <3> QED
            BY <2>1, <3>1, <3>2, Taken
    <2>3. StepWarranted(Engine, w, offSince, clock, failedRuns)
        BY <2>1, <2>2 DEF Waiting, StepWarranted
    <2>4. work' = [work EXCEPT ![Engine] = w]
        BY <1>2, <2>1 DEF Receive, Goes
    <2> QED
        BY <1>0, <1>1, <2>3, <2>4
<1>3. CASE ListEnabledNotificationRules
    <2>1. PICK w : w = [work[Engine] EXCEPT !.at = "attach", !.list = {r \in DOMAIN rules : rules[r].enabled}]
        OBVIOUS
    <2>2. /\ w.at = "attach" /\ w.event = work[Engine].event /\ w.todo = work[Engine].todo
          /\ w.list = {r \in DOMAIN rules : rules[r].enabled}
        BY <1>0, <2>1 DEF Steps
    <2>3. \A r \in w.list : ~Silent(offSince, r, w.event)
        BY <2>2 DEF WarrantInv, EnabledIsOn, Silent
    <2>4. StepWarranted(Engine, w, offSince, clock, failedRuns)
        BY <1>0, <1>3, <2>2, <2>3 DEF ListEnabledNotificationRules, StepWarranted
    <2>5. work' = [work EXCEPT ![Engine] = w]
        BY <1>3, <2>1 DEF ListEnabledNotificationRules, Goes
    <2> QED
        BY <1>0, <1>1, <2>4, <2>5
<1>4. CASE AttachNotificationRuleChannels
    <2>1. CASE Goes(Engine, [work[Engine] EXCEPT !.at = "next"])
        <3>1. PICK w : w = [work[Engine] EXCEPT !.at = "next"]
            OBVIOUS
        <3>2. w.at = "next" /\ w.event = work[Engine].event /\ w.todo = work[Engine].todo
            BY <1>0, <3>1 DEF Steps
        <3>3. StepWarranted(Engine, w, offSince, clock, failedRuns)
            BY <1>0, <3>2 DEF StepWarranted
        <3> QED
            BY <1>0, <1>1, <2>1, <3>1, <3>3 DEF Goes
    <2>2. ASSUME NEW r \in work[Engine].list,
                 Goes(Engine, [work[Engine] EXCEPT !.list = @ \ {r}, !.todo = @ \cup
                      IF MatchesRule(r, work[Engine].event) THEN {r} \X ChannelsOf(r) ELSE {}])
          PROVE  \A b \in Senders : StepWarranted(b, work'[b], offSince, clock, failedRuns)
        <3>1. PICK e, l, t, w : /\ e = work[Engine].event /\ l = work[Engine].list \ {r}
                                /\ t = IF MatchesRule(r, e) THEN {r} \X ChannelsOf(r) ELSE {}
                                /\ w = [work[Engine] EXCEPT !.list = l, !.todo = work[Engine].todo \cup t]
            OBVIOUS
        <3>2. w.at = "attach" /\ w.event = e /\ w.list = l /\ w.todo = work[Engine].todo \cup t
            BY <1>0, <1>4, <3>1 DEF AttachNotificationRuleChannels, Steps
        <3>3. Warranted(offSince, clock, failedRuns, r, e) \/ t = {}
            BY <1>0, <1>4, <3>1 DEF AttachNotificationRuleChannels, MatchesRule, StepWarranted, Warranted
        <3>4. \A pair \in t : pair[1] = r
            BY <3>1
        <3>5. StepWarranted(Engine, w, offSince, clock, failedRuns)
            BY <1>0, <1>4, <3>1, <3>2, <3>3, <3>4 DEF AttachNotificationRuleChannels, StepWarranted
        <3>6. work' = [work EXCEPT ![Engine] = w]
            BY <2>2, <3>1 DEF Goes
        <3> QED
            BY <1>0, <1>1, <3>5, <3>6
    <2> QED
        BY <1>4, <2>1, <2>2 DEF AttachNotificationRuleChannels
<1>5. ASSUME NEW c \in Channels, StartTest(c)
      PROVE  \A b \in Senders : StepWarranted(b, work'[b], offSince, clock, failedRuns)
    <2>1. PICK w : w = [Waiting EXCEPT !.at = "next", !.todo = {<<NoRule, c>>}]
        OBVIOUS
    <2>2. w.at = "next" /\ \A pair \in w.todo : pair[1] = NoRule
        BY <2>1 DEF Waiting
    <2>3. StepWarranted(Tester, w, offSince, clock, failedRuns)
        BY <2>2 DEF StepWarranted
    <2>4. work' = [work EXCEPT ![Tester] = w]
        BY <1>5, <2>1 DEF StartTest, Goes
    <2> QED
        BY <1>0, <1>1, <2>3, <2>4
<1> QED
    BY <1>2, <1>3, <1>4, <1>5

LEMMA WarrantSending ==
    ASSUME RowTypes, TruthInv, WarrantInv, NEW a \in Senders, SendStep(a) \/ StoreFails(a)
    PROVE  \A b \in Senders : StepWarranted(b, work'[b], offSince, clock, failedRuns)
<1>0. /\ work \in [Senders -> Steps] /\ work[a] \in Steps
      /\ StepWarranted(a, work[a], offSince, clock, failedRuns)
    BY DEF TruthInv, WorkTypes, WarrantInv
<1>1. ASSUME NEW w, work' = [work EXCEPT ![a] = w], StepWarranted(a, w, offSince, clock, failedRuns)
      PROVE  \A b \in Senders : StepWarranted(b, work'[b], offSince, clock, failedRuns)
    BY <1>0, <1>1 DEF WarrantInv
<1>2. CASE work' = [work EXCEPT ![a] = Waiting]
    <2>1. StepWarranted(a, Waiting, offSince, clock, failedRuns)
        BY DEF StepWarranted, Waiting
    <2> QED
        BY <1>1, <1>2, <2>1
<1>3. ASSUME NEW w, work' = [work EXCEPT ![a] = w],
             w.at \in {"next", "send", "update", "publish", "published"},
             w.event = work[a].event, w.todo = work[a].todo
      PROVE  \A b \in Senders : StepWarranted(b, work'[b], offSince, clock, failedRuns)
    <2>1. StepWarranted(a, w, offSince, clock, failedRuns)
        BY <1>0, <1>3 DEF StepWarranted
    <2> QED
        BY <1>1, <1>3, <2>1
<1>4. ASSUME NEW pair \in work[a].todo, NEW p \in {"create", "next"}, p = "create" => MaySend(a, pair[2]),
             work' = [work EXCEPT ![a] = [work[a] EXCEPT !.todo = @ \ {pair}, !.pair = pair, !.at = p]]
      PROVE  \A b \in Senders : StepWarranted(b, work'[b], offSince, clock, failedRuns)
    <2>1. PICK w : w = [work[a] EXCEPT !.todo = work[a].todo \ {pair}, !.pair = pair, !.at = p]
        OBVIOUS
    <2>2. w.at = p /\ w.pair = pair /\ w.todo = work[a].todo \ {pair} /\ w.event = work[a].event
        BY <1>0, <2>1 DEF Steps
    <2>3. pair[1] # NoRule => a = Engine /\ Warranted(offSince, clock, failedRuns, pair[1], w.event)
        BY <1>0, <2>2 DEF StepWarranted
    <2>4. p = "create" /\ pair[1] # NoRule => ~Silent(offSince, pair[2], w.event)
        BY <1>4, <2>3 DEF MaySend, WarrantInv, EnabledIsOn, Silent
    <2>5. p \in {"create", "next"}
        OBVIOUS
    <2>6. StepWarranted(a, w, offSince, clock, failedRuns)
        BY <1>0, <2>2, <2>3, <2>4, <2>5 DEF StepWarranted
    <2> QED
        BY <1>1, <1>4, <2>1, <2>6
<1>5. CASE GetNotificationChannelForSend(a)
    BY <1>2, <1>4, <1>5 DEF GetNotificationChannelForSend, Goes
<1>6. ASSUME NEW p \in {"next", "publish", "published"}, work' = [work EXCEPT ![a] = [work[a] EXCEPT !.at = p]]
      PROVE  \A b \in Senders : StepWarranted(b, work'[b], offSince, clock, failedRuns)
    <2>1. PICK w : w = [work[a] EXCEPT !.at = p]
        OBVIOUS
    <2>2. w.at = p /\ w.event = work[a].event /\ w.todo = work[a].todo
        BY <1>0, <2>1 DEF Steps
    <2> QED
        BY <1>3, <1>6, <2>1, <2>2
<1>7. CASE CreateNotificationDelivery(a)
    <2>1. PICK w : w = [work[a] EXCEPT !.at = "send", !.delivery = Len(deliveries')]
        OBVIOUS
    <2>2. w.at = "send" /\ w.event = work[a].event /\ w.todo = work[a].todo
        BY <1>0, <2>1 DEF Steps
    <2>3. work' = [work EXCEPT ![a] = w]
        BY <1>7, <2>1 DEF CreateNotificationDelivery, Goes
    <2> QED
        BY <1>3, <2>2, <2>3
<1>8. CASE Send(a)
    <2>1. PICK ok, w : w = [work[a] EXCEPT !.at = "update", !.ok = ok] /\ work' = [work EXCEPT ![a] = w]
        BY <1>8 DEF Send, Goes
    <2>2. w.at = "update" /\ w.event = work[a].event /\ w.todo = work[a].todo
        BY <1>0, <2>1 DEF Steps
    <2> QED
        BY <1>3, <2>1, <2>2
<1>9. CASE UpdateNotificationDelivery(a) \/ PublishDelivered(a) \/ AfterPublish(a)
    BY <1>6, <1>9 DEF UpdateNotificationDelivery, PublishDelivered, AfterPublish, Goes, Skip
<1>10. CASE StoreFails(a)
    BY <1>2, <1>4, <1>6, <1>10 DEF StoreFails, Goes, Skip
<1> QED
    BY <1>5, <1>7, <1>8, <1>9, <1>10 DEF SendStep

(* What is inserted is warranted, and what is updated stays what it is about.   *)
LEMMA DeliveriesGrow ==
    ASSUME TruthInv, [Next]_vars
    PROVE  \/ /\ DOMAIN deliveries' = DOMAIN deliveries /\ Len(deliveries') = Len(deliveries)
              /\ \A i \in 1 .. Len(deliveries) :
                    /\ deliveries'[i].rule = deliveries[i].rule /\ deliveries'[i].channel = deliveries[i].channel
                    /\ deliveries'[i].event = deliveries[i].event
           \/ \E a \in Senders :
                 /\ work[a].at = "create" /\ Len(deliveries') = Len(deliveries) + 1
                 /\ DOMAIN deliveries' = DOMAIN deliveries \cup {Len(deliveries) + 1}
                 /\ \A i \in 1 .. Len(deliveries) : deliveries'[i] = deliveries[i]
                 /\ deliveries'[Len(deliveries) + 1] =
                       [rule |-> work[a].pair[1], channel |-> work[a].pair[2],
                        event |-> work[a].event, status |-> "pending"]
                 /\ work' = [work EXCEPT ![a] = [work[a] EXCEPT !.at = "send", !.delivery = Len(deliveries')]]
                 /\ UNCHANGED busVars
<1>1. CASE UNCHANGED deliveries
    BY <1>1
<1>2. ASSUME NEW a \in Senders, CreateNotificationDelivery(a)
      PROVE  /\ work[a].at = "create" /\ Len(deliveries') = Len(deliveries) + 1
             /\ DOMAIN deliveries' = DOMAIN deliveries \cup {Len(deliveries) + 1}
             /\ \A i \in 1 .. Len(deliveries) : deliveries'[i] = deliveries[i]
             /\ deliveries'[Len(deliveries) + 1] =
                   [rule |-> work[a].pair[1], channel |-> work[a].pair[2],
                    event |-> work[a].event, status |-> "pending"]
             /\ work' = [work EXCEPT ![a] = [work[a] EXCEPT !.at = "send", !.delivery = Len(deliveries')]]
             /\ UNCHANGED busVars
    <2>1. PICK d : d = [rule |-> work[a].pair[1], channel |-> work[a].pair[2],
                        event |-> work[a].event, status |-> "pending"]
        OBVIOUS
    <2>2. d \in Deliveries
        BY <1>2, <2>1 DEF CreateNotificationDelivery, TruthInv, WorkTypes, Steps, Pairs, Deliveries
    <2>3. deliveries' = Append(deliveries, d) /\ deliveries \in Seq(Deliveries)
        BY <1>2, <2>1 DEF CreateNotificationDelivery, TruthInv, WorkTypes
    <2>4. /\ deliveries' \in Seq(Deliveries) /\ Len(deliveries') = Len(deliveries) + 1 /\ Len(deliveries) \in Nat
          /\ \A i \in 1 .. Len(deliveries) : deliveries'[i] = deliveries[i]
          /\ deliveries'[Len(deliveries) + 1] = d
        BY <2>2, <2>3, AppendProperties, LenProperties
    <2>5. DOMAIN deliveries' = 1 .. (Len(deliveries) + 1) /\ DOMAIN deliveries = 1 .. Len(deliveries)
        BY <2>3, <2>4, LenProperties
    <2>6. DOMAIN deliveries' = DOMAIN deliveries \cup {Len(deliveries) + 1}
        BY <2>4, <2>5
    <2> QED
        BY <1>2, <2>1, <2>4, <2>6 DEF CreateNotificationDelivery, Goes
<1>3. ASSUME NEW a \in Senders, UpdateNotificationDelivery(a)
      PROVE  /\ DOMAIN deliveries' = DOMAIN deliveries /\ Len(deliveries') = Len(deliveries)
             /\ \A i \in 1 .. Len(deliveries) :
                   /\ deliveries'[i].rule = deliveries[i].rule /\ deliveries'[i].channel = deliveries[i].channel
                   /\ deliveries'[i].event = deliveries[i].event
    <2>1. PICK n, d : /\ n = work[a].delivery /\ d = [deliveries[n] EXCEPT !.status = StatusOf(a)]
        OBVIOUS
    <2>2. n \in 1 .. Len(deliveries) /\ deliveries \in Seq(Deliveries) /\ deliveries[n] \in Deliveries
        BY <1>3, <2>1, ElementOfSeq DEF UpdateNotificationDelivery, Writers, TruthInv, WorkTypes
    <2>3. d \in Deliveries /\ d.rule = deliveries[n].rule /\ d.channel = deliveries[n].channel
          /\ d.event = deliveries[n].event
        BY <2>1, <2>2 DEF Deliveries, StatusOf
    <2>4. deliveries' = [deliveries EXCEPT ![n] = d]
        BY <1>3, <2>1 DEF UpdateNotificationDelivery
    <2> QED
        BY <2>2, <2>3, <2>4, ExceptSeq
<1>4. UNCHANGED deliveries \/ \E a \in Senders : CreateNotificationDelivery(a) \/ UpdateNotificationDelivery(a)
    BY SenderMoves DEF WorkMove, workVars, SendStep, StoreFails, storeVars, Restart, Receive, StartTest,
                       ListEnabledNotificationRules, AttachNotificationRuleChannels,
                       GetNotificationChannelForSend, Send, PublishDelivered, AfterPublish
<1> QED
    BY <1>1, <1>2, <1>3, <1>4

LEMMA WarrantKept ==
    ASSUME RowTypes, BusInv, JobInv, TruthInv, WarrantInv, [Next]_vars
    PROVE  WarrantInv'
<1>1. EnabledIsOn'
    BY EnabledStaysOn DEF WarrantInv
<1>2. \A a \in Senders : StepWarranted(a, work'[a], offSince, clock, failedRuns)
    <2>1. CASE UNCHANGED work
        BY <2>1 DEF WarrantInv
    <2>2. CASE Restart
        BY <2>2 DEF Restart, StepWarranted, Waiting
    <2>3. CASE WorkMove
        BY <2>2, <2>3, WarrantPrepared, WarrantSending DEF WorkMove
    <2> QED
        BY <2>1, <2>3, SenderMoves DEF workVars
<1>3. \A a \in Senders : work'[a] \in Steps /\ (work'[a].at = "create" => work'[a].pair \in Pairs)
    BY TruthKept DEF TruthInv, WorkTypes
<1>4. \A a \in Senders : StepWarranted(a, work'[a], offSince', clock', failedRuns')
    BY <1>2, <1>3, StepLasts
<1>5. failedRuns \in Nat /\ failedRuns' \in Nat /\ failedRuns <= failedRuns'
    BY RunsOnlyGrow, JobKept DEF JobInv
<1>6. CASE /\ Len(deliveries') = Len(deliveries)
            /\ \A i \in 1 .. Len(deliveries) : /\ deliveries'[i].rule = deliveries[i].rule
                                               /\ deliveries'[i].event = deliveries[i].event
    BY <1>1, <1>4, <1>5, <1>6 DEF WarrantInv, AlertsNeedFailures, Events
<1>7. ASSUME NEW a \in Senders, work[a].at = "create", Len(deliveries') = Len(deliveries) + 1,
             \A i \in 1 .. Len(deliveries) : deliveries'[i] = deliveries[i],
             deliveries'[Len(deliveries) + 1] =
                 [rule |-> work[a].pair[1], channel |-> work[a].pair[2],
                  event |-> work[a].event, status |-> "pending"]
      PROVE  WarrantInv'
    <2>1. Len(deliveries) \in Nat
        BY LenProperties DEF TruthInv, WorkTypes
    <2>2. work[a].pair[1] # NoRule => /\ work[a].event \in Events
                                     /\ work[a].event.failures >= MinFailures[work[a].pair[1]]
                                     /\ work[a].event.failures <= failedRuns
        BY <1>7 DEF WarrantInv, StepWarranted, Warranted
    <2>3. \A i \in 1 .. Len(deliveries') : i \in 1 .. Len(deliveries) \/ i = Len(deliveries) + 1
        BY <1>7, <2>1
    <2>4. ASSUME NEW i \in 1 .. Len(deliveries'), deliveries'[i].rule # NoRule
          PROVE  /\ deliveries'[i].event \in Events
                 /\ deliveries'[i].event.failures >= MinFailures[deliveries'[i].rule]
                 /\ deliveries'[i].event.failures <= failedRuns
        BY <1>7, <2>2, <2>3, <2>4 DEF WarrantInv, AlertsNeedFailures
    <2>5. \A i \in 1 .. Len(deliveries') : deliveries'[i].rule # NoRule =>
              deliveries'[i].event.failures <= failedRuns'
        BY <1>5, <2>4 DEF Events
    <2> QED
        BY <1>1, <1>4, <2>4, <2>5 DEF WarrantInv, AlertsNeedFailures
<1> QED
    BY <1>6, <1>7, DeliveriesGrow

LEMMA WarrantAlways == Spec => []WarrantInv
<1> QED
    BY WarrantStart, WarrantKept, RowsAlways, BusAlways, JobAlways, TruthAlways, PTL DEF Spec

(* However the runs of a job overlap, and whatever becomes of the rules while   *)
(* an event waits: an alert by a rule with a threshold tells of so many failed  *)
(* runs, and so many there have been (ruleMatches of match.go).                 *)
THEOREM AlertsAreEarned == Spec => []AlertsNeedFailures
<1>1. WarrantInv => AlertsNeedFailures
    BY DEF WarrantInv
<1> QED
    BY <1>1, WarrantAlways, PTL

(* A rule or channel that has been off since before an event is not spoken for  *)
(* about it, however long the event has waited (ListEnabledNotificationRules    *)
(* and GetNotificationChannelForSend, read after the event is taken).           *)
THEOREM OffIsSilent == Spec => OffStaysSilent
<1> DEFINE Speaks == \A i \in DOMAIN deliveries' \ DOMAIN deliveries :
                        deliveries'[i].rule # NoRule =>
                            \A x \in {deliveries'[i].rule, deliveries'[i].channel} :
                                offSince[x] = On \/ offSince[x] >= deliveries'[i].event.at
<1>1. ASSUME TruthInv, WarrantInv, [Next]_vars PROVE Speaks
    <2>1. CASE DOMAIN deliveries' = DOMAIN deliveries
        BY <2>1
    <2>2. ASSUME NEW a \in Senders, work[a].at = "create",
                 DOMAIN deliveries' = DOMAIN deliveries \cup {Len(deliveries) + 1},
                 deliveries'[Len(deliveries) + 1] =
                     [rule |-> work[a].pair[1], channel |-> work[a].pair[2],
                      event |-> work[a].event, status |-> "pending"]
          PROVE  Speaks
        <3>1. work[a].pair[1] # NoRule =>
                  ~Silent(offSince, work[a].pair[1], work[a].event) /\ ~Silent(offSince, work[a].pair[2], work[a].event)
            BY <1>1, <2>2 DEF WarrantInv, StepWarranted, Warranted
        <3> QED
            BY <2>2, <3>1 DEF Silent
    <2> QED
        BY <1>1, <2>1, <2>2, DeliveriesGrow
<1>2. TruthInv /\ WarrantInv /\ [Next]_vars => [Speaks]_vars
    BY <1>1
<1> QED
    BY <1>2, TruthAlways, WarrantAlways, PTL DEF Spec, OffStaysSilent

-----------------------------------------------------------------------------
(* One delivery per event, rule and channel *)

(* Of the publisher of e only later events can still reach the engine: q is its *)
(* channel, offers is sending and c the clock.                                  *)
Past(e, q, offers, c) ==
    /\ e.at <= c
    /\ \A k \in 1 .. Len(q) : q[k].from = e.from => e.at < q[k].at
    /\ \A p \in Publishers : Engine \in offers[p].left /\ p = e.from => e.at < offers[p].event.at

Told(ds, e, r, c) ==
    \E i \in 1 .. Len(ds) : ds[i].rule = r /\ ds[i].channel = c /\ ds[i].event = e

Speaking(w) ==
    \/ w.at \in {"rules", "attach"}
    \/ w.at = "create" /\ w.pair[1] # NoRule
    \/ \E pair \in w.todo : pair[1] # NoRule

(* What the engine has still to tell of its event is not told yet.              *)
Untold(w, ds) ==
    /\ w.at = "rules" => w.todo = {} /\ \A r \in Rules, c \in Channels : ~Told(ds, w.event, r, c)
    /\ w.at = "attach" => /\ \A pair \in w.todo : pair[1] \notin w.list
                          /\ \A r \in w.list, c \in Channels : ~Told(ds, w.event, r, c)
    /\ \A pair \in w.todo : pair[1] # NoRule => ~Told(ds, w.event, pair[1], pair[2])
    /\ w.at = "create" => /\ w.pair \notin w.todo
                          /\ w.pair[1] # NoRule => ~Told(ds, w.event, w.pair[1], w.pair[2])

OnceInv ==
    /\ Engine \in DOMAIN queue
    /\ OneDeliveryPerEvent
    /\ \A i \in 1 .. Len(deliveries) :
          deliveries[i].rule # NoRule => Past(deliveries[i].event, queue[Engine], sending, clock)
    /\ Speaking(work[Engine]) =>
          /\ Past(work[Engine].event, queue[Engine], sending, clock)
          /\ work[Engine].event.type = "worker_failed"
    /\ Untold(work[Engine], deliveries)

LEMMA OnceStart == Init => OnceInv
<1> SUFFICES ASSUME Init PROVE OnceInv
    OBVIOUS
<1>1. Engine \in DOMAIN queue
    BY DEF Init, BusInit
<1>2. deliveries = <<>> /\ Len(deliveries) = 0
    BY DEF Init
<1>3. work[Engine] = Waiting /\ ~Speaking(Waiting)
    BY DEF Init, Senders, Speaking, Waiting
<1>4. Untold(Waiting, deliveries)
    BY DEF Untold, Waiting
<1> QED
    BY <1>1, <1>2, <1>3, <1>4 DEF OnceInv, OneDeliveryPerEvent

LEMMA PastLasts ==
    ASSUME BusInv, JobInv, Engine \in DOMAIN queue, [Next]_vars,
           NEW e \in Events, Past(e, queue[Engine], sending, clock)
    PROVE  Past(e, queue'[Engine], sending', clock')
<1>0. /\ e.at \in Nat /\ clock \in Nat /\ clock' \in Nat /\ clock <= clock' /\ e.at <= clock'
      /\ queue[Engine] \in Seq(Events) /\ Engine \in Subscribers /\ Engine \notin Browsers
      /\ \A p \in Publishers : sending[p] \in Held
    <2>1. clock \in Nat /\ clock' \in Nat /\ clock <= clock'
        BY ClockGrows
    <2>2. e.at \in Nat /\ e.at <= clock
        BY DEF Events, Past
    <2> QED
        BY <2>1, <2>2, EngineAssumption DEF BusInv, BusTypes, Subscribers
<1>1. ASSUME NEW b \in Browsers, Subscribe(b) \/ Unsubscribe(b)
      PROVE  Past(e, queue'[Engine], sending', clock')
    <2>1. queue'[Engine] = queue[Engine] /\ sending' = sending
        BY <1>0, <1>1 DEF Subscribe, Unsubscribe
    <2> QED
        BY <1>0, <2>1 DEF Past
<1>2. ASSUME NEW s \in Subscribers, Take(s)
      PROVE  Past(e, queue'[Engine], sending', clock')
    <2>1. PICK q : q = queue[Engine]
        OBVIOUS
    <2>2. sending' = sending /\ queue'[Engine] = (IF s = Engine THEN Tail(q) ELSE q)
        BY <1>2, <2>1 DEF Take, BusInv, BusTypes
    <2>3. s = Engine => /\ Len(Tail(q)) = Len(q) - 1 /\ Len(q) \in Nat
                        /\ \A k \in 1 .. Len(Tail(q)) : Tail(q)[k] = q[k + 1]
        BY <1>0, <1>2, <2>1, HeadTailProperties, LenProperties DEF Take
    <2>4. \A k \in 1 .. Len(queue'[Engine]) : queue'[Engine][k].from = e.from => e.at < queue'[Engine][k].at
        BY <2>1, <2>2, <2>3 DEF Past
    <2> QED
        BY <1>0, <2>2, <2>4 DEF Past
<1>3. ASSUME NEW p \in Publishers, NEW s \in Subscribers, Offer(p, s)
      PROVE  Past(e, queue'[Engine], sending', clock')
    <2>1. PICK q, f, w : q = queue[Engine] /\ f = sending[p].event
                         /\ w = IF sending[p].left = {s} THEN Quiet
                                ELSE [sending[p] EXCEPT !.left = sending[p].left \ {s}]
        OBVIOUS
    <2>2. /\ queue'[Engine] = (IF s = Engine THEN Offered(q, s, f) ELSE q)
          /\ sending' = [sending EXCEPT ![p] = w]
        BY <1>3, <2>1 DEF Offer, BusInv, BusTypes
    <2>3. w.left \subseteq sending[p].left /\ (w.left # {} => w.event = f)
        BY <1>0, <2>1 DEF Held, Quiet
    <2>4. \A o \in Publishers : Engine \in sending'[o].left /\ o = e.from => e.at < sending'[o].event.at
        BY <2>1, <2>2, <2>3 DEF Past, BusInv, BusTypes
    <2>5. f \in Events /\ f.from = p /\ (s = Engine /\ p = e.from => e.at < f.at)
        BY <1>3, <2>1 DEF Offer, BusInv, Past
    <2>6. /\ Len(q) \in Nat /\ Len(Append(q, f)) = Len(q) + 1 /\ Append(q, f)[Len(q) + 1] = f
          /\ \A k \in 1 .. Len(q) : Append(q, f)[k] = q[k]
        BY <1>0, <2>1, <2>5, AppendProperties, LenProperties
    <2>7. \A k \in 1 .. Len(q) : q[k].from = e.from => e.at < q[k].at
        BY <2>1 DEF Past
    <2>8. \A k \in 1 .. Len(Append(q, f)) : s = Engine /\ Append(q, f)[k].from = e.from => e.at < Append(q, f)[k].at
        <3>1. \A k \in 1 .. Len(Append(q, f)) : k \in 1 .. Len(q) \/ k = Len(q) + 1
            BY <2>6
        <3> QED
            BY <2>5, <2>6, <2>7, <3>1
    <2>9. queue'[Engine] = q \/ (s = Engine /\ queue'[Engine] = Append(q, f))
        BY <2>2 DEF Offered
    <2> QED
        BY <1>0, <2>4, <2>7, <2>8, <2>9 DEF Past
<1>4. ASSUME NEW p \in Publishers, NEW k \in Kinds, NEW n \in 0 .. failedRuns, Publish(p, k, n)
      PROVE  Past(e, queue'[Engine], sending', clock')
    <2>1. PICK w : w = IF DOMAIN queue = {} THEN Quiet ELSE [event |-> Event(p, k, n), left |-> DOMAIN queue]
        OBVIOUS
    <2>2. sending' = [sending EXCEPT ![p] = w] /\ queue' = queue
        BY <1>4, <2>1 DEF Publish
    <2>3. w.left # {} => w.event.at = clock + 1
        BY <2>1 DEF Quiet, Event
    <2>4. e.at < clock + 1
        BY <1>0 DEF Past
    <2>5. \A o \in Publishers : Engine \in sending'[o].left /\ o = e.from => e.at < sending'[o].event.at
        BY <2>2, <2>3, <2>4 DEF Past, BusInv, BusTypes
    <2> QED
        BY <1>0, <2>2, <2>5 DEF Past
<1>5. CASE BusRestart
    <2>1. queue'[Engine] = <<>> /\ Len(<<>>) = 0 /\ \A p \in Publishers : sending'[p].left = {}
        BY <1>5 DEF BusRestart, Quiet
    <2> QED
        BY <1>0, <2>1 DEF Past
<1>6. CASE UNCHANGED busVars
    BY <1>6 DEF busVars
<1> QED
    BY <1>1, <1>2, <1>3, <1>4, <1>5, <1>6, BusMoves DEF BusMove

LEMMA EngineStays ==
    ASSUME BusInv, JobInv, Engine \in DOMAIN queue, [Next]_vars
    PROVE  Engine \in DOMAIN queue'
BY BusMoves, EngineAssumption DEF BusMove, busVars, Subscribe, Unsubscribe, Take, Offer, Publish, BusRestart

(* What the engine takes is past, and nothing has been told of it.              *)
LEMMA ReceivedIsNew ==
    ASSUME BusInv, JobInv, WarrantInv, OnceInv, Receive
    PROVE  /\ Past(Head(queue[Engine]), queue'[Engine], sending', clock')
           /\ \A r \in Rules, c \in Channels : ~Told(deliveries, Head(queue[Engine]), r, c)
<1>1. PICK q, h, t : q = queue[Engine] /\ h = Head(q) /\ t = [taken[Engine] EXCEPT ![h.from] = h.at]
    OBVIOUS
<1>2. /\ q \in Seq(Events) /\ q # <<>> /\ taken[Engine] \in [Publishers -> Nat] /\ clock \in Nat
      /\ failedRuns \in Nat /\ Ordered(q, taken[Engine], clock) /\ Counted(q, failedRuns)
      /\ queue'[Engine] = Tail(q) /\ sending' = sending /\ clock' = clock
    BY <1>1 DEF Receive, Take, BusInv, BusTypes, Subscribers, JobInv
<1>3. /\ h \in Events /\ h.at <= clock /\ Tail(q) \in Seq(Events) /\ Ordered(Tail(q), t, clock)
      /\ \A f \in Events : LaterThan(q, f) => (f.from = h.from => h.at < f.at)
    BY <1>1, <1>2, Taken
<1>4. t[h.from] = h.at
    BY <1>1, <1>2, <1>3 DEF Events
<1>5. \A k \in 1 .. Len(Tail(q)) : Tail(q)[k].from = h.from => h.at < Tail(q)[k].at
    BY <1>3, <1>4 DEF Ordered
<1>6. \A p \in Publishers : Engine \in sending[p].left /\ p = h.from => h.at < sending[p].event.at
    BY <1>1, <1>3 DEF BusInv
<1>7. Past(h, queue'[Engine], sending', clock')
    BY <1>2, <1>3, <1>5, <1>6 DEF Past
<1>8. ASSUME NEW r \in Rules, NEW c \in Channels, Told(deliveries, h, r, c) PROVE FALSE
    <2>1. PICK i \in 1 .. Len(deliveries) : deliveries[i].rule = r /\ deliveries[i].event = h
        BY <1>8 DEF Told
    <2>2. Past(h, q, sending, clock)
        BY <1>1, <2>1, SendersAssumption DEF OnceInv
    <2>3. 1 \in 1 .. Len(q) /\ q[1] = h
        BY <1>1, <1>2, EmptySeq
    <2> QED
        BY <1>3, <2>2, <2>3 DEF Past, Events
<1> QED
    BY <1>1, <1>7, <1>8

(* What the engine still has to tell of its event stays new.                    *)
Holds(w, q, offers, c, ds) ==
    /\ Untold(w, ds)
    /\ Speaking(w) => Past(w.event, q, offers, c) /\ w.event.type = "worker_failed"

LEMMA SpeakingLasts ==
    ASSUME BusInv, JobInv, WarrantInv, OnceInv, [Next]_vars, Speaking(work[Engine])
    PROVE  /\ work[Engine].event.type = "worker_failed"
           /\ Past(work[Engine].event, queue'[Engine], sending', clock')
<1>1. StepWarranted(Engine, work[Engine], offSince, clock, failedRuns)
    BY DEF Senders, WarrantInv
<1>2. work[Engine].event \in Events
    BY <1>1 DEF StepWarranted, Warranted, Speaking
<1> QED
    BY <1>2, PastLasts DEF OnceInv

LEMMA OncePrepared ==
    ASSUME RowTypes, BusInv, JobInv, TruthInv, WarrantInv, OnceInv, [Next]_vars,
           \/ Receive \/ ListEnabledNotificationRules \/ AttachNotificationRuleChannels
           \/ \E c \in Channels : StartTest(c)
    PROVE  Holds(work'[Engine], queue'[Engine], sending', clock', deliveries)
<1>0. /\ Engine \in Senders /\ Tester \in Senders /\ work \in [Senders -> Steps] /\ work[Engine] \in Steps
      /\ Untold(work[Engine], deliveries)
    BY DEF Senders, TruthInv, WorkTypes, OnceInv
<1>1. Speaking(work[Engine]) => /\ Past(work[Engine].event, queue'[Engine], sending', clock')
                                /\ work[Engine].event.type = "worker_failed"
    BY SpeakingLasts
<1>2. CASE Receive
    <2>1. PICK h : h = Head(queue[Engine])
        OBVIOUS
    <2>2. CASE Translated(h)
        <3>1. PICK w : w = [Waiting EXCEPT !.at = "rules", !.event = h]
            OBVIOUS
        <3>2. w.at = "rules" /\ w.event = h /\ w.todo = {}
            BY <3>1 DEF Waiting
        <3>3. work'[Engine] = w
            BY <1>0, <1>2, <2>1, <2>2, <3>1 DEF Receive, Goes
        <3>4. /\ Past(h, queue'[Engine], sending', clock')
              /\ \A r \in Rules, c \in Channels : ~Told(deliveries, h, r, c)
            BY <1>2, <2>1, ReceivedIsNew
        <3>5. Untold(w, deliveries)
            BY <3>2, <3>4 DEF Untold
        <3> QED
            BY <2>2, <3>2, <3>3, <3>4, <3>5 DEF Holds, Translated
    <2>3. CASE ~Translated(h)
        <3>1. work'[Engine] = Waiting
            BY <1>0, <1>2, <2>1, <2>3 DEF Receive, Goes
        <3>2. Untold(Waiting, deliveries) /\ ~Speaking(Waiting)
            BY DEF Untold, Speaking, Waiting
        <3> QED
            BY <3>1, <3>2 DEF Holds
    <2> QED
        BY <2>2, <2>3
<1>3. CASE ListEnabledNotificationRules
    <2>1. PICK l, w : /\ l = {r \in DOMAIN rules : rules[r].enabled}
                      /\ w = [work[Engine] EXCEPT !.at = "attach", !.list = l]
        OBVIOUS
    <2>2. w.at = "attach" /\ w.event = work[Engine].event /\ w.todo = work[Engine].todo /\ w.list = l
        BY <1>0, <2>1 DEF Steps
    <2>3. work'[Engine] = w /\ work[Engine].at = "rules"
        BY <1>0, <1>3, <2>1 DEF ListEnabledNotificationRules, Goes
    <2>4. l \subseteq Rules /\ Speaking(work[Engine])
        BY <2>1, <2>3 DEF RowTypes, Speaking
    <2>5. Untold(w, deliveries)
        BY <1>0, <2>2, <2>3, <2>4 DEF Untold
    <2> QED
        BY <1>1, <2>2, <2>3, <2>4, <2>5 DEF Holds
<1>4. CASE AttachNotificationRuleChannels
    <2>0. work[Engine].at = "attach" /\ Speaking(work[Engine]) /\ work[Engine].list \subseteq Rules
        BY <1>0, <1>4, StepFields DEF AttachNotificationRuleChannels, Speaking
    <2>1. CASE Goes(Engine, [work[Engine] EXCEPT !.at = "next"])
        <3>1. PICK w : w = [work[Engine] EXCEPT !.at = "next"]
            OBVIOUS
        <3>2. w.at = "next" /\ w.event = work[Engine].event /\ w.todo = work[Engine].todo
            BY <1>0, <3>1 DEF Steps
        <3>3. Untold(w, deliveries)
            BY <1>0, <3>2 DEF Untold
        <3>4. work'[Engine] = w
            BY <1>0, <2>1, <3>1 DEF Goes
        <3> QED
            BY <1>1, <2>0, <3>2, <3>3, <3>4 DEF Holds
    <2>2. ASSUME NEW r \in work[Engine].list,
                 Goes(Engine, [work[Engine] EXCEPT !.list = @ \ {r}, !.todo = @ \cup
                      IF MatchesRule(r, work[Engine].event) THEN {r} \X ChannelsOf(r) ELSE {}])
          PROVE  Holds(work'[Engine], queue'[Engine], sending', clock', deliveries)
        <3>1. PICK e, l, t, w : /\ e = work[Engine].event /\ l = work[Engine].list \ {r}
                                /\ t = IF MatchesRule(r, e) THEN {r} \X ChannelsOf(r) ELSE {}
                                /\ w = [work[Engine] EXCEPT !.list = l, !.todo = work[Engine].todo \cup t]
            OBVIOUS
        <3>2. w.at = "attach" /\ w.event = e /\ w.list = l /\ w.todo = work[Engine].todo \cup t
            BY <1>0, <2>0, <3>1 DEF Steps
        <3>3. ChannelsOf(r) \subseteq Channels
            BY <2>0 DEF ChannelsOf, RowTypes, RuleRows
        <3>4. \A pair \in t : pair[1] = r /\ pair[2] \in Channels
            BY <3>1, <3>3
        <3>5. \A pair \in t : pair[1] \notin l /\ ~Told(deliveries, e, pair[1], pair[2])
            BY <1>0, <2>0, <3>1, <3>4 DEF Untold
        <3>6. /\ \A pair \in work[Engine].todo : pair[1] \notin work[Engine].list
              /\ \A x \in work[Engine].list, c \in Channels : ~Told(deliveries, e, x, c)
              /\ \A pair \in work[Engine].todo : pair[1] # NoRule => ~Told(deliveries, e, pair[1], pair[2])
            BY <1>0, <2>0, <3>1 DEF Untold
        <3>7. /\ \A pair \in w.todo : pair[1] \notin w.list
              /\ \A x \in w.list, c \in Channels : ~Told(deliveries, w.event, x, c)
              /\ \A pair \in w.todo : pair[1] # NoRule => ~Told(deliveries, w.event, pair[1], pair[2])
            BY <3>1, <3>2, <3>5, <3>6
        <3>8. Untold(w, deliveries)
            BY <3>2, <3>7 DEF Untold
        <3>9. work'[Engine] = w
            BY <1>0, <2>2, <3>1 DEF Goes
        <3> QED
            BY <1>1, <2>0, <3>1, <3>2, <3>8, <3>9 DEF Holds
    <2> QED
        BY <1>4, <2>1, <2>2 DEF AttachNotificationRuleChannels
<1>5. ASSUME NEW c \in Channels, StartTest(c)
      PROVE  Holds(work'[Engine], queue'[Engine], sending', clock', deliveries)
    <2>1. PICK w : w = [Waiting EXCEPT !.at = "next", !.todo = {<<NoRule, c>>}]
        OBVIOUS
    <2>2. w.at = "next" /\ \A pair \in w.todo : pair[1] = NoRule
        BY <2>1 DEF Waiting
    <2>3. Untold(w, deliveries) /\ ~Speaking(w)
        BY <2>2 DEF Untold, Speaking
    <2>4. work' = [work EXCEPT ![Tester] = w]
        BY <1>5, <2>1 DEF StartTest, Goes
    <2>5. work'[Engine] = w \/ work'[Engine] = work[Engine]
        BY <1>0, <2>4
    <2> QED
        BY <1>0, <1>1, <2>3, <2>5 DEF Holds
<1> QED
    BY <1>2, <1>3, <1>4, <1>5

LEMMA OnceSending ==
    ASSUME RowTypes, BusInv, JobInv, TruthInv, WarrantInv, OnceInv, [Next]_vars,
           NEW a \in Senders, SendStep(a) \/ StoreFails(a)
    PROVE  Holds(work'[Engine], queue'[Engine], sending', clock', deliveries)
<1>0. /\ Engine \in Senders /\ work \in [Senders -> Steps] /\ work[a] \in Steps /\ work[Engine] \in Steps
      /\ Untold(work[Engine], deliveries)
    BY DEF Senders, TruthInv, WorkTypes, OnceInv
<1>1. Speaking(work[Engine]) => /\ Past(work[Engine].event, queue'[Engine], sending', clock')
                                /\ work[Engine].event.type = "worker_failed"
    BY SpeakingLasts
<1>2. ASSUME NEW w, work' = [work EXCEPT ![a] = w],
             Untold(work[a], deliveries) => Untold(w, deliveries),
             Speaking(w) => Speaking(work[a]) /\ w.event = work[a].event
      PROVE  Holds(work'[Engine], queue'[Engine], sending', clock', deliveries)
    <2>1. work'[Engine] = IF a = Engine THEN w ELSE work[Engine]
        BY <1>0, <1>2
    <2>2. CASE a = Engine
        BY <1>0, <1>1, <1>2, <2>1, <2>2 DEF Holds
    <2>3. CASE a # Engine
        BY <1>0, <1>1, <2>1, <2>3 DEF Holds
    <2> QED
        BY <2>2, <2>3
<1>3. CASE work' = [work EXCEPT ![a] = Waiting]
    <2>1. Untold(Waiting, deliveries) /\ ~Speaking(Waiting)
        BY DEF Untold, Speaking, Waiting
    <2> QED
        BY <1>2, <1>3, <2>1
<1>4. ASSUME NEW w, work' = [work EXCEPT ![a] = w],
             w.at \in {"next", "send", "update", "publish", "published"},
             w.event = work[a].event, w.todo = work[a].todo
      PROVE  Holds(work'[Engine], queue'[Engine], sending', clock', deliveries)
    <2>1. Untold(work[a], deliveries) => Untold(w, deliveries)
        BY <1>4 DEF Untold
    <2>2. Speaking(w) => Speaking(work[a])
        BY <1>4 DEF Speaking
    <2> QED
        BY <1>2, <1>4, <2>1, <2>2
<1>5. ASSUME NEW pair \in work[a].todo, NEW p \in {"create", "next"},
             work' = [work EXCEPT ![a] = [work[a] EXCEPT !.todo = @ \ {pair}, !.pair = pair, !.at = p]]
      PROVE  Holds(work'[Engine], queue'[Engine], sending', clock', deliveries)
    <2>1. PICK w : w = [work[a] EXCEPT !.todo = work[a].todo \ {pair}, !.pair = pair, !.at = p]
        OBVIOUS
    <2>2. w.at = p /\ w.pair = pair /\ w.todo = work[a].todo \ {pair} /\ w.event = work[a].event
        BY <1>0, <2>1 DEF Steps
    <2>3. p \in {"create", "next"}
        OBVIOUS
    <2>4. Untold(work[a], deliveries) => Untold(w, deliveries)
        BY <1>5, <2>2, <2>3 DEF Untold
    <2>5. Speaking(w) => Speaking(work[a])
        BY <1>5, <2>2, <2>3 DEF Speaking
    <2> QED
        BY <1>2, <1>5, <2>1, <2>2, <2>4, <2>5
<1>6. CASE GetNotificationChannelForSend(a)
    BY <1>3, <1>5, <1>6 DEF GetNotificationChannelForSend, Goes
<1>7. ASSUME NEW p \in {"next", "publish", "published"}, work' = [work EXCEPT ![a] = [work[a] EXCEPT !.at = p]]
      PROVE  Holds(work'[Engine], queue'[Engine], sending', clock', deliveries)
    <2>1. PICK w : w = [work[a] EXCEPT !.at = p]
        OBVIOUS
    <2>2. w.at = p /\ w.event = work[a].event /\ w.todo = work[a].todo
        BY <1>0, <2>1 DEF Steps
    <2> QED
        BY <1>4, <1>7, <2>1, <2>2
<1>8. CASE CreateNotificationDelivery(a)
    <2>1. PICK w : w = [work[a] EXCEPT !.at = "send", !.delivery = Len(deliveries')]
        OBVIOUS
    <2>2. w.at = "send" /\ w.event = work[a].event /\ w.todo = work[a].todo
        BY <1>0, <2>1 DEF Steps
    <2>3. work' = [work EXCEPT ![a] = w]
        BY <1>8, <2>1 DEF CreateNotificationDelivery, Goes
    <2> QED
        BY <1>4, <2>2, <2>3
<1>9. CASE Send(a)
    <2>1. PICK ok, w : w = [work[a] EXCEPT !.at = "update", !.ok = ok] /\ work' = [work EXCEPT ![a] = w]
        BY <1>9 DEF Send, Goes
    <2>2. w.at = "update" /\ w.event = work[a].event /\ w.todo = work[a].todo
        BY <1>0, <2>1 DEF Steps
    <2> QED
        BY <1>4, <2>1, <2>2
<1>10. CASE UpdateNotificationDelivery(a) \/ PublishDelivered(a) \/ AfterPublish(a)
    BY <1>7, <1>10 DEF UpdateNotificationDelivery, PublishDelivered, AfterPublish, Goes, Skip
<1>11. CASE StoreFails(a)
    BY <1>3, <1>5, <1>7, <1>11 DEF StoreFails, Goes, Skip
<1> QED
    BY <1>6, <1>8, <1>9, <1>10, <1>11 DEF SendStep

LEMMA EngineHolds ==
    ASSUME RowTypes, BusInv, JobInv, TruthInv, WarrantInv, OnceInv, [Next]_vars
    PROVE  Holds(work'[Engine], queue'[Engine], sending', clock', deliveries)
<1>1. CASE UNCHANGED work
    BY <1>1, SpeakingLasts DEF Holds, OnceInv
<1>2. CASE Restart
    <2>1. work'[Engine] = Waiting
        BY <1>2 DEF Restart, Senders
    <2>2. Untold(Waiting, deliveries) /\ ~Speaking(Waiting)
        BY DEF Untold, Speaking, Waiting
    <2> QED
        BY <2>1, <2>2 DEF Holds
<1>3. CASE WorkMove
    BY <1>2, <1>3, OncePrepared, OnceSending DEF WorkMove
<1> QED
    BY <1>1, <1>3, SenderMoves DEF workVars

(* Only what has been told to channels of rules decides what is untold.         *)
LEMMA UntoldLasts ==
    ASSUME NEW w \in Steps, w.at = "create" => w.pair \in Pairs, NEW ds, NEW es, Untold(w, ds),
           \A e \in Events \cup {NoEvent}, r \in Rules, c \in Channels : Told(es, e, r, c) => Told(ds, e, r, c)
    PROVE  Untold(w, es)
<1>1. w.event \in Events \cup {NoEvent} /\ w.list \subseteq Rules
    BY StepFields
<1>2. \A pair \in w.todo : pair[1] \in Rules \cup {NoRule} /\ pair[2] \in Channels
    BY StepFields DEF Pairs
<1>3. w.at = "create" => w.pair[1] \in Rules \cup {NoRule} /\ w.pair[2] \in Channels
    BY DEF Pairs
<1> QED
    BY <1>1, <1>2, <1>3 DEF Untold

LEMMA OnceKept ==
    ASSUME RowTypes, BusInv, JobInv, TruthInv, WarrantInv, OnceInv, [Next]_vars
    PROVE  OnceInv'
<1>0. /\ Engine \in Senders /\ work \in [Senders -> Steps] /\ work[Engine] \in Steps
      /\ Len(deliveries) \in Nat /\ Engine \in DOMAIN queue' /\ work'[Engine] \in Steps
      /\ (work'[Engine].at = "create" => work'[Engine].pair \in Pairs)
    BY TruthKept, EngineStays, LenProperties DEF Senders, TruthInv, WorkTypes, OnceInv
<1>1. Holds(work'[Engine], queue'[Engine], sending', clock', deliveries)
    BY EngineHolds
<1>2. \A i \in 1 .. Len(deliveries) : deliveries[i].rule # NoRule =>
          Past(deliveries[i].event, queue'[Engine], sending', clock')
    BY PastLasts DEF OnceInv, WarrantInv
<1>3. ASSUME Len(deliveries') = Len(deliveries),
             \A i \in 1 .. Len(deliveries) :
                /\ deliveries'[i].rule = deliveries[i].rule /\ deliveries'[i].channel = deliveries[i].channel
                /\ deliveries'[i].event = deliveries[i].event
      PROVE  OnceInv'
    <2>1. \A e, r, c : Told(deliveries', e, r, c) => Told(deliveries, e, r, c)
        BY <1>3 DEF Told
    <2>2. Untold(work'[Engine], deliveries')
        BY <1>0, <1>1, <2>1, UntoldLasts DEF Holds
    <2>3. OneDeliveryPerEvent'
        BY <1>3 DEF OnceInv, OneDeliveryPerEvent
    <2>4. \A i \in 1 .. Len(deliveries') : deliveries'[i].rule # NoRule =>
              Past(deliveries'[i].event, queue'[Engine], sending', clock')
        BY <1>2, <1>3
    <2> QED
        BY <1>0, <1>1, <2>2, <2>3, <2>4 DEF OnceInv, Holds
<1>4. ASSUME NEW a \in Senders, work[a].at = "create", Len(deliveries') = Len(deliveries) + 1,
             \A i \in 1 .. Len(deliveries) : deliveries'[i] = deliveries[i],
             deliveries'[Len(deliveries) + 1] =
                 [rule |-> work[a].pair[1], channel |-> work[a].pair[2],
                  event |-> work[a].event, status |-> "pending"],
             work' = [work EXCEPT ![a] = [work[a] EXCEPT !.at = "send", !.delivery = Len(deliveries')]],
             UNCHANGED busVars
      PROVE  OnceInv'
    <2>0. PICK n, d : n = Len(deliveries) + 1 /\ d = deliveries'[n]
        OBVIOUS
    <2>1. /\ \A i \in 1 .. Len(deliveries') : (i \in 1 .. Len(deliveries) /\ i # n) \/ i = n
          /\ n \in 1 .. Len(deliveries')
          /\ d.rule = work[a].pair[1] /\ d.channel = work[a].pair[2] /\ d.event = work[a].event
        BY <1>0, <1>4, <2>0
    <2>2. \A e, r, c : Told(deliveries', e, r, c) =>
              Told(deliveries, e, r, c) \/ (d.rule = r /\ d.channel = c /\ d.event = e)
        BY <1>4, <2>0, <2>1 DEF Told
    <2>3. d.rule # NoRule => /\ a = Engine /\ d.event.type = "worker_failed"
                             /\ ~Told(deliveries, d.event, d.rule, d.channel)
                             /\ Past(d.event, queue'[Engine], sending', clock')
        <3> SUFFICES ASSUME d.rule # NoRule
                     PROVE  /\ a = Engine /\ d.event.type = "worker_failed"
                            /\ ~Told(deliveries, d.event, d.rule, d.channel)
                            /\ Past(d.event, queue'[Engine], sending', clock')
            OBVIOUS
        <3>1. a = Engine
            BY <1>4, <2>1 DEF WarrantInv, StepWarranted
        <3>2. Speaking(work[Engine])
            BY <1>4, <2>1, <3>1 DEF Speaking
        <3>3. ~Told(deliveries, d.event, d.rule, d.channel)
            BY <1>4, <2>1, <3>1 DEF OnceInv, Untold
        <3> QED
            BY <2>1, <3>1, <3>2, <3>3, SpeakingLasts
    <2>4. OneDeliveryPerEvent'
        <3>1. ASSUME NEW i \in 1 .. Len(deliveries), deliveries[i].rule # NoRule
              PROVE  deliveries[i].event.type = "worker_failed"
            BY <3>1 DEF OnceInv, OneDeliveryPerEvent
        <3>2. \A i \in 1 .. Len(deliveries) : d.rule # NoRule =>
                  \/ deliveries[i].rule # d.rule \/ deliveries[i].channel # d.channel
                  \/ deliveries[i].event # d.event
            BY <2>3 DEF Told
        <3>3. ASSUME NEW i \in 1 .. Len(deliveries'), NEW j \in 1 .. Len(deliveries'), i # j,
                     deliveries'[i].rule # NoRule
              PROVE  \/ deliveries'[i].rule # deliveries'[j].rule
                     \/ deliveries'[i].channel # deliveries'[j].channel
                     \/ deliveries'[i].event # deliveries'[j].event
            <4>1. CASE i = n
                <5>1. j \in 1 .. Len(deliveries) /\ deliveries'[j] = deliveries[j]
                    BY <1>4, <2>1, <3>3, <4>1
                <5> QED
                    BY <2>0, <3>2, <3>3, <4>1, <5>1
            <4>2. CASE j = n
                <5>1. i \in 1 .. Len(deliveries) /\ deliveries'[i] = deliveries[i]
                    BY <1>4, <2>1, <3>3, <4>2
                <5> QED
                    BY <2>0, <3>2, <3>3, <4>2, <5>1
            <4>3. CASE i # n /\ j # n
                <5>1. /\ i \in 1 .. Len(deliveries) /\ deliveries'[i] = deliveries[i]
                      /\ j \in 1 .. Len(deliveries) /\ deliveries'[j] = deliveries[j]
                    BY <1>4, <2>1, <4>3
                <5> QED
                    BY <3>3, <5>1 DEF OnceInv, OneDeliveryPerEvent
            <4> QED
                BY <4>1, <4>2, <4>3
        <3>4. ASSUME NEW i \in 1 .. Len(deliveries'), deliveries'[i].rule # NoRule
              PROVE  deliveries'[i].event.type = "worker_failed"
            BY <1>4, <2>0, <2>1, <2>3, <3>1, <3>4
        <3> QED
            BY <3>3, <3>4 DEF OneDeliveryPerEvent
    <2>5. \A i \in 1 .. Len(deliveries') : deliveries'[i].rule # NoRule =>
              Past(deliveries'[i].event, queue'[Engine], sending', clock')
        BY <1>2, <1>4, <2>0, <2>1, <2>3
    <2>6. CASE d.rule = NoRule
        <3>1. \A e \in Events \cup {NoEvent}, r \in Rules, c \in Channels :
                  Told(deliveries', e, r, c) => Told(deliveries, e, r, c)
            BY <2>2, <2>6, SendersAssumption
        <3>2. Untold(work'[Engine], deliveries')
            BY <1>0, <1>1, <3>1, UntoldLasts DEF Holds
        <3> QED
            BY <1>0, <1>1, <2>4, <2>5, <3>2 DEF OnceInv, Holds
    <2>7. CASE d.rule # NoRule
        <3>1. PICK w : w = [work[Engine] EXCEPT !.at = "send", !.delivery = Len(deliveries')]
            OBVIOUS
        <3>2. w.at = "send" /\ w.event = work[Engine].event /\ w.todo = work[Engine].todo
            BY <1>0, <3>1 DEF Steps
        <3>3. work'[Engine] = w
            BY <1>0, <1>4, <2>3, <2>7, <3>1
        <3>4. work[Engine].pair \in Pairs /\ work[Engine].pair \notin work[Engine].todo
              /\ work[Engine].todo \subseteq Pairs
            BY <1>0, <1>4, <2>3, <2>7, StepFields DEF OnceInv, Untold, TruthInv, WorkTypes
        <3>5. ASSUME NEW pair \in w.todo, pair[1] # NoRule PROVE ~Told(deliveries', w.event, pair[1], pair[2])
            <4>1. ~Told(deliveries, w.event, pair[1], pair[2])
                BY <3>2, <3>5 DEF OnceInv, Untold
            <4>2. d.rule # pair[1] \/ d.channel # pair[2]
                BY <2>1, <2>3, <2>7, <3>2, <3>4 DEF Pairs
            <4> QED
                BY <2>2, <4>1, <4>2
        <3>6. Untold(w, deliveries')
            BY <3>2, <3>5 DEF Untold
        <3> QED
            BY <1>0, <1>1, <2>4, <2>5, <3>3, <3>6 DEF OnceInv, Holds
    <2> QED
        BY <2>6, <2>7
<1> QED
    BY <1>3, <1>4, DeliveriesGrow

LEMMA OnceAlways == Spec => []OnceInv
<1> QED
    BY OnceStart, OnceKept, RowsAlways, BusAlways, JobAlways, TruthAlways, WarrantAlways, PTL DEF Spec

(* Deliveries publish events that the engine reads again, rules change while an *)
(* event waits, and statements fail half-way: an event makes at most one        *)
(* delivery for a rule and a channel, and only a failed job makes any           *)
(* (handleEnvelope).                                                            *)
THEOREM EventsAreToldOnce == Spec => []OneDeliveryPerEvent
<1>1. OnceInv => OneDeliveryPerEvent
    BY DEF OnceInv
<1> QED
    BY <1>1, OnceAlways, PTL

=============================================================================
