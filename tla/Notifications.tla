---------------------------- MODULE Notifications ----------------------------
(* internal/notifications: the engine takes events from the bus, looks up the   *)
(* enabled rules and, for each of their channels, stores a pending delivery,    *)
(* sends, stores the outcome and publishes it on the bus it reads from itself.  *)
(* A user edits rules and channels and tests a channel meanwhile                *)
(* (internal/app/notifications.go, internal/store/sqlite/notifications.go).     *)
(* The worker events come from JobState.                                        *)
EXTENDS JobState

CONSTANTS
    User, Tester,     \* requests that edit, and one that tests a channel
    Channels, Rules, NoRule,
    MinFailures,      \* from rules to minConsecutiveFailures, 3 unless a rule sets it
    MaxEdits, MaxTests, MaxBreaks  \* bounds

ASSUME SendersAssumption ==
    /\ {User, Tester} \subseteq Publishers
    /\ NoRule \notin Rules
    /\ Channels \cap Rules = {}
    /\ MinFailures \in [Rules -> Nat]

VARIABLES
    channels,    \* notification_channels: from ids to enabled
    rules,       \* notification_rules with their notification_rule_channels
    deliveries,  \* notification_deliveries in the order of their insertion
    work,        \* the engine and the test request: where they are, what they hold
    calls,       \* history, per delivery: the outcomes of the calls of Send
    offSince,    \* history, per rule or channel: the clock when it went off, or On
    edits, tests, breaks

storeVars == <<channels, rules, deliveries, offSince>>
notifyVars == <<channels, rules, deliveries, work, calls, offSince, edits, tests, breaks>>
vars == <<busVars, jobVars, notifyVars>>

Senders == {Engine, Tester}
On == -1
Waiting == [at |-> "receive", event |-> NoEvent, list |-> {}, todo |-> {},
            pair |-> <<>>, delivery |-> 0, ok |-> FALSE]

(* The process starts on an empty database or on what an earlier life left. *)
Init ==
    /\ BusInit
    /\ JobInit
    /\ \E cs \in SUBSET Channels, rs \in SUBSET Rules :
          /\ rs # {} => cs # {}
          /\ channels = [c \in cs |-> TRUE]
          /\ rules = [r \in rs |-> [enabled |-> TRUE, channels |-> cs]]
          /\ offSince = [x \in Channels \cup Rules |-> IF x \in cs \cup rs THEN On ELSE 0]
    /\ deliveries = <<>>
    /\ work = [a \in Senders |-> Waiting]
    /\ calls = <<>>
    /\ edits = 0 /\ tests = 0 /\ breaks = 0

Put(f, k, v) == [x \in DOMAIN f \cup {k} |-> IF x = k THEN v ELSE f[x]]
Remove(f, k) == [x \in DOMAIN f \ {k} |-> f[x]]
Switched(x, on) ==
    offSince' = [offSince EXCEPT ![x] = IF on THEN On ELSE IF @ = On THEN clock ELSE @]

(* Every edit is followed by an event of type "notification". *)
Edited ==
    /\ edits < MaxEdits
    /\ edits' = edits + 1
    /\ Publish(User, "notification", 0)
    /\ UNCHANGED <<jobVars, deliveries, work, calls, tests, breaks>>

(* A new channel or rule is enabled whatever the request says. *)
SaveNotificationChannel(c, enabled) ==
    /\ c \notin DOMAIN channels => enabled
    /\ channels' = Put(channels, c, enabled)
    /\ Switched(c, enabled)
    /\ UNCHANGED rules
    /\ Edited

(* The rows that tie the channel to rules go with it. *)
DeleteNotificationChannel(c) ==
    /\ c \in DOMAIN channels
    /\ channels' = Remove(channels, c)
    /\ rules' = [r \in DOMAIN rules |-> [rules[r] EXCEPT !.channels = @ \ {c}]]
    /\ Switched(c, FALSE)
    /\ Edited

SaveNotificationRule(r, enabled, cs) ==
    /\ r \notin DOMAIN rules => enabled
    /\ cs # {} /\ cs \subseteq DOMAIN channels
    /\ rules' = Put(rules, r, [enabled |-> enabled, channels |-> cs])
    /\ Switched(r, enabled)
    /\ UNCHANGED channels
    /\ Edited

DeleteNotificationRule(r) ==
    /\ r \in DOMAIN rules
    /\ rules' = Remove(rules, r)
    /\ Switched(r, FALSE)
    /\ UNCHANGED channels
    /\ Edited

-----------------------------------------------------------------------------
EngineStep == UNCHANGED <<jobVars, channels, rules, offSince, edits, tests, breaks>>
Goes(a, step) == work' = [work EXCEPT ![a] = step]
Skip(a) == [work[a] EXCEPT !.at = "next"]

(* Faulty: everything is translated. *)
TranslatedAlways(e) == TRUE

(* translateEnvelope: of these events only this one is about something a rule   *)
(* can name; "notification" events are dropped before.                          *)
Translated(e) == e.type = "worker_failed"

Receive ==
    /\ work[Engine].at = "receive"
    /\ Take(Engine)
    /\ Goes(Engine, IF Translated(Head(queue[Engine]))
                       THEN [Waiting EXCEPT !.at = "rules", !.event = Head(queue[Engine])]
                       ELSE Waiting)
    /\ UNCHANGED <<deliveries, calls>>
    /\ EngineStep

(* The enabled rules in one query, the channels of each in a query of its own.  *)
ListEnabledNotificationRules ==
    /\ work[Engine].at = "rules"
    /\ Goes(Engine, [work[Engine] EXCEPT !.at = "attach",
                         !.list = {r \in DOMAIN rules : rules[r].enabled}])
    /\ UNCHANGED <<busVars, deliveries, calls>>
    /\ EngineStep

(* Faulty: one failure too early. *)
MatchesRuleEarly(r, e) == e.failures + 1 >= MinFailures[r]

MatchesRule(r, e) == e.failures >= MinFailures[r]

ChannelsOf(r) == IF r \in DOMAIN rules THEN rules[r].channels ELSE {}

AttachNotificationRuleChannels ==
    /\ work[Engine].at = "attach"
    /\ IF work[Engine].list = {}
          THEN Goes(Engine, [work[Engine] EXCEPT !.at = "next"])
          ELSE \E r \in work[Engine].list :
                  Goes(Engine, [work[Engine] EXCEPT !.list = @ \ {r}, !.todo = @ \cup
                      IF MatchesRule(r, work[Engine].event) THEN {r} \X ChannelsOf(r) ELSE {}])
    /\ UNCHANGED <<busVars, deliveries, calls>>
    /\ EngineStep

StartTest(c) ==
    /\ work[Tester].at = "receive"
    /\ tests < MaxTests
    /\ tests' = tests + 1
    /\ Goes(Tester, [Waiting EXCEPT !.at = "next", !.todo = {<<NoRule, c>>}])
    /\ UNCHANGED <<busVars, jobVars, storeVars, calls, edits, breaks>>

(* Faulty: a disabled channel is sent to. *)
MaySendAnyway(a, c) == c \in DOMAIN channels

(* The engine skips a channel that is gone or disabled; a test does not ask.    *)
MaySend(a, c) == c \in DOMAIN channels /\ (a = Engine => channels[c])

GetNotificationChannelForSend(a) ==
    /\ work[a].at = "next"
    /\ IF work[a].todo = {}
          THEN Goes(a, Waiting)
          ELSE \E pair \in work[a].todo :
                  Goes(a, [work[a] EXCEPT !.todo = @ \ {pair}, !.pair = pair,
                              !.at = IF MaySend(a, pair[2]) THEN "create" ELSE "next"])
    /\ UNCHANGED <<busVars, deliveries, calls>>
    /\ EngineStep

CreateNotificationDelivery(a) ==
    /\ work[a].at = "create"
    /\ deliveries' = Append(deliveries, [rule |-> work[a].pair[1], channel |-> work[a].pair[2],
                                         event |-> work[a].event, status |-> "pending"])
    /\ calls' = Append(calls, <<>>)
    /\ Goes(a, [work[a] EXCEPT !.at = "send", !.delivery = Len(deliveries')])
    /\ UNCHANGED busVars
    /\ EngineStep

(* The call ends at the latest with its timeout, ten seconds unless configured. *)
Send(a) ==
    /\ work[a].at = "send"
    /\ \E ok \in BOOLEAN :
          /\ calls' = [calls EXCEPT ![work[a].delivery] = Append(@, ok)]
          /\ Goes(a, [work[a] EXCEPT !.at = "update", !.ok = ok])
    /\ UNCHANGED <<busVars, deliveries>>
    /\ EngineStep

(* Faulty: the error of Send is lost. *)
StatusOfCall(a) == "sent"

StatusOf(a) == IF work[a].ok THEN "sent" ELSE "failed"

(* Faulty: a failure is published and not stored. *)
UpdateSentDelivery(a) ==
    /\ work[a].at = "update"
    /\ deliveries' = IF work[a].ok
                        THEN [deliveries EXCEPT ![work[a].delivery].status = "sent"]
                        ELSE deliveries
    /\ Goes(a, [work[a] EXCEPT !.at = "publish"])
    /\ UNCHANGED <<busVars, calls>>
    /\ EngineStep

UpdateNotificationDelivery(a) ==
    /\ work[a].at = "update"
    /\ deliveries' = [deliveries EXCEPT ![work[a].delivery].status = StatusOf(a)]
    /\ Goes(a, [work[a] EXCEPT !.at = "publish"])
    /\ UNCHANGED <<busVars, calls>>
    /\ EngineStep

PublishDelivered(a) ==
    /\ work[a].at = "publish"
    /\ Publish(a, "notification", 0)
    /\ Goes(a, [work[a] EXCEPT !.at = "published"])
    /\ UNCHANGED <<deliveries, calls>>
    /\ EngineStep

AfterPublish(a) ==
    /\ work[a].at = "published"
    /\ sending[a] = Quiet
    /\ Goes(a, Skip(a))
    /\ UNCHANGED <<busVars, deliveries, calls>>
    /\ EngineStep

(* A statement fails, or the context of a test ends with its request: the       *)
(* engine goes on with the next channel, a failed listing drops the event.      *)
(* Inserting and updating a delivery end in a read of the row, so that a sender *)
(* may also let go of what is stored: before the call, or with the final status *)
(* in place and nothing published.                                              *)
StoreFails(a) ==
    /\ breaks < MaxBreaks
    /\ breaks' = breaks + 1
    /\ \/ work[a].at \in {"rules", "attach"} /\ Goes(a, Waiting)
       \/ /\ work[a].at = "next"
          /\ \E pair \in work[a].todo :
                Goes(a, [work[a] EXCEPT !.todo = @ \ {pair}, !.pair = pair, !.at = "next"])
       \/ work[a].at \in {"create", "send", "update", "publish"} /\ Goes(a, Skip(a))
    /\ UNCHANGED <<busVars, jobVars, storeVars, calls, edits, tests>>

Restart ==
    /\ breaks < MaxBreaks
    /\ breaks' = breaks + 1
    /\ BusRestart
    /\ JobRestart
    /\ work' = [a \in Senders |-> Waiting]
    /\ UNCHANGED <<storeVars, calls, edits, tests>>

-----------------------------------------------------------------------------
BusStep ==
    /\ \/ \E b \in Browsers : Subscribe(b) \/ Unsubscribe(b) \/ Take(b)
       \/ \E p \in Publishers, s \in Subscribers : Offer(p, s)
    /\ UNCHANGED <<jobVars, notifyVars>>

JobStep ==
    /\ \E r \in Runners :
          \/ ReadFailures(r) \/ WriteJobState(r) \/ FailToWriteJobState(r) \/ PublishJobRun(r)
    /\ UNCHANGED notifyVars

EditStep ==
    \/ \E c \in Channels :
          \/ \E enabled \in BOOLEAN : SaveNotificationChannel(c, enabled)
          \/ DeleteNotificationChannel(c)
          \/ StartTest(c)
    \/ \E r \in Rules :
          \/ \E enabled \in BOOLEAN, cs \in SUBSET Channels : SaveNotificationRule(r, enabled, cs)
          \/ DeleteNotificationRule(r)

SendStep(a) ==
    \/ GetNotificationChannelForSend(a) \/ CreateNotificationDelivery(a) \/ Send(a)
    \/ UpdateNotificationDelivery(a) \/ PublishDelivered(a) \/ AfterPublish(a)

EngineWorks ==
    Receive \/ ListEnabledNotificationRules \/ AttachNotificationRuleChannels \/ SendStep(Engine)

Next ==
    \/ BusStep \/ JobStep \/ EditStep \/ EngineWorks \/ SendStep(Tester) \/ Restart
    \/ \E a \in Senders : StoreFails(a)

Offers(p) == \E s \in Subscribers : Offer(p, s) /\ UNCHANGED <<jobVars, notifyVars>>

(* Goroutines get to run: the engine, the test request, and whoever is in the   *)
(* middle of Publish.  Nothing is assumed of browsers, jobs and users.          *)
Fairness ==
    /\ WF_vars(EngineWorks)
    /\ WF_vars(SendStep(Tester))
    /\ \A p \in Publishers : WF_vars(Offers(p))

Spec == Init /\ [][Next]_vars
FairSpec == Spec /\ Fairness
-----------------------------------------------------------------------------
(* The types of the tables and of what every goroutine holds.                   *)
TypeOK ==
    /\ DOMAIN queue \subseteq Subscribers /\ Engine \in DOMAIN queue
    /\ clock \in Nat
    /\ \A p \in Publishers : (sending[p] = Quiet) <=> (sending[p].left = {})
    /\ failures \in 0 .. runs /\ runs \in 0 .. MaxRuns
    /\ channels \in UNION {[cs -> BOOLEAN] : cs \in SUBSET Channels}
    /\ DOMAIN rules \subseteq Rules
    /\ \A r \in DOMAIN rules : rules[r].channels \subseteq DOMAIN channels
    /\ \A a \in Senders : work[a].delivery <= Len(deliveries)
    /\ Len(calls) = Len(deliveries)

(* "One immediate attempt, record failure": no delivery is sent twice, a final  *)
(* status is the outcome of its one call and stays, whatever the engine, a test *)
(* and restarts do in between.                                                  *)
DeliveriesTellTheTruth ==
    \A i \in 1 .. Len(deliveries) :
        /\ Len(calls[i]) <= 1
        /\ deliveries[i].status # "pending" =>
              calls[i] = <<deliveries[i].status = "sent">>

(* An event makes at most one delivery per rule and channel: deliveries publish *)
(* events that the engine reads again, and those never make deliveries.         *)
OneDeliveryPerEvent ==
    \A i, j \in 1 .. Len(deliveries) :
        /\ (i # j /\ deliveries[i].rule # NoRule) =>
              \/ deliveries[i].rule # deliveries[j].rule
              \/ deliveries[i].channel # deliveries[j].channel
              \/ deliveries[i].event # deliveries[j].event
        /\ deliveries[i].rule # NoRule => deliveries[i].event.type = "worker_failed"

(* A rule with a threshold only speaks after so many failed runs, also when     *)
(* runs of the job overlap and its count is wrong.                              *)
AlertsNeedFailures ==
    \A i \in 1 .. Len(deliveries) :
        deliveries[i].rule # NoRule =>
            /\ deliveries[i].event.failures >= MinFailures[deliveries[i].rule]
            /\ deliveries[i].event.failures <= failedRuns

(* A rule or a channel that was switched off or deleted before an event was     *)
(* published stays silent about it, however long the event waits in the queue;  *)
(* one that goes off later may still speak, since the engine has read it.       *)
OffStaysSilent ==
    [][\A i \in DOMAIN deliveries' \ DOMAIN deliveries :
          deliveries'[i].rule # NoRule =>
              \A x \in {deliveries'[i].rule, deliveries'[i].channel} :
                  offSince[x] = On \/ offSince[x] >= deliveries'[i].event.at]_vars

(* The engine, which publishes to the bus it reads from, and whose queue may be *)
(* full, always comes back to read the next event: no send to itself or to a    *)
(* browser that has stopped reading holds it up.                                *)
EngineComesBack == (work[Engine].at # "receive") ~> (work[Engine].at = "receive")

Pending(i) == i \in DOMAIN deliveries /\ deliveries[i].status = "pending"

InHand(i) == \E a \in Senders : work[a].at \in {"send", "update"} /\ work[a].delivery = i

(* Nobody lets go of a delivery before its final status is stored, unless a     *)
(* statement fails or the process stops: the pending rows that are left lying   *)
(* are those, and an overlap of the engine and a test makes no others.          *)
PendingIsInHand ==
    [][\A i \in DOMAIN deliveries' :
          (Pending(i) /\ ~InHand(i))' => (Pending(i) /\ ~InHand(i)) \/ breaks' > breaks]_vars

(* A pending delivery gets its final status, unless a store failure or a stop   *)
(* of the process comes in between: then it stays pending for ever.             *)
PendingSettles ==
    \A i \in 1 .. 2 : Pending(i) ~> (breaks > 0 \/ ~Pending(i))

=============================================================================
