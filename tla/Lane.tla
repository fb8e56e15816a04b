-------------------------------- MODULE Lane --------------------------------
(***************************************************************************)
(* A relay's lane over rabbitmq.Sender: internal/lane with the stuck-lane  *)
(* tracker and the reporter of internal/notify.  One of the sender's       *)
(* callers is the relay's goroutine; the others publish on their own.      *)
(*                                                                         *)
(* A pass of the runtime, reduced to what the lane sees of it, sends pages *)
(* of the log from the saved position on, stops at the first message it    *)
(* cannot dispose of, and saves how far it got.                            *)
(***************************************************************************)
EXTENDS RabbitSender

CONSTANTS
    Relay,          \* the caller that is the relay
    Others,         \* the message each other caller publishes
    LaneCases,      \* the relay configurations to check
    Threshold       \* StuckEscalateAfter, in ticks

(***************************************************************************)
(* A configuration: the sender, the log, the page size, whether there is a *)
(* PoisonHandler, which errors the UnsendableClassifier claims, whether    *)
(* positions identify messages, whether position saves get through, and    *)
(* whether the sender is shared with the other callers.                    *)
(***************************************************************************)
LaneCaseSet == [sender : SenderCases, log : Seq(Messages), page : Nat \ {0}, poison : BOOLEAN,
                claims : SUBSET {"unsendable", "unroutable"}, identified : BOOLEAN,
                saves : BOOLEAN, shared : BOOLEAN]

ASSUME LaneAssumption ==
    /\ Relay \in Callers
    /\ Others \in [Callers \ {Relay} -> Messages]
    /\ \A l \in LaneCases : l \in LaneCaseSet
    /\ Threshold \in Nat \ {0}

VARIABLES
    config,     \* the relay's configuration
    live,       \* FALSE once the run context is canceled
    saved,      \* the durable position
    pos,        \* how far this pass has got
    lane,       \* where the pass is
    stuck,      \* the StuckTracker
    parked,     \* messages the PoisonHandler has confirmed
    alarms      \* messages a StuckLaneError named

laneVars == <<config, live, saved, pos, lane, stuck, parked, alarms>>
vars == <<senderVars, laneVars>>

\* Not stuck; age is the time since the episode began, up to the threshold.
NotStuck == [position |-> 0, active |-> FALSE, identified |-> FALSE, age |-> 0,
             escalated |-> FALSE]

\* Hooks.Validate: a classifier needs somewhere to park.
HooksValid(l) == l.claims # {} => l.poison

Init ==
    /\ SenderInit
    /\ config \in {l \in LaneCases : l.sender = sender /\ HooksValid(l)}
    /\ live = TRUE
    /\ saved = 0
    /\ pos = 0
    /\ lane = "idle"
    /\ stuck = NotStuck
    /\ parked = {}
    /\ alarms = {}
-----------------------------------------------------------------------------
(***************************************************************************)
(* StuckTracker.                                                           *)
(***************************************************************************)

\* The key of the message at p; the zero key, which says nothing about it, if there is none.
Key(p) == IF config.identified THEN p ELSE 0

\* Mutation of Progress: a cleared episode is marked by an impossible position.
ProgressToSentinel(t, p) ==
    IF t.active /\ (~t.identified \/ Key(p) = t.position) THEN [t EXCEPT !.position = -1] ELSE t

\* Mutation of Progress: progress at any position ends the episode.
ProgressAnywhere(t, p) == NotStuck

\* A disposal at p ends an episode at p, and an unidentified episode anywhere.
Progress(t, p) ==
    IF t.active /\ (~t.identified \/ Key(p) = t.position) THEN NotStuck ELSE t

\* The same for each of the positions p+1 .. p+n.
ProgressOver(t, p, n) ==
    LET after[k \in 0..n] == IF k = 0 THEN t ELSE Progress(after[k - 1], p + k)
    IN  after[n]

\* The lane stops at p: a new episode, or one more stop that may escalate, once.
Escalates(t, p) ==
    t.active /\ t.position = Key(p) /\ ~t.escalated /\ t.age >= Threshold

StuckAt(t, p) ==
    IF ~t.active \/ t.position # Key(p)
      THEN [position |-> Key(p), active |-> TRUE, identified |-> config.identified, age |-> 0,
            escalated |-> FALSE]
      ELSE [t EXCEPT !.escalated = @ \/ Escalates(t, p)]

\* Lane.Stuck, with the report of an escalation.
Stuck(t, p) ==
    /\ stuck' = StuckAt(t, p)
    /\ alarms' = IF Escalates(t, p) THEN alarms \cup {config.log[p]} ELSE alarms

Tick ==
    /\ stuck.active /\ stuck.age < Threshold
    /\ stuck' = [stuck EXCEPT !.age = @ + 1]
    /\ UNCHANGED <<senderVars, config, live, saved, pos, lane, parked, alarms>>
-----------------------------------------------------------------------------
(***************************************************************************)
(* The pass.                                                               *)
(***************************************************************************)

Page == SubSeq(config.log, pos + 1, Min({pos + config.page, Len(config.log)}))
Answer == call[Relay]

\* SendBatch on the next page (Send, for a page of one), under SendTimeout.
SendPage ==
    /\ lane = "idle" /\ live
    /\ Len(Page) > 0
    /\ SendBatch(Relay, Page)
    /\ lane' = "sending"
    /\ UNCHANGED <<config, live, saved, pos, stuck, parked, alarms>>

\* Mutation of Permanent: the transports' marker is honored without a handler.
PermanentUnparked(err) == err = "unsendable" \/ err \in config.claims

\* Claimed by the classifier, or the transports' marker with a handler to park it.
Permanent(err) == (config.poison /\ err = "unsendable") \/ err \in config.claims

(***************************************************************************)
(* The answer: progress over the prefix that was delivered; then the whole *)
(* page is sent, or the first message that was not is canceled, parked or  *)
(* stopped at.                                                             *)
(***************************************************************************)
PageAnswered ==
    LET n == Min({Delivered(Relay), Len(Answer.msgs)})
        p == pos + n + 1
        t == ProgressOver(stuck, pos, n)
    IN  /\ lane = "sending" /\ Answer.pc = "returned"
        /\ pos' = pos + n
        /\ IF n = Len(Answer.msgs)
             THEN /\ lane' = "save" /\ stuck' = t
                  /\ UNCHANGED alarms
             ELSE IF ~live
             THEN /\ lane' = "canceled" /\ stuck' = t
                  /\ UNCHANGED alarms
             ELSE IF Permanent(Answer.err)
             THEN /\ lane' = "park" /\ stuck' = t
                  /\ UNCHANGED alarms
             ELSE /\ lane' = "stop"
                  /\ Stuck(t, p)
        /\ call' = [call EXCEPT ![Relay] = IdleCall]
        /\ UNCHANGED <<sender, chan, known, orphans, taken, routed, troubles, config, live,
                       saved, parked>>

(***************************************************************************)
(* MessageFailure: the handler confirms the park, or fails or runs into    *)
(* ParkTimeout, and the lane stops.  Without a handler there is no error.  *)
(***************************************************************************)
Park ==
    /\ lane = "park"
    /\ \/ /\ pos' = pos + 1
          /\ parked' = IF config.poison THEN parked \cup {config.log[pos + 1]} ELSE parked
          /\ stuck' = Progress(stuck, pos + 1)
          /\ lane' = "save"
          /\ UNCHANGED <<alarms, troubles>>
       \/ /\ Trouble("park")
          /\ Stuck(stuck, pos + 1)
          /\ lane' = "stop"
          /\ UNCHANGED <<pos, parked>>
    /\ UNCHANGED <<sender, chan, known, call, orphans, taken, routed, config, live, saved>>

\* The position is saved, or not: then the next pass starts from the old one.
Save ==
    /\ lane \in {"save", "stop", "canceled"}
    /\ saved' = IF config.saves THEN pos ELSE saved
    /\ \/ lane = "save" /\ pos < Len(config.log) /\ lane' = "idle" /\ UNCHANGED pos
       \/ lane = "save" /\ pos = Len(config.log) /\ lane' = "done" /\ UNCHANGED pos
       \/ lane = "stop" /\ lane' = "idle" /\ pos' = saved'
       \/ lane = "canceled" /\ lane' = "down" /\ UNCHANGED pos
    /\ UNCHANGED <<senderVars, config, live, stuck, parked, alarms>>

\* The run context is canceled, and the send's with it.
Cancel ==
    /\ live /\ lane \notin {"done", "down"}
    /\ Trouble("cancel")
    /\ live' = FALSE
    /\ call' = [call EXCEPT ![Relay].expired = @ \/ Answer.pc \notin {"idle", "returned"}]
    /\ lane' = IF lane = "idle" THEN "down" ELSE lane
    /\ UNCHANGED <<sender, chan, known, orphans, taken, routed, config, saved, pos, stuck,
                   parked, alarms>>

\* Another user of the sender publishes.
OtherSends(c) ==
    /\ config.shared
    /\ SendBatch(c, <<Others[c]>>)
    /\ UNCHANGED laneVars

LaneStep == SendPage \/ PageAnswered \/ Park \/ Save

Next ==
    \/ LaneStep \/ Tick \/ Cancel
    \/ \E c \in Callers \ {Relay} : OtherSends(c)
    \/ SenderNext /\ UNCHANGED laneVars

Fairness == SenderFairness /\ WF_vars(LaneStep) /\ WF_vars(Tick)

Spec == Init /\ [][Next]_vars /\ Fairness
-----------------------------------------------------------------------------
Disposed(m) == m \in taken \cup parked

(***************************************************************************)
(* The types of the sender's and the lane's state.                         *)
(***************************************************************************)
TypeOK ==
    /\ SenderTypeOK
    /\ config \in LaneCases
    /\ live \in BOOLEAN
    /\ saved \in 0..Len(config.log) /\ pos \in 0..Len(config.log)
    /\ lane \in {"idle", "sending", "park", "save", "stop", "canceled", "done", "down"}
    /\ stuck \in [position : 0..Len(config.log), active : BOOLEAN, identified : BOOLEAN,
                  age : 0..Threshold, escalated : BOOLEAN]
    /\ parked \subseteq Messages /\ alarms \subseteq Messages

(***************************************************************************)
(* The lane never passes a message that was not disposed of: everything at *)
(* or before its position was acknowledged by the broker or its park was   *)
(* confirmed, through timeouts, partly confirmed pages, returns read from  *)
(* a shared channel, and a handler that fails.                             *)
(***************************************************************************)
LaneDisposes ==
    sender.confirms => \A i \in 1..pos : Disposed(config.log[i])

\* The episode neither ends nor starts again.
EpisodeGoesOn ==
    /\ stuck'.active /\ stuck'.position = stuck.position
    /\ stuck'.age >= stuck.age /\ (stuck.escalated => stuck'.escalated)
\* What a step may do to an episode.
KeepsEpisode ==
    stuck.active => \/ EpisodeGoesOn
                    \/ IF stuck.identified THEN pos' >= stuck.position ELSE pos' > pos
                    \/ ~config.saves /\ stuck'.active /\ stuck'.position < stuck.position

(***************************************************************************)
(* A wedge keeps its episode, and so its age and its one escalation: the   *)
(* episode ends or starts again only when the lane gets past the message   *)
(* it is about, not when a prefix is delivered again, a park fails or the  *)
(* send is canceled ("The position check is the whole point").  Excepted   *)
(* is the trade the tracker documents: any progress ends the episode of a  *)
(* message that cannot be identified.  And excepted is what follows, with  *)
(* no comment saying so, from its keeping one episode: while saves fail, a *)
(* stop at an earlier message takes the place of the one before.           *)
(***************************************************************************)
EpisodeKept == [][KeepsEpisode]_vars

(***************************************************************************)
(* No silent stall: the lane gets through the log, or a StuckLaneError     *)
(* names a message that is in the way, or the relay is shut down, even if  *)
(* the broker never answers again.  The one way out is the one the         *)
(* tracker accepts: while saves fail, stops inside the prefix that is      *)
(* delivered again start new episodes, and the prefix itself ends those at *)
(* messages that cannot be identified.                                     *)
(***************************************************************************)
NoSilentStall ==
    \/ <>(~live \/ lane = "done" \/ alarms # {})
    \/ []<>(/\ ~config.saves
            /\ stuck.active /\ (stuck.identified => Disposed(config.log[stuck.position])))
====
