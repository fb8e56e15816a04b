--------------------------- MODULE SequenceRelay ---------------------------
(***************************************************************************)
(* The sequence relay (relay/sequence/run.go) over a TiDB outbox: several  *)
(* instances of several consumer groups, each running ticks of             *)
(*                                                                         *)
(*   acquire lease -> prime offset -> sequence pages -> drain pages        *)
(*                 -> sweep                                                *)
(*                                                                         *)
(* one store or broker call at a time, against shared tables: the log, the *)
(* offset rows and the leader-lock rows.  Every call can fail, an instance *)
(* can crash or be shut down at any of them, and its lease can be taken by *)
(* another instance between any two.                                       *)
(*                                                                         *)
(* A message is named by its seq: SequencedLog shows that a sequencing     *)
(* pass is one append of consecutive values at the tail of the log.        *)
(***************************************************************************)
EXTENDS Integers, FiniteSets, FiniteSetsExt

CONSTANTS
    Groups,             \* consumer groups (relay names)
    Instances,          \* relay processes
    GroupOf,            \* the group each instance serves
    None,               \* no lock holder
    BatchSize,          \* rows per drain page
    SequenceBatchSize,  \* rows per sequencing pass
    MaxPagesPerTick,    \* maxPagesPerTick
    PoisonHandler,      \* instances with a PoisonHandler
    StartFromBeginning, \* instances configured WithStartFromBeginning
    Batching,           \* instances whose transport implements BatchSender
    Fenced,             \* is the store a FencedCommitter?
    Kind,               \* what each message is: "ok", "unsendable" or "poison"
    FaultPoints,        \* the calls that may fail
    MaxMsgs,            \* bound: messages published
    MaxFaults,          \* bound: failed calls
    MaxSteals,          \* bound: leases taken from a live holder
    MaxCrashes,         \* bound: crashes and shutdowns
    MaxDeletes          \* bound: DeleteOffset calls

Kinds == {"ok", "unsendable", "poison"}
Calls == {"acquire", "prime", "sequence", "list", "send", "park", "commit"}
NoRow == -1

ASSUME SequenceRelayAssumption ==
    /\ GroupOf \in [Instances -> Groups]
    /\ None \notin Instances
    /\ BatchSize \in Nat \ {0}
    /\ SequenceBatchSize \in Nat \ {0}
    /\ MaxPagesPerTick \in Nat \ {0}
    /\ PoisonHandler \cup StartFromBeginning \cup Batching \subseteq Instances
    /\ Fenced \in BOOLEAN
    /\ MaxMsgs \in Nat
    /\ Kind \in [1..MaxMsgs -> Kinds]
    /\ FaultPoints \subseteq Calls
    /\ {MaxFaults, MaxSteals, MaxCrashes, MaxDeletes} \subseteq Nat

VARIABLES
    \* the database
    published,  \* committed rows, sequenced or not
    nextSeq,    \* next_seq of the counter row
    retained,   \* sequenced rows not yet swept
    offsets,    \* last_seq of each group's offset row, or NoRow
    holder,     \* holder of each group's leader lock, or None
    \* the running pass of each instance
    pc,         \* its next call
    live,       \* FALSE once its run context is canceled
    offset,     \* its local offset
    primed,     \* outcome of primeOffset: "ok", "error" or "lost"
    pages,      \* full pages done in the current phase of the tick
    todo,       \* decoded messages of the page still to forward
    poison,     \* the undecodable row right after them, or 0
    full,       \* was the decoded page full?
    maxSeq,     \* how far the page may be committed
    outcome,    \* how forwarding the page ended
    \* histories, for the properties
    disposed,   \* messages delivered to, or parked for, each group
    excused,    \* messages a group was registered past, or that were swept before
    stale,      \* messages an instance forwarded while not holding the lock
    \* budgets of the environment
    faults, steals, crashes, deletes

dbVars == <<published, nextSeq, retained, offsets, holder>>
pageVars == <<todo, poison, full, maxSeq, outcome>>
passVars == <<pc, live, offset, primed, pages, todo, poison, full, maxSeq, outcome>>
histVars == <<disposed, excused, stale>>
envVars == <<faults, steals, crashes, deletes>>
vars == <<published, nextSeq, retained, offsets, holder,
          pc, live, offset, primed, pages, todo, poison, full, maxSeq, outcome,
          disposed, excused, stale, faults, steals, crashes, deletes>>

PCs == {"down", "idle", "prime", "register", "sequence", "renewSeq", "list",
        "forward", "park", "commit", "renewDrain", "sweep", "release"}

Init ==
    /\ published = 0
    /\ nextSeq = 1
    /\ retained = {}
    /\ offsets = [g \in Groups |-> NoRow]
    /\ holder = [g \in Groups |-> None]
    /\ pc = [i \in Instances |-> "down"]
    /\ live = [i \in Instances |-> FALSE]
    /\ offset = [i \in Instances |-> 0]
    /\ primed = [i \in Instances |-> "ok"]
    /\ pages = [i \in Instances |-> 0]
    /\ todo = [i \in Instances |-> {}]
    /\ poison = [i \in Instances |-> 0]
    /\ full = [i \in Instances |-> FALSE]
    /\ maxSeq = [i \in Instances |-> 0]
    /\ outcome = [i \in Instances |-> "done"]
    /\ disposed = [g \in Groups |-> {}]
    /\ excused = [g \in Groups |-> {}]
    /\ stale = [i \in Instances |-> 0]
    /\ faults = 0 /\ steals = 0 /\ crashes = 0 /\ deletes = 0
-----------------------------------------------------------------------------
Log == 1..(nextSeq - 1)
Swept == Log \ retained
Registered == {g \in Groups : offsets[g] # NoRow}

\* A call of the given kind fails, within the fault budget.
Fault(call) ==
    /\ call \in FaultPoints
    /\ faults < MaxFaults
    /\ faults' = faults + 1

Goto(i, label) == pc' = [pc EXCEPT ![i] = label]

\* The end of a pass: its local state is dead until the next one.
EndPass(i, label) ==
    /\ Goto(i, label)
    /\ offset' = [offset EXCEPT ![i] = 0]
    /\ primed' = [primed EXCEPT ![i] = "ok"]
    /\ pages' = [pages EXCEPT ![i] = 0]
    /\ todo' = [todo EXCEPT ![i] = {}]
    /\ poison' = [poison EXCEPT ![i] = 0]
    /\ full' = [full EXCEPT ![i] = FALSE]
    /\ maxSeq' = [maxSeq EXCEPT ![i] = 0]
    /\ outcome' = [outcome EXCEPT ![i] = "done"]
-----------------------------------------------------------------------------
(***************************************************************************)
(* The leader lock.  TryAcquireLeaderLock takes the row when it is absent, *)
(* already this holder's, or expired by this process's clock.  The lease   *)
(* of a running holder may look expired to a rival, because its pass       *)
(* stalled past the TTL or the clocks disagree: MaxSteals bounds that.     *)
(***************************************************************************)
Rival(i) == holder[GroupOf[i]] \notin {None, i}

TakeLock(i) ==
    /\ Rival(i) => steals < MaxSteals
    /\ holder' = [holder EXCEPT ![GroupOf[i]] = i]
    /\ steals' = IF Rival(i) THEN steals + 1 ELSE steals

(***************************************************************************)
(* A process that exits leaves its lock row deleted, or, if the release    *)
(* failed or was never sent, to expire: holder ids are never reused, so    *)
(* the row then matches nobody and keeps a rival waiting, no more.  It     *)
(* never touches a row that names another holder.                          *)
(***************************************************************************)
LeaveLock(i) ==
    holder' = [holder EXCEPT ![GroupOf[i]] = IF @ = i THEN None ELSE @]

\* RunOnce opens with TryAcquire; a lost election ends the tick and changes
\* nothing.
TryAcquire(i) ==
    /\ pc[i] = "idle" /\ live[i]
    /\ TakeLock(i)
    /\ Goto(i, "prime")
    /\ stale' = [stale EXCEPT ![i] = 0]
    /\ UNCHANGED <<published, nextSeq, retained, offsets, live, offset, primed,
                   pages, pageVars, disposed, excused, faults, crashes, deletes>>

\* The acquire was applied but its answer was lost: the tick ends in an error.
TryAcquireUnknown(i) ==
    /\ pc[i] = "idle" /\ live[i]
    /\ Fault("acquire")
    /\ TakeLock(i)
    /\ UNCHANGED <<published, nextSeq, retained, offsets, passVars, histVars,
                   crashes, deletes>>

(***************************************************************************)
(* renewLease between pages: held, cleanly lost, or not evaluated.  The    *)
(* last two stop the whole pass, the sweep included.                       *)
(***************************************************************************)
RenewHeld(i) ==
    /\ TakeLock(i)
    /\ stale' = [stale EXCEPT ![i] = 0]
    /\ UNCHANGED <<published, nextSeq, retained, offsets, live, disposed, excused,
                   faults, crashes, deletes>>

\* The current phase goes on with another page.
NextPage(i, label) ==
    /\ pages[i] + 1 < MaxPagesPerTick
    /\ pages' = [pages EXCEPT ![i] = @ + 1]
    /\ Goto(i, label)
    /\ UNCHANGED <<offset, primed, pageVars>>

RenewLost(i) ==
    /\ \/ Rival(i) /\ UNCHANGED faults
       \/ Fault("acquire")
    /\ EndPass(i, "idle")
    /\ UNCHANGED <<dbVars, live, histVars, steals, crashes, deletes>>

(***************************************************************************)
(* The end of the sequencing phase.  Without a starting offset the drain   *)
(* is skipped, and without the lease so is the sweep.                      *)
(***************************************************************************)
EndSequence(i) ==
    \/ /\ primed[i] = "ok"
       /\ Goto(i, "list")
       /\ pages' = [pages EXCEPT ![i] = 0]
       /\ UNCHANGED <<offset, primed, pageVars>>
    \/ primed[i] = "error" /\ EndPass(i, "sweep")
    \/ primed[i] = "lost" /\ EndPass(i, "idle")

RenewSequence(i) ==
    /\ pc[i] = "renewSeq" /\ live[i]
    /\ \/ RenewHeld(i) /\ NextPage(i, "sequence")
       \/ RenewHeld(i) /\ pages[i] + 1 = MaxPagesPerTick /\ EndSequence(i)
       \/ RenewLost(i)

\* Mutation of RenewDrain: the next page is read without renewing the lease.
RenewDrainSkipped(i) ==
    /\ pc[i] = "renewDrain" /\ live[i]
    /\ NextPage(i, "list") \/ (pages[i] + 1 = MaxPagesPerTick /\ EndPass(i, "sweep"))
    /\ UNCHANGED <<dbVars, live, histVars, envVars>>

RenewDrain(i) ==
    /\ pc[i] = "renewDrain" /\ live[i]
    /\ \/ RenewHeld(i) /\ NextPage(i, "list")
       \/ RenewHeld(i) /\ pages[i] + 1 = MaxPagesPerTick /\ EndPass(i, "sweep")
       \/ RenewLost(i)
-----------------------------------------------------------------------------
(***************************************************************************)
(* primeOffset.                                                            *)
(***************************************************************************)

\* Offset: a registered group starts from its row, another one registers.
ReadOffset(i) ==
    /\ pc[i] = "prime" /\ live[i]
    /\ IF GroupOf[i] \in Registered
         THEN /\ offset' = [offset EXCEPT ![i] = offsets[GroupOf[i]]]
              /\ Goto(i, "sequence")
         ELSE /\ Goto(i, "register")
              /\ UNCHANGED offset
    /\ UNCHANGED <<dbVars, live, primed, pages, pageVars, histVars, envVars>>

\* A group registers: what is at or below its first offset, or already swept,
\* is not owed to it.
RegisterAt(g, o) ==
    /\ offsets' = [offsets EXCEPT ![g] = o]
    /\ excused' = [excused EXCEPT ![g] = @ \cup (1..o) \cup Swept]

\* MAX(seq) over the rows there are.
Latest == IF retained = {} THEN 0 ELSE Max(retained)

\* Mutation of InitOffsetLatest: an existing row is moved to the latest seq too.
InitOffsetLatestUpserts(i) ==
    /\ pc[i] = "register" /\ live[i] /\ i \notin StartFromBeginning
    /\ RegisterAt(GroupOf[i], Latest)
    /\ offset' = [offset EXCEPT ![i] = Latest]
    /\ Goto(i, "sequence")
    /\ UNCHANGED <<published, nextSeq, retained, holder, live, primed, pages,
                   pageVars, disposed, stale, envVars>>

(***************************************************************************)
(* InitOffsetLatest: insert the row at the latest seq if it is absent, and *)
(* read it back.                                                           *)
(***************************************************************************)
InitOffsetLatest(i) ==
    /\ pc[i] = "register" /\ live[i] /\ i \notin StartFromBeginning
    /\ IF GroupOf[i] \in Registered THEN UNCHANGED <<offsets, excused>>
                                    ELSE RegisterAt(GroupOf[i], Latest)
    /\ offset' = [offset EXCEPT ![i] = offsets'[GroupOf[i]]]
    /\ Goto(i, "sequence")
    /\ UNCHANGED <<published, nextSeq, retained, holder, live, primed, pages,
                   pageVars, disposed, stale, envVars>>

\* The fence: the lock row no longer names this instance.
Superseded(i) == Fenced /\ holder[GroupOf[i]] # i

\* Mutation of CommitOffset: the value is overwritten, not raised to the GREATEST.
CommitOffsetOverwrites(i, seq) ==
    LET g == GroupOf[i] IN
    /\ ~Superseded(i)
    /\ offsets' = [offsets EXCEPT ![g] = seq]
    /\ IF g \in Registered THEN UNCHANGED excused
                           ELSE excused' = [excused EXCEPT ![g] = @ \cup Swept]

(***************************************************************************)
(* The monotone, insert-if-absent offset write, applied by a fenced store  *)
(* only while the lock row names this instance.                            *)
(***************************************************************************)
CommitOffset(i, seq) ==
    LET g == GroupOf[i] IN
    /\ ~Superseded(i)
    /\ IF g \in Registered
         THEN /\ offsets' = [offsets EXCEPT ![g] = IF seq > @ THEN seq ELSE @]
              /\ UNCHANGED excused
         ELSE /\ offsets' = [offsets EXCEPT ![g] = seq]
              /\ excused' = [excused EXCEPT ![g] = @ \cup Swept]

\* A replaying group registers by committing 0; it reads from 0 either way.
RegisterFromBeginning(i) ==
    /\ pc[i] = "register" /\ live[i] /\ i \in StartFromBeginning
    /\ \/ /\ CommitOffset(i, 0)
          /\ UNCHANGED primed
       \/ /\ Superseded(i)
          /\ primed' = [primed EXCEPT ![i] = "lost"]
          /\ UNCHANGED <<offsets, excused>>
    /\ Goto(i, "sequence")
    /\ UNCHANGED <<published, nextSeq, retained, holder, live, offset, pages,
                   pageVars, disposed, stale, envVars>>

(***************************************************************************)
(* A failed prime skips only the drain: the tick goes on to sequence.  The *)
(* registering write may have been applied although its answer was lost.   *)
(***************************************************************************)
PrimeFails(i) ==
    /\ pc[i] \in {"prime", "register"} /\ live[i]
    /\ Fault("prime")
    /\ \/ UNCHANGED <<offsets, excused>>
       \/ /\ pc[i] = "register" /\ GroupOf[i] \notin Registered
          /\ IF i \in StartFromBeginning THEN CommitOffset(i, 0)
                                         ELSE RegisterAt(GroupOf[i], Latest)
    /\ primed' = [primed EXCEPT ![i] = "error"]
    /\ Goto(i, "sequence")
    /\ UNCHANGED <<published, nextSeq, retained, holder, live, offset, pages,
                   pageVars, disposed, stale, steals, crashes, deletes>>
-----------------------------------------------------------------------------
\* Mutation of AssignPage: the counter is bumped by the page size asked for.
AssignPageBumpsByLimit ==
    LET pending == published - (nextSeq - 1)
        n == IF pending < SequenceBatchSize THEN pending ELSE SequenceBatchSize
    IN  /\ nextSeq' = nextSeq + SequenceBatchSize
        /\ retained' = retained \cup nextSeq..(nextSeq + n - 1)

(***************************************************************************)
(* sequence: SequenceMessages while pages are full.  A sequencer fault     *)
(* ends the phase and not the tick; the pass may have committed anyway.    *)
(***************************************************************************)
AssignPage ==
    LET pending == published - (nextSeq - 1)
        n == IF pending < SequenceBatchSize THEN pending ELSE SequenceBatchSize
    IN  /\ nextSeq' = nextSeq + n
        /\ retained' = retained \cup nextSeq..(nextSeq + n - 1)

Sequence(i) ==
    /\ pc[i] = "sequence" /\ live[i]
    /\ AssignPage
    /\ IF nextSeq' = nextSeq + SequenceBatchSize
         THEN /\ Goto(i, "renewSeq")
              /\ UNCHANGED <<offset, primed, pages, pageVars>>
         ELSE EndSequence(i)
    /\ UNCHANGED <<published, offsets, holder, live, histVars, envVars>>

SequenceFails(i) ==
    /\ pc[i] = "sequence" /\ live[i]
    /\ Fault("sequence")
    /\ AssignPage \/ UNCHANGED <<nextSeq, retained>>
    /\ EndSequence(i)
    /\ UNCHANGED <<published, offsets, holder, live, histVars, steals, crashes,
                   deletes>>
-----------------------------------------------------------------------------
(***************************************************************************)
(* drain and drainPage.                                                    *)
(***************************************************************************)

\* The first BatchSize rows past the local offset, cut at the first poison row.
Rows(o) == {m \in retained : m > o /\ Cardinality({k \in retained : o < k /\ k < m})
                                       < BatchSize}
\* Mutation of Decoded: an undecodable row is left out and decoding goes on.
DecodedPastPoison(o) == {m \in Rows(o) : Kind[m] # "poison"}

Decoded(o) == {m \in Rows(o) : \A k \in Rows(o) : k <= m => Kind[k] # "poison"}
PoisonRow(o) == LET bad == {m \in Rows(o) : Kind[m] = "poison"}
                IN  IF bad = {} THEN 0 ELSE Min(bad)

ListMessages(i) ==
    /\ pc[i] = "list" /\ live[i]
    /\ IF Rows(offset[i]) = {}
         THEN /\ EndPass(i, "sweep")
         ELSE /\ todo' = [todo EXCEPT ![i] = Decoded(offset[i])]
              /\ poison' = [poison EXCEPT ![i] = PoisonRow(offset[i])]
              /\ full' = [full EXCEPT ![i] =
                            Cardinality(Decoded(offset[i])) = BatchSize]
              /\ maxSeq' = [maxSeq EXCEPT ![i] = offset[i]]
              /\ outcome' = [outcome EXCEPT ![i] = "done"]
              /\ Goto(i, "forward")
              /\ UNCHANGED <<offset, primed, pages>>
    /\ UNCHANGED <<dbVars, live, histVars, envVars>>

\* An unreadable page wedges the lane; the tick still sweeps.
ListFails(i) ==
    /\ pc[i] = "list" /\ live[i]
    /\ Fault("list")
    /\ EndPass(i, "sweep")
    /\ UNCHANGED <<dbVars, live, histVars, steals, crashes, deletes>>

\* Mutation of Dispose: a delivery behind the failed message counts as confirmed.
DisposeCountsLate(i, S, delivered) ==
    LET g == GroupOf[i] IN
    /\ disposed' = [disposed EXCEPT ![g] = @ \cup S \cup delivered]
    /\ todo' = [todo EXCEPT ![i] = @ \ S]
    /\ maxSeq' = [maxSeq EXCEPT ![i] = IF S \cup delivered = {} THEN @
                                       ELSE Max(S \cup delivered)]
    /\ stale' = [stale EXCEPT ![i] = IF holder[g] = i THEN @
                                     ELSE @ + Cardinality(S \cup delivered)]

\* The lane disposed of the messages S of the page: they may be committed past.
Dispose(i, S, delivered) ==
    LET g == GroupOf[i] IN
    /\ disposed' = [disposed EXCEPT ![g] = @ \cup S \cup delivered]
    /\ todo' = [todo EXCEPT ![i] = @ \ S]
    /\ maxSeq' = [maxSeq EXCEPT ![i] = IF S = {} THEN @ ELSE Max(S)]
    /\ stale' = [stale EXCEPT ![i] = IF holder[g] = i THEN @
                                     ELSE @ + Cardinality(S \cup delivered)]

\* The lane stops at the head of what is left: commit what was disposed of.
StopLane(i, why) ==
    /\ outcome' = [outcome EXCEPT ![i] = why]
    /\ Goto(i, "commit")

(***************************************************************************)
(* forward, one message at a time: lane.Send of the head of the page.      *)
(* Sent and Parked advance; a send failure, or an unconfirmed park, stops  *)
(* the lane at the message - which may have been delivered all the same.   *)
(* Without a PoisonHandler an unsendable message stops the lane for good.  *)
(***************************************************************************)
LaneSend(i) ==
    /\ pc[i] = "forward" /\ live[i] /\ i \notin Batching /\ todo[i] # {}
    /\ LET m == Min(todo[i]) IN
       \/ /\ Kind[m] = "ok" \/ i \in PoisonHandler
          /\ Dispose(i, {m}, {})
          /\ UNCHANGED <<pc, outcome, faults>>
       \/ /\ Fault(IF Kind[m] = "ok" THEN "send" ELSE "park")
          /\ \E delivered \in SUBSET {k \in {m} : Kind[k] = "ok"} :
                Dispose(i, {}, delivered)
          /\ StopLane(i, "stopped")
       \/ /\ Kind[m] = "unsendable" /\ i \notin PoisonHandler
          /\ Dispose(i, {}, {})
          /\ StopLane(i, "stopped")
          /\ UNCHANGED faults
    /\ UNCHANGED <<dbVars, live, offset, primed, pages, poison, full, excused,
                   steals, crashes, deletes>>

\* The first n messages of what is left of the page.
Prefix(i, n) == {m \in todo[i] : Cardinality({k \in todo[i] : k < m}) < n}

(***************************************************************************)
(* forwardBatched: lane.SendBatch over what is left of the page.  The      *)
(* transport confirms a prefix P; the first message after it failed, and   *)
(* later ones may have been delivered without counting.  A confirmed park  *)
(* of the failed message resumes behind it.                                *)
(***************************************************************************)
LaneSendBatch(i) ==
    /\ pc[i] = "forward" /\ live[i] /\ i \in Batching /\ todo[i] # {}
    /\ \E n \in 0..Cardinality(todo[i]) :
       LET P == Prefix(i, n)
           rest == todo[i] \ P
           m == Min(rest)
       IN
       /\ \A k \in P : Kind[k] = "ok"
       /\ \/ /\ rest = {}
             /\ Dispose(i, P, {})
             /\ UNCHANGED <<pc, outcome, faults>>
          \/ /\ rest # {} /\ Kind[m] = "unsendable" /\ i \in PoisonHandler
             /\ \E late \in SUBSET {k \in rest : Kind[k] = "ok"} :
                   Dispose(i, P \cup {m}, late)
             /\ UNCHANGED <<pc, outcome, faults>>
          \/ /\ rest # {}
             /\ \/ Fault(IF Kind[m] = "ok" THEN "send" ELSE "park")
                \/ Kind[m] = "unsendable" /\ i \notin PoisonHandler /\ UNCHANGED faults
             /\ \E late \in SUBSET {k \in rest : Kind[k] = "ok"} :
                   Dispose(i, P, late)
             /\ StopLane(i, "stopped")
    /\ UNCHANGED <<dbVars, live, offset, primed, pages, poison, full, excused,
                   steals, crashes, deletes>>

\* The page is forwarded: a poison row behind it is parked if there is a handler.
PageForwarded(i) ==
    /\ pc[i] = "forward" /\ live[i] /\ todo[i] = {}
    /\ Goto(i, IF poison[i] # 0 /\ i \in PoisonHandler THEN "park" ELSE "commit")
    /\ UNCHANGED <<dbVars, live, offset, primed, pages, pageVars, histVars, envVars>>

(***************************************************************************)
(* The run context died: stop before touching the next message and park    *)
(* nothing.  The send it interrupted may have been delivered, and of an    *)
(* interrupted batch a prefix may even be confirmed.                       *)
(***************************************************************************)
ForwardCanceled(i) ==
    /\ pc[i] \in {"forward", "park"} /\ ~live[i]
    /\ \/ /\ todo[i] = {}
          /\ Goto(i, "commit")
          /\ UNCHANGED <<todo, maxSeq, outcome, disposed, stale>>
       \/ /\ todo[i] # {}
          /\ \E n \in 0..(IF i \in Batching THEN Cardinality(todo[i]) - 1 ELSE 0) :
             LET rest == todo[i] \ Prefix(i, n) IN
             /\ \A k \in Prefix(i, n) : Kind[k] = "ok"
             /\ \E late \in SUBSET (IF i \in Batching THEN rest ELSE {Min(rest)}) :
                   /\ \A k \in late : Kind[k] = "ok"
                   /\ Dispose(i, Prefix(i, n), late)
          /\ StopLane(i, "canceled")
    /\ UNCHANGED <<dbVars, live, offset, primed, pages, poison, full, excused, envVars>>

\* Mutation of ParkPoison: a park that was not confirmed advances too.
ParkPoisonUnconfirmed(i) ==
    /\ pc[i] = "park" /\ live[i]
    /\ \/ /\ disposed' = [disposed EXCEPT ![GroupOf[i]] = @ \cup {poison[i]}]
          /\ UNCHANGED faults
       \/ Fault("park") /\ UNCHANGED disposed
    /\ maxSeq' = [maxSeq EXCEPT ![i] = poison[i]]
    /\ outcome' = [outcome EXCEPT ![i] = "parked"]
    /\ Goto(i, "commit")
    /\ UNCHANGED <<dbVars, live, offset, primed, pages, todo, poison, full, excused,
                   stale, steals, crashes, deletes>>

\* Mutation of ParkPoison: the row is parked but the page is not advanced past it.
ParkPoisonStaysPut(i) ==
    /\ pc[i] = "park" /\ live[i]
    /\ disposed' = [disposed EXCEPT ![GroupOf[i]] = @ \cup {poison[i]}]
    /\ Goto(i, "commit")
    /\ UNCHANGED <<dbVars, live, offset, primed, pages, pageVars, excused, stale,
                   envVars>>

\* lane.Park: only a confirmed park advances past the poison row.
ParkPoison(i) ==
    /\ pc[i] = "park" /\ live[i]
    /\ \/ /\ disposed' = [disposed EXCEPT ![GroupOf[i]] = @ \cup {poison[i]}]
          /\ maxSeq' = [maxSeq EXCEPT ![i] = poison[i]]
          /\ outcome' = [outcome EXCEPT ![i] = "parked"]
          /\ stale' = [stale EXCEPT ![i] = IF holder[GroupOf[i]] = i THEN @ ELSE @ + 1]
          /\ UNCHANGED faults
       \/ /\ Fault("park")
          /\ UNCHANGED <<disposed, maxSeq, outcome, stale>>
    /\ Goto(i, "commit")
    /\ UNCHANGED <<dbVars, live, offset, primed, pages, todo, poison, full, excused,
                   steals, crashes, deletes>>

(***************************************************************************)
(* What follows a page: another one if this one was full or its poison row *)
(* was parked, the sweep otherwise.                                        *)
(***************************************************************************)
MorePages(i) == outcome[i] = "parked" \/ (outcome[i] = "done" /\ poison[i] = 0 /\ full[i])

PageCommitted(i) ==
    IF MorePages(i)
      THEN /\ Goto(i, "renewDrain")
           /\ offset' = [offset EXCEPT ![i] = maxSeq[i]]
           /\ todo' = [todo EXCEPT ![i] = {}]
           /\ poison' = [poison EXCEPT ![i] = 0]
           /\ full' = [full EXCEPT ![i] = FALSE]
           /\ outcome' = [outcome EXCEPT ![i] = "done"]
           /\ UNCHANGED <<primed, pages, maxSeq>>
      ELSE EndPass(i, "sweep")

(***************************************************************************)
(* commitOffset at the end of drainPage.  The write is detached from the   *)
(* run context, so a canceled pass still commits what it delivered.  A     *)
(* rejected write is a lost election: the pass ends without a sweep.  A    *)
(* write whose answer was lost may have been applied; the pass keeps the   *)
(* old offset and ends.                                                    *)
(***************************************************************************)
CommitPage(i) ==
    /\ pc[i] = "commit"
    /\ \/ /\ maxSeq[i] > offset[i]
          /\ CommitOffset(i, maxSeq[i])
          /\ PageCommitted(i)
          /\ UNCHANGED faults
       \/ /\ maxSeq[i] > offset[i]
          /\ Superseded(i)
          /\ EndPass(i, "idle")
          /\ UNCHANGED <<offsets, excused, faults>>
       \/ /\ maxSeq[i] > offset[i]
          /\ Fault("commit")
          /\ CommitOffset(i, maxSeq[i]) \/ UNCHANGED <<offsets, excused>>
          /\ EndPass(i, "sweep")
       \/ /\ maxSeq[i] = offset[i]
          /\ PageCommitted(i)
          /\ UNCHANGED <<offsets, excused, faults>>
    /\ UNCHANGED <<published, nextSeq, retained, holder, live, disposed, stale,
                   steals, crashes, deletes>>
-----------------------------------------------------------------------------
\* Mutation of Sweepable: one row past the lowest watermark.
SweepableOneFurther ==
    {m \in retained : Registered # {} /\ \A g \in Registered : m <= offsets[g] + 1}

\* Mutation of Sweepable: the watermark of the fastest group, MAX instead of MIN.
SweepableByFastest == {m \in retained : \E g \in Registered : m <= offsets[g]}

(***************************************************************************)
(* maybeSweep: pages of SweepMessages, or none when the sweep is not due.  *)
(* A page deletes rows at or below MIN(last_seq) over all offset rows that *)
(* are older than the retention window; with no offset row MIN is NULL and *)
(* nothing is deleted.  Which rows are old enough is left open.            *)
(***************************************************************************)
Sweepable == {m \in retained : Registered # {} /\ \A g \in Registered : m <= offsets[g]}

SweepMessages(i) ==
    /\ pc[i] = "sweep" /\ live[i]
    /\ \E m \in Sweepable : retained' = retained \ {m}
    /\ UNCHANGED <<published, nextSeq, offsets, holder, passVars, histVars, envVars>>

SweepDone(i) ==
    /\ pc[i] = "sweep" /\ live[i]
    /\ EndPass(i, "idle")
    /\ UNCHANGED <<dbVars, live, histVars, envVars>>
-----------------------------------------------------------------------------
(***************************************************************************)
(* Start, shutdown, crash and the outside world.                           *)
(***************************************************************************)
Start(i) ==
    /\ pc[i] = "down"
    /\ Goto(i, "idle")
    /\ live' = [live EXCEPT ![i] = TRUE]
    /\ UNCHANGED <<dbVars, offset, primed, pages, pageVars, histVars, envVars>>

Cancel(i) ==
    /\ live[i]
    /\ crashes < MaxCrashes
    /\ crashes' = crashes + 1
    /\ live' = [live EXCEPT ![i] = FALSE]
    /\ UNCHANGED <<dbVars, pc, offset, primed, pages, pageVars, histVars, faults,
                   steals, deletes>>

\* With a dead run context every further call fails at once and Run returns.
Shutdown(i) ==
    /\ ~live[i]
    /\ pc[i] \notin {"down", "forward", "park", "commit", "release"}
    /\ EndPass(i, "release")
    /\ UNCHANGED <<dbVars, live, histVars, envVars>>

\* ReleaseLeadership, the last thing Run does.
Release(i) ==
    /\ pc[i] = "release"
    /\ Goto(i, "down")
    /\ LeaveLock(i)
    /\ UNCHANGED <<published, nextSeq, retained, offsets, live, offset, primed,
                   pages, pageVars, histVars, envVars>>

Crash(i) ==
    /\ pc[i] # "down"
    /\ crashes < MaxCrashes
    /\ crashes' = crashes + 1
    /\ EndPass(i, "down")
    /\ LeaveLock(i)
    /\ live' = [live EXCEPT ![i] = FALSE]
    /\ UNCHANGED <<published, nextSeq, retained, offsets, histVars, faults, steals,
                   deletes>>

\* A business transaction commits one more event.
PublishMessage ==
    /\ published < MaxMsgs
    /\ published' = published + 1
    /\ UNCHANGED <<nextSeq, retained, offsets, holder, passVars, histVars, envVars>>

\* An operator decommissions a group, running or not.
DeleteOffset(g) ==
    /\ g \in Registered
    /\ deletes < MaxDeletes
    /\ deletes' = deletes + 1
    /\ offsets' = [offsets EXCEPT ![g] = NoRow]
    /\ UNCHANGED <<published, nextSeq, retained, holder, passVars, histVars,
                   faults, steals, crashes>>
-----------------------------------------------------------------------------
\* The instance's own progress.
Step(i) ==
    \/ TryAcquire(i)
    \/ ReadOffset(i) \/ InitOffsetLatest(i) \/ RegisterFromBeginning(i)
    \/ Sequence(i) \/ RenewSequence(i)
    \/ ListMessages(i) \/ LaneSend(i) \/ LaneSendBatch(i) \/ PageForwarded(i)
    \/ ForwardCanceled(i) \/ ParkPoison(i) \/ CommitPage(i) \/ RenewDrain(i)
    \/ SweepMessages(i) \/ SweepDone(i)
    \/ Shutdown(i) \/ Release(i) \/ Start(i)

\* What its environment does to it.
Disturb(i) ==
    \/ TryAcquireUnknown(i)
    \/ PrimeFails(i) \/ SequenceFails(i) \/ ListFails(i)
    \/ Cancel(i) \/ Crash(i)

Next ==
    \/ \E i \in Instances : Step(i) \/ Disturb(i)
    \/ PublishMessage
    \/ \E g \in Groups : DeleteOffset(g)

Spec == Init /\ [][Next]_vars

(***************************************************************************)
(* Run's ticker keeps ticking and every call is bounded by OpTimeout, so   *)
(* an instance keeps taking steps; a dead one is restarted.                *)
(***************************************************************************)
FairSpec == Spec /\ \A i \in Instances : WF_vars(Step(i))
-----------------------------------------------------------------------------
(***************************************************************************)
(* Properties.                                                             *)
(***************************************************************************)
TypeOK ==
    /\ published \in 0..MaxMsgs
    /\ nextSeq \in 1..(published + 1)
    /\ retained \subseteq Log
    /\ offsets \in [Groups -> Nat \cup {NoRow}]
    /\ holder \in [Groups -> Instances \cup {None}]
    /\ pc \in [Instances -> PCs]
    /\ live \in [Instances -> BOOLEAN]
    /\ offset \in [Instances -> Nat]
    /\ primed \in [Instances -> {"ok", "error", "lost"}]
    /\ pages \in [Instances -> Nat]
    /\ todo \in [Instances -> SUBSET Log]
    /\ poison \in [Instances -> Nat]
    /\ full \in [Instances -> BOOLEAN]
    /\ maxSeq \in [Instances -> Nat]
    /\ outcome \in [Instances -> {"done", "stopped", "canceled", "parked"}]
    /\ disposed \in [Groups -> SUBSET Log]
    /\ excused \in [Groups -> SUBSET Log]
    /\ stale \in [Instances -> Nat]
    /\ faults \in Nat /\ steals \in Nat /\ crashes \in Nat /\ deletes \in Nat

(***************************************************************************)
(* At least once: a group's committed watermark never passes a message     *)
(* that was neither delivered to it nor parked for it, whoever wrote the   *)
(* watermark, in whatever state of leadership, after whatever crash.       *)
(***************************************************************************)
AtLeastOnce ==
    \A g \in Registered : 1..offsets[g] \subseteq disposed[g] \cup excused[g]

(***************************************************************************)
(* Retention never costs a registered group an undelivered event.          *)
(***************************************************************************)
SweepKeepsUndelivered ==
    \A g \in Registered : Log \subseteq retained \cup disposed[g] \cup excused[g]

(***************************************************************************)
(* Stop-the-lane: with one send at a time a group never receives a message *)
(* while an earlier one it is owed has not been disposed of.               *)
(***************************************************************************)
NoSkipAhead ==
    \A g \in Registered : \A m \in disposed[g] : \A k \in 1..(m - 1) :
        k \in disposed[g] \cup excused[g]

(***************************************************************************)
(* A commit never moves a group's watermark back, whatever leader wrote it.*)
(***************************************************************************)
WatermarkMonotone ==
    [][\A g \in Registered : offsets'[g] = NoRow \/ offsets'[g] >= offsets[g]]_vars

(***************************************************************************)
(* The renewal between pages bounds the overlap of a superseded leader to  *)
(* a single page.                                                          *)
(***************************************************************************)
StaleOverlapBounded == \A i \in Instances : stale[i] <= BatchSize

(***************************************************************************)
(* A consumer group that is alone on the log, and sequences it, is owed    *)
(* everything that was ever committed: registering it discards nothing.    *)
(***************************************************************************)
FreshGroupOwedBacklog == \A g \in Groups : excused[g] = {}

(***************************************************************************)
(* The drain assumes that the value it just committed is the group's       *)
(* offset, and continues from it without reading it back.                  *)
(***************************************************************************)
LocalOffsetIsCommitted ==
    \A i \in Instances : pc[i] = "renewDrain" /\ holder[GroupOf[i]] = i
                            => offset[i] = offsets[GroupOf[i]]

(***************************************************************************)
(* Every committed event is eventually delivered to, or parked for, every  *)
(* group it is owed to.                                                    *)
(***************************************************************************)
EventuallyDisposed ==
    \A m \in 1..MaxMsgs : \A g \in Groups :
        (m <= published) ~> (m \in disposed[g] \cup excused[g])
=============================================================================
