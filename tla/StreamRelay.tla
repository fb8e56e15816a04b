---------------------------- MODULE StreamRelay ----------------------------
(***************************************************************************)
(* The stream relay (relay/stream/run.go) of one consumer group over a     *)
(* MongoDB outbox: replicas that tail the change stream of the collection, *)
(* one call at a time,                                                     *)
(*                                                                         *)
(*   acquire lease -> load token -> open stream -> save baseline           *)
(*                 -> drain a window of events -> save token               *)
(*                                                                         *)
(* An oplog entry is named by its position, and a resume token by the      *)
(* position it resumes after.  The token's KeyString orders it, so         *)
(* SaveToken's keyed guard compares positions; the coarse guard, for       *)
(* tokens and rows without a key, is left out: MongoDB's tokens have one.  *)
(***************************************************************************)
EXTENDS Integers, FiniteSets, FiniteSetsExt

CONSTANTS
    Instances,      \* the replicas
    None,           \* no lock holder
    TokenBatchSize, \* events per drain window
    PoisonHandler,  \* instances with a PoisonHandler
    Kind,           \* what each oplog entry is
    ContendedStart, \* may a live leader lose its lease before the group has a row?
    Troubles,       \* what may go wrong
    MaxHead,        \* bound: oplog entries
    MaxTroubles     \* bound: things that go wrong

(***************************************************************************)
(* An entry is an insert into the outbox whose event is sent, refused by   *)
(* the transport for good, or not decoded - with its position, with its    *)
(* resume token alone, or without either - or it is the invalidation of    *)
(* the stream, or of another collection and invisible in the stream.       *)
(***************************************************************************)
Undecodable == {"poison", "undated", "garbled"}
EventKinds == {"ok", "unsendable"} \cup Undecodable
Kinds == EventKinds \cup {"invalidate", "other"}
AllTroubles == {"acquire", "open", "next", "send", "park", "save",  \* a call fails
                "steal",     \* a lease is taken from a live holder
                "cancel", "crash",
                "truncate",  \* an oplog entry falls off its tail
                "delete"}    \* DeleteToken

ASSUME StreamRelayAssumption ==
    /\ None \notin Instances
    /\ TokenBatchSize \in Nat \ {0}
    /\ PoisonHandler \subseteq Instances
    /\ MaxHead \in Nat
    /\ Kind \in [1..MaxHead -> Kinds]
    /\ ContendedStart \in BOOLEAN
    /\ Troubles \subseteq AllTroubles
    /\ MaxTroubles \in Nat

VARIABLES
    \* the database
    head,        \* last oplog entry
    oldest,      \* the first position a stream can still be resumed after
    row,         \* the group's offset document: resume token and its commit time
    holder,      \* holder of the leader lock, or None
    \* the Relay of each instance
    pc,          \* its next call
    live,        \* FALSE once its run context is canceled
    stream,      \* position of the open stream, or NoTok
    baseline,    \* baselineTok: a fresh group's first position, while not persisted
    lastSaved,   \* lastSavedTok
    committedCT, \* commit time of the last persisted position
    loaded,      \* what LoadToken returned
    handled,     \* events disposed of in this window
    lastTok,     \* the position to save, or NoTok
    lastCT,      \* its commit time
    ending,      \* what follows the save
    \* histories, for the properties
    disposed,    \* events delivered or parked
    excused,     \* entries before the position the group registered at
    first,       \* first "now" at which an instance opened the stream of a fresh group
    troubles     \* how many things went wrong

dbVars == <<head, oldest, row, holder>>
trackVars == <<baseline, lastSaved, committedCT>>
windowVars == <<handled, lastTok, lastCT, ending>>
histVars == <<disposed, excused, first>>
vars == <<head, oldest, row, holder, pc, live, stream, baseline, lastSaved,
          committedCT, loaded, handled, lastTok, lastCT, ending, disposed, excused,
          first, troubles>>

NoTok == -1
Positions == 0..MaxHead
Tokens == Positions \cup {NoTok}
\* Commit times: 0 is the zero time, and each position has one of its own.
CommitTime(p) == p + 1
Times == 0..(MaxHead + 1)
NoRow == [tok |-> NoTok, ct |-> 0]
Registered == row # NoRow

Init ==
    /\ head = 0
    /\ oldest = 0
    /\ row = NoRow
    /\ holder = None
    /\ pc = [i \in Instances |-> "down"]
    /\ live = [i \in Instances |-> FALSE]
    /\ stream = [i \in Instances |-> NoTok]
    /\ baseline = [i \in Instances |-> NoTok]
    /\ lastSaved = [i \in Instances |-> NoTok]
    /\ committedCT = [i \in Instances |-> 0]
    /\ loaded = [i \in Instances |-> NoRow]
    /\ handled = [i \in Instances |-> 0]
    /\ lastTok = [i \in Instances |-> NoTok]
    /\ lastCT = [i \in Instances |-> 0]
    /\ ending = [i \in Instances |-> "window"]
    /\ disposed = {}
    /\ excused = {}
    /\ first = [i \in Instances |-> NoTok]
    /\ troubles = 0
-----------------------------------------------------------------------------
\* Something goes wrong, within the bound.
Trouble(what) ==
    /\ what \in Troubles
    /\ troubles < MaxTroubles
    /\ troubles' = troubles + 1

Goto(i, label) == pc' = [pc EXCEPT ![i] = label]

\* The locals of RunOnce and drainWindow at the start of a window.
FreshWindow(i) ==
    /\ loaded' = [loaded EXCEPT ![i] = NoRow]
    /\ handled' = [handled EXCEPT ![i] = 0]
    /\ lastTok' = [lastTok EXCEPT ![i] = NoTok]
    /\ lastCT' = [lastCT EXCEPT ![i] = 0]
    /\ ending' = [ending EXCEPT ![i] = "window"]

\* RunOnce ends, with the stream left open at pos or closed (NoTok).
EndPass(i, label, pos) ==
    /\ FreshWindow(i)
    /\ Goto(i, label)
    /\ stream' = [stream EXCEPT ![i] = pos]

(***************************************************************************)
(* How a pass ends: a full or empty window keeps the stream; a stopped     *)
(* lane and every error close it, to be reopened from the stored token; a  *)
(* lost or invalidated stream ends Run.                                    *)
(***************************************************************************)
Endings == {"window", "baseline", "closed", "fatal"}

CloseStream(i, why) == EndPass(i, IF why = "fatal" THEN "release" ELSE "idle", NoTok)
-----------------------------------------------------------------------------
(***************************************************************************)
(* The leader lock, with expiry as in SequenceRelay: a rival may find the  *)
(* lease of a running holder expired when a window outlives it.            *)
(***************************************************************************)
Rival(i) == holder \notin {None, i}

TakeLock(i) ==
    /\ IF Rival(i) THEN Trouble("steal") /\ (Registered \/ ContendedStart)
                   ELSE UNCHANGED troubles
    /\ holder' = i

LeaveLock(i) == holder' = IF holder = i THEN None ELSE holder

\* RunOnce: the stream of the last window, if it is still open, is drained on.
TryAcquire(i) ==
    /\ pc[i] = "idle" /\ live[i]
    /\ TakeLock(i)
    /\ Goto(i, IF stream[i] = NoTok THEN "load" ELSE "next")
    /\ UNCHANGED <<head, oldest, row, live, stream, trackVars, loaded, windowVars,
                   histVars>>

\* The election is lost, or was not decided, in which case the lock may be taken.
NotLeader(i) ==
    /\ pc[i] = "idle" /\ live[i]
    /\ \/ Rival(i) /\ UNCHANGED <<holder, troubles>>
       \/ Trouble("acquire") /\ holder' \in (IF Rival(i) THEN {holder} ELSE {holder, i})
    /\ EndPass(i, "idle", NoTok)
    /\ UNCHANGED <<head, oldest, row, live, trackVars, histVars>>
-----------------------------------------------------------------------------
(***************************************************************************)
(* RunOnce without a stream: LoadToken, then Watch.                        *)
(***************************************************************************)
LoadToken(i) ==
    /\ pc[i] = "load" /\ live[i]
    /\ loaded' = [loaded EXCEPT ![i] = row]
    /\ Goto(i, "watch")
    /\ UNCHANGED <<dbVars, live, stream, trackVars, windowVars, histVars, troubles>>

\* Mutation of ResumeToken: the baseline that failed to persist is forgotten.
ResumeTokenStored(i) == loaded[i].tok

\* The stored token, else the baseline that failed to persist, else "now".
ResumeToken(i) == IF loaded[i].tok = NoTok THEN baseline[i] ELSE loaded[i].tok

(***************************************************************************)
(* Watch resumed from a token.  Only a stored token seeds lastSavedTok.    *)
(***************************************************************************)
\* Mutation of Seed: a baseline that was not persisted counts as saved.
SeedResume(i) == ResumeToken(i)

Seed(i) == loaded[i].tok

Resume(i) ==
    /\ pc[i] = "watch" /\ live[i]
    /\ ResumeToken(i) >= oldest
    /\ stream' = [stream EXCEPT ![i] = ResumeToken(i)]
    /\ committedCT' = [committedCT EXCEPT ![i] =
          IF loaded[i].tok = NoTok THEN CommitTime(baseline[i]) ELSE loaded[i].ct]
    /\ lastSaved' = [lastSaved EXCEPT ![i] = Seed(i)]
    /\ FreshWindow(i)
    /\ Goto(i, "next")
    /\ UNCHANGED <<dbVars, live, baseline, histVars, troubles>>

\* The oplog no longer holds the token: Watch returns ErrHistoryLost.
ResumeLost(i) ==
    /\ pc[i] = "watch" /\ live[i]
    /\ ResumeToken(i) # NoTok /\ ResumeToken(i) < oldest
    /\ CloseStream(i, "fatal")
    /\ UNCHANGED <<dbVars, live, trackVars, histVars, troubles>>

(***************************************************************************)
(* A fresh group opens at "now", and its Checkpoint is remembered as the   *)
(* baseline before it is saved.                                            *)
(***************************************************************************)
OpenFresh(i) ==
    /\ pc[i] = "watch" /\ live[i]
    /\ ResumeToken(i) = NoTok
    /\ stream' = [stream EXCEPT ![i] = head]
    /\ committedCT' = [committedCT EXCEPT ![i] = 0]
    /\ lastSaved' = [lastSaved EXCEPT ![i] = NoTok]
    /\ baseline' = [baseline EXCEPT ![i] = head]
    /\ lastTok' = [lastTok EXCEPT ![i] = head]
    /\ lastCT' = [lastCT EXCEPT ![i] = CommitTime(head)]
    /\ ending' = [ending EXCEPT ![i] = "baseline"]
    /\ loaded' = [loaded EXCEPT ![i] = NoRow]
    /\ first' = [first EXCEPT ![i] = IF @ = NoTok THEN head ELSE @]
    /\ Goto(i, "save")
    /\ UNCHANGED <<dbVars, live, handled, disposed, excused, troubles>>

OpenFails(i) ==
    /\ pc[i] \in {"load", "watch"} /\ live[i]
    /\ Trouble("open")
    /\ CloseStream(i, "closed")
    /\ UNCHANGED <<dbVars, live, trackVars, histVars>>
-----------------------------------------------------------------------------
(***************************************************************************)
(* drainWindow.                                                            *)
(***************************************************************************)
Waiting(i) == {p \in (stream[i] + 1)..head : Kind[p] # "other"}
NextEntry(i) == Min(Waiting(i))
NextIs(i, kinds) == Waiting(i) # {} /\ Kind[NextEntry(i)] \in kinds

\* Mutation of Advance: one event too many before the token is persisted.
AdvanceOneMore(i, ct) ==
    /\ stream' = [stream EXCEPT ![i] = NextEntry(i)]
    /\ lastTok' = [lastTok EXCEPT ![i] = NextEntry(i)]
    /\ lastCT' = [lastCT EXCEPT ![i] = ct]
    /\ handled' = [handled EXCEPT ![i] = @ + 1]
    /\ Goto(i, IF handled[i] = TokenBatchSize THEN "save" ELSE "next")
    /\ UNCHANGED ending

\* The event was sent or parked: the window's position moves past it.
Advance(i, ct) ==
    /\ stream' = [stream EXCEPT ![i] = NextEntry(i)]
    /\ lastTok' = [lastTok EXCEPT ![i] = NextEntry(i)]
    /\ lastCT' = [lastCT EXCEPT ![i] = ct]
    /\ handled' = [handled EXCEPT ![i] = @ + 1]
    /\ Goto(i, IF handled[i] + 1 = TokenBatchSize THEN "save" ELSE "next")
    /\ UNCHANGED ending

(***************************************************************************)
(* The window ends early: what it disposed of is saved first.              *)
(***************************************************************************)
Break(i, why) ==
    IF lastTok[i] = NoTok
      THEN CloseStream(i, why)
      ELSE /\ Goto(i, "save")
           /\ ending' = [ending EXCEPT ![i] = why]
           /\ UNCHANGED <<stream, loaded, handled, lastTok, lastCT>>

\* Mutation of LaneSend: a failed send is skipped and the window goes on.
LaneSendSkips(i) ==
    /\ pc[i] = "next" /\ live[i] /\ NextIs(i, {"ok", "unsendable"})
    /\ LET e == NextEntry(i) IN
       \/ /\ Kind[e] = "ok" \/ i \in PoisonHandler
          /\ disposed' = disposed \cup {e}
          /\ UNCHANGED troubles
       \/ /\ Trouble(IF Kind[e] = "ok" THEN "send" ELSE "park")
          /\ UNCHANGED disposed
    /\ stream' = [stream EXCEPT ![i] = NextEntry(i)]
    /\ UNCHANGED <<dbVars, pc, live, trackVars, loaded, windowVars, excused, first>>

(***************************************************************************)
(* lane.Send of the next event: sent; or refused for good and parked; or   *)
(* failed, perhaps after the broker took it, which stops the lane.         *)
(***************************************************************************)
LaneSend(i) ==
    /\ pc[i] = "next" /\ live[i] /\ NextIs(i, {"ok", "unsendable"})
    /\ LET e == NextEntry(i) IN
       \/ /\ Kind[e] = "ok" \/ i \in PoisonHandler
          /\ disposed' = disposed \cup {e}
          /\ Advance(i, CommitTime(e))
          /\ UNCHANGED <<loaded, troubles>>
       \/ /\ \/ Trouble(IF Kind[e] = "ok" THEN "send" ELSE "park")
             \/ Kind[e] = "unsendable" /\ i \notin PoisonHandler /\ UNCHANGED troubles
          /\ disposed' \in {disposed, disposed \cup {p \in {e} : Kind[p] = "ok"}}
          /\ Break(i, "closed")
    /\ UNCHANGED <<dbVars, live, trackVars, excused, first>>

\* Only an event with a resume token can be parked, and only by a handler.
Parkable(i) == NextIs(i, Undecodable \ {"garbled"}) /\ i \in PoisonHandler

(***************************************************************************)
(* lane.Park of an undecodable event.  Its commit time floors at the       *)
(* window's, or at the last committed one.                                 *)
(***************************************************************************)
ParkPoison(i) ==
    /\ pc[i] = "next" /\ live[i] /\ Parkable(i)
    /\ LET e == NextEntry(i) IN
       \/ /\ disposed' = disposed \cup {e}
          /\ Advance(i, IF Kind[e] = "poison" THEN CommitTime(e)
                        ELSE IF lastCT[i] = 0 THEN committedCT[i] ELSE lastCT[i])
          /\ UNCHANGED <<loaded, troubles>>
       \/ /\ Trouble("park")
          /\ Break(i, "closed")
          /\ UNCHANGED disposed
    /\ UNCHANGED <<dbVars, live, trackVars, excused, first>>

\* A poison event the lane cannot get past: the stream is reopened onto it.
Unparkable(i) ==
    /\ pc[i] = "next" /\ live[i] /\ NextIs(i, Undecodable) /\ ~Parkable(i)
    /\ Break(i, "closed")
    /\ UNCHANGED <<dbVars, live, trackVars, histVars, troubles>>

\* ErrInvalidated, or ErrHistoryLost of a stream that lags behind the oplog.
StreamLost(i) == NextIs(i, {"invalidate"}) \/ stream[i] < oldest

NextLost(i) ==
    /\ pc[i] = "next" /\ live[i] /\ StreamLost(i)
    /\ Break(i, "fatal")
    /\ UNCHANGED <<dbVars, live, trackVars, histVars, troubles>>

\* Any other error of Next, a stream closed by the server among them.
NextFails(i) ==
    /\ pc[i] = "next" /\ live[i]
    /\ Trouble("next")
    /\ Break(i, "closed")
    /\ UNCHANGED <<dbVars, live, trackVars, histVars>>

(***************************************************************************)
(* No more events: the stream is at the head.  A window that disposed of   *)
(* nothing saves the Checkpoint, unless that is the last saved token.      *)
(***************************************************************************)
EmptyWindow(i) ==
    /\ pc[i] = "next" /\ live[i] /\ Waiting(i) = {}
    /\ IF lastTok[i] = NoTok /\ head = lastSaved[i]
         THEN /\ committedCT' = [committedCT EXCEPT ![i] = CommitTime(head)]
              /\ EndPass(i, "idle", head)
         ELSE /\ stream' = [stream EXCEPT ![i] = head]
              /\ lastTok' = [lastTok EXCEPT ![i] = IF @ = NoTok THEN head ELSE @]
              /\ lastCT' = [lastCT EXCEPT ![i] =
                               IF lastTok[i] = NoTok THEN CommitTime(head) ELSE @]
              /\ Goto(i, "save")
              /\ UNCHANGED <<committedCT, loaded, handled, ending>>
    /\ UNCHANGED <<dbVars, live, baseline, lastSaved, histVars, troubles>>

\* The run context died: stop without parking; an interrupted send may arrive.
WindowCanceled(i) ==
    /\ pc[i] = "next" /\ ~live[i]
    /\ \/ UNCHANGED disposed
       \/ NextIs(i, {"ok"}) /\ disposed' = disposed \cup {NextEntry(i)}
    /\ Break(i, "closed")
    /\ UNCHANGED <<dbVars, live, trackVars, excused, first, troubles>>
-----------------------------------------------------------------------------
(***************************************************************************)
(* SaveToken: an upsert that the stored row refuses when it is newer.  The *)
(* row that registers the group excuses what precedes its first position.  *)
(***************************************************************************)
\* Mutation of Newer: the guard compares nothing.
NewerNever(i) == FALSE

Newer(i) == row.tok > lastTok[i]

WriteToken(i) ==
    /\ ~Newer(i)
    /\ row' = [tok |-> lastTok[i], ct |-> lastCT[i]]
    /\ excused' = IF Registered THEN excused ELSE excused \cup 1..first[i]

\* What follows a save that was answered.
AfterSave(i) ==
    CASE ending[i] = "window" -> EndPass(i, "idle", stream[i])
      [] ending[i] = "baseline" -> EndPass(i, "next", stream[i])
      [] OTHER -> CloseStream(i, ending[i])

(***************************************************************************)
(* saveToken.  The write is detached from the run context.  Only a         *)
(* persisted position moves the trackers and retires the baseline; a       *)
(* refused one is reported and no more; a failed one, applied or not,      *)
(* closes the stream.                                                      *)
(***************************************************************************)
SaveToken(i) ==
    /\ pc[i] = "save"
    /\ \/ /\ WriteToken(i)
          /\ lastSaved' = [lastSaved EXCEPT ![i] = lastTok[i]]
          /\ committedCT' = [committedCT EXCEPT ![i] = lastCT[i]]
          /\ baseline' = [baseline EXCEPT ![i] = NoTok]
          /\ AfterSave(i)
          /\ UNCHANGED troubles
       \/ /\ Newer(i)
          /\ AfterSave(i)
          /\ UNCHANGED <<row, excused, trackVars, troubles>>
       \/ /\ Trouble("save")
          /\ WriteToken(i) \/ UNCHANGED <<row, excused>>
          /\ CloseStream(i, ending[i])
          /\ UNCHANGED trackVars
    /\ UNCHANGED <<head, oldest, holder, live, disposed, first>>
-----------------------------------------------------------------------------
(***************************************************************************)
(* Start, shutdown, crash and the outside world.                           *)
(***************************************************************************)
Start(i) ==
    /\ pc[i] = "down"
    /\ Goto(i, "idle")
    /\ live' = [live EXCEPT ![i] = TRUE]
    /\ UNCHANGED <<dbVars, stream, trackVars, loaded, windowVars, histVars, troubles>>

Cancel(i) ==
    /\ live[i]
    /\ Trouble("cancel")
    /\ live' = [live EXCEPT ![i] = FALSE]
    /\ UNCHANGED <<dbVars, pc, stream, trackVars, loaded, windowVars, histVars>>

\* With a dead run context every further call fails at once and Run returns.
Shutdown(i) ==
    /\ ~live[i] /\ pc[i] \in {"idle", "load", "watch"}
    /\ CloseStream(i, "fatal")
    /\ UNCHANGED <<dbVars, live, trackVars, histVars, troubles>>

\* The process is gone, and with it what its Relay remembered.
Forget(i) ==
    /\ baseline' = [baseline EXCEPT ![i] = NoTok]
    /\ lastSaved' = [lastSaved EXCEPT ![i] = NoTok]
    /\ committedCT' = [committedCT EXCEPT ![i] = 0]
    /\ first' = [first EXCEPT ![i] = NoTok]
    /\ live' = [live EXCEPT ![i] = FALSE]
    /\ LeaveLock(i)

\* Run returns: ReleaseLeadership, and the process exits.
Release(i) ==
    /\ pc[i] = "release"
    /\ Goto(i, "down")
    /\ Forget(i)
    /\ UNCHANGED <<head, oldest, row, stream, loaded, windowVars, disposed, excused,
                   troubles>>

Crash(i) ==
    /\ pc[i] # "down"
    /\ Trouble("crash")
    /\ EndPass(i, "down", NoTok)
    /\ Forget(i)
    /\ UNCHANGED <<head, oldest, row, disposed, excused>>

\* One more entry of the oplog: a CreateOutboxMessage, or someone else's write.
Append ==
    /\ head < MaxHead
    /\ head' = head + 1
    /\ UNCHANGED <<oldest, row, holder, pc, live, stream, trackVars, loaded,
                   windowVars, histVars, troubles>>

\* The oplog is capped.
Truncate ==
    /\ oldest < head
    /\ Trouble("truncate")
    /\ oldest' = oldest + 1
    /\ UNCHANGED <<head, row, holder, pc, live, stream, trackVars, loaded, windowVars,
                   histVars>>

\* The runbook's reset of a group, with its replicas stopped.
DeleteToken ==
    /\ Registered
    /\ \A i \in Instances : pc[i] = "down"
    /\ Trouble("delete")
    /\ row' = NoRow
    /\ UNCHANGED <<head, oldest, holder, pc, live, stream, trackVars, loaded,
                   windowVars, histVars>>
-----------------------------------------------------------------------------
\* The instance's own progress.
Step(i) ==
    \/ TryAcquire(i) \/ NotLeader(i)
    \/ LoadToken(i) \/ Resume(i) \/ ResumeLost(i) \/ OpenFresh(i)
    \/ LaneSend(i) \/ ParkPoison(i) \/ Unparkable(i) \/ NextLost(i)
    \/ EmptyWindow(i) \/ WindowCanceled(i) \/ SaveToken(i)
    \/ Shutdown(i) \/ Release(i) \/ Start(i)

\* What its environment does to it.
Disturb(i) == OpenFails(i) \/ NextFails(i) \/ Cancel(i) \/ Crash(i)

Next ==
    \/ \E i \in Instances : Step(i) \/ Disturb(i)
    \/ Append \/ Truncate \/ DeleteToken

Spec == Init /\ [][Next]_vars

(***************************************************************************)
(* Run loops until its context is canceled and every call it makes is      *)
(* bounded, so an instance keeps taking steps; a dead one is restarted.    *)
(***************************************************************************)
FairSpec == Spec /\ \A i \in Instances : WF_vars(Step(i))
-----------------------------------------------------------------------------
(***************************************************************************)
(* Properties.                                                             *)
(***************************************************************************)
PCs == {"down", "idle", "load", "watch", "next", "save", "release"}

Rows == [tok : Tokens, ct : Times]

TypeOK ==
    /\ head \in Positions /\ oldest \in 0..head
    /\ row \in Rows
    /\ holder \in Instances \cup {None}
    /\ pc \in [Instances -> PCs]
    /\ live \in [Instances -> BOOLEAN]
    /\ stream \in [Instances -> Tokens]
    /\ baseline \in [Instances -> Tokens]
    /\ lastSaved \in [Instances -> Tokens]
    /\ committedCT \in [Instances -> Times]
    /\ loaded \in [Instances -> Rows]
    /\ handled \in [Instances -> 0..TokenBatchSize]
    /\ lastTok \in [Instances -> Tokens]
    /\ lastCT \in [Instances -> Times]
    /\ ending \in [Instances -> Endings]
    /\ disposed \subseteq 1..head
    /\ excused \subseteq 1..head
    /\ first \in [Instances -> Tokens]
    /\ troubles \in 0..MaxTroubles

Owed == {p \in 1..head : Kind[p] \in EventKinds}

(***************************************************************************)
(* At least once: the stored token never passes an event that was neither  *)
(* delivered nor parked, from the first position at which any instance     *)
(* opened the stream of the fresh group, whatever save or park failed.     *)
(***************************************************************************)
TokenNeverSkips == Owed \cap 1..row.tok \subseteq disposed \cup excused

(***************************************************************************)
(* Commit order: no event is delivered before an earlier one is disposed   *)
(* of, across reopened streams and successive leaders.                     *)
(***************************************************************************)
CommitOrder ==
    Registered => \A m \in disposed : Owed \cap 1..(m - 1) \subseteq disposed \cup excused

(***************************************************************************)
(* A stored token never moves back, although two leaders may save theirs   *)
(* in any order and SaveToken is not fenced by the lock.                   *)
(***************************************************************************)
TokenMonotone == [][Registered /\ row' # NoRow => row'.tok >= row.tok]_vars

\* An entry that no instance, or not every instance, gets past by itself.
Wedges(e) ==
    \/ Kind[e] \in {"garbled", "invalidate"}
    \/ Kind[e] \in EventKinds \ {"ok"} /\ PoisonHandler # Instances

(***************************************************************************)
(* Position p waits for an operator: the token fell off the oplog, or the  *)
(* lane stops at an entry before the first event at or after p - at any    *)
(* entry, if the group has no row yet: a stopped lane saves no baseline.   *)
(***************************************************************************)
Blocked(p) ==
    \/ Registered /\ row.tok < oldest
    \/ \E e \in 1..head : Wedges(e) /\ (~Registered \/ Owed \cap p..(e - 1) = {})

(***************************************************************************)
(* The stored position keeps catching up with every oplog entry, events    *)
(* and other writes alike, so a connected relay stays clear of the cliff,  *)
(* and a fresh group is registered even if its first save failed.          *)
(***************************************************************************)
EventuallyCommitted ==
    []<>(\A p \in 0..head : row.tok >= p \/ Blocked(p))
=============================================================================
