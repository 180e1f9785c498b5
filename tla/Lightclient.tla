---------------------------- MODULE Lightclient -----------------------------
(***************************************************************************)
(* The Lightclient class: a client that follows the chain by keeping the   *)
(* sync committees of the last periods and the best header they signed.    *)
(* `runLoop` fetches committee updates from a beacon API, period by        *)
(* period, and header updates arrive over SSE.  Every action below is one  *)
(* stretch of code between two awaits.                                     *)
(*                                                                         *)
(* Cryptography is abstracted to its outcome.  A header or an update names *)
(* the committee whose members signed it (`signer`); the signature check   *)
(* succeeds exactly when this is the committee it is checked against.      *)
(* `proofOk` says whether the Merkle branches of an update are valid.      *)
(***************************************************************************)
EXTENDS Integers, Sequences, InsertionMap

CONSTANTS
  SLOTS_PER_EPOCH,
  EPOCHS_PER_SYNC_COMMITTEE_PERIOD,
  SYNC_COMMITTEE_SIZE,
  MIN_SYNC_COMMITTEE_PARTICIPANTS,
  MAX_PERIODS_PER_REQUEST,
  FutureTolerance,    \* MAX_CLOCK_DISPARITY_SEC, in slots
  Committee,          \* the sync committees there are
  SnapshotSlot,       \* slot and current committee of the trusted snapshot
  SnapshotCommittee,
  Updates,            \* the committee updates a server may send
  Headers,            \* the header updates a server may send
  ServerFails,        \* may a request to the server fail?
  HonestServer,       \* does the server answer with the period asked for?
  Timely,             \* are requests and events handled within a slot?
  Loops,              \* the run loops that calls of start() may create
  MaxSlot,            \* bound: the clock stops here
  Trusted             \* pairs <<period, committee>>, see TrustAssumption

Slot == 0..MaxSlot

UpdateType ==
  [slot : Nat, attestedSlot : Nat, isFinalized : BOOLEAN, proofOk : BOOLEAN,
   signer : Committee, next : Committee, participation : Nat]

HeaderType == [slot : Nat, signer : Committee, participation : Nat]

ASSUME ConstantsAssumption ==
  /\ SLOTS_PER_EPOCH \in Nat \ {0}
  /\ EPOCHS_PER_SYNC_COMMITTEE_PERIOD \in Nat \ {0}
  /\ SYNC_COMMITTEE_SIZE \in Nat \ {0}
  /\ MIN_SYNC_COMMITTEE_PARTICIPANTS \in Nat \ {0}
  /\ MAX_PERIODS_PER_REQUEST \in Nat \ {0}
  /\ FutureTolerance \in Nat
  /\ SnapshotSlot \in Nat
  /\ SnapshotCommittee \in Committee
  /\ Updates \subseteq UpdateType
  /\ Headers \subseteq HeaderType
  /\ ServerFails \in BOOLEAN
  /\ HonestServer \in BOOLEAN
  /\ Timely \in BOOLEAN
  /\ MaxSlot \in Nat
  /\ SnapshotSlot <= MaxSlot

VARIABLES
  currentSlot,                \* the wall clock
  syncCommitteeByPeriod,      \* Map<SyncPeriod, stats and committee>
  maxParticipationByPeriod,   \* Map<SyncPeriod, number>
  head,                       \* the best header
  status,                     \* RunStatus
  loop                        \* the run loops: where each one waits

vars == <<currentSlot, syncCommitteeByPeriod, maxParticipationByPeriod, head,
          status, loop>>

store == <<syncCommitteeByPeriod, maxParticipationByPeriod, head>>

-----------------------------------------------------------------------------
(* Time *)

EpochAtSlot(slot) == slot \div SLOTS_PER_EPOCH

PeriodAtEpoch(epoch) == epoch \div EPOCHS_PER_SYNC_COMMITTEE_PERIOD

PeriodAtSlot(slot) == PeriodAtEpoch(EpochAtSlot(slot))

MAX_STORED_SYNC_COMMITTEES == 2

MAX_STORED_PARTICIPATION == 3

SAFETY_THRESHOLD_FACTOR == 2

Smaller(a, b) == IF a <= b THEN a ELSE b

Larger(a, b) == IF a >= b THEN a ELSE b

LOOKAHEAD_EPOCHS_COMMITTEE_SYNC ==
  Smaller(8, (EPOCHS_PER_SYNC_COMMITTEE_PERIOD + 1) \div 2)

TooFarInTheFuture(slot) == slot > currentSlot + FutureTolerance

CloseToPeriodEnd ==
  LET epochsIntoPeriod ==
        EpochAtSlot(currentSlot) % EPOCHS_PER_SYNC_COMMITTEE_PERIOD
  IN  EPOCHS_PER_SYNC_COMMITTEE_PERIOD - epochsIntoPeriod
        <= LOOKAHEAD_EPOCHS_COMMITTEE_SYNC

-----------------------------------------------------------------------------
(* Committee updates *)

HasCommittee(period) == period \in MapKeys(syncCommitteeByPeriod)

CommitteeOf(period) == MapGet(syncCommitteeByPeriod, period).committee

ValidSignature(committee, signed) ==
  /\ signed.participation >= MIN_SYNC_COMMITTEE_PARTICIPANTS
  /\ signed.signer = committee

ValidUpdate(committee, u) ==
  /\ u.isFinalized => PeriodAtSlot(u.slot) = PeriodAtSlot(u.attestedSlot)
  /\ u.proofOk
  /\ ValidSignature(committee, u)

\* `Math.min(-Infinity, ...keys)` is -Infinity, so no period is below it.
RollsBack(u) == FALSE

\* Variations: the branch of the next committee is not checked; an update is
\* checked against the newest committee.
AcceptsUpdateOfAnyBranch(u) ==
  /\ ~TooFarInTheFuture(u.slot)
  /\ HasCommittee(PeriodAtSlot(u.slot))
  /\ ValidSignature(CommitteeOf(PeriodAtSlot(u.slot)), u)

AcceptsUpdateByNewest(u) ==
  /\ ~TooFarInTheFuture(u.slot)
  /\ ValidUpdate(
       syncCommitteeByPeriod[Len(syncCommitteeByPeriod)].value.committee, u)

AcceptsUpdate(u) ==
  /\ ~TooFarInTheFuture(u.slot)
  /\ ~RollsBack(u)
  /\ HasCommittee(PeriodAtSlot(u.slot))
  /\ ValidUpdate(CommitteeOf(PeriodAtSlot(u.slot)), u)

IsBetterUpdate(prev, next) ==
  \/ /\ ~prev.isFinalized
     /\ next.isFinalized
     /\ next.participation * 3 > SYNC_COMMITTEE_SIZE * 2
  \/ next.participation > prev.participation
  \/ /\ next.participation = prev.participation
     /\ next.slot < prev.slot

CommitteeEntry(u) ==
  [isFinalized |-> u.isFinalized, participation |-> u.participation,
   slot |-> u.slot, committee |-> u.next]

\* The committee of the next period is kept unless a better one is known.
KeepsKnownCommittee(u) ==
  LET nextPeriod == PeriodAtSlot(u.slot) + 1
  IN  /\ HasCommittee(nextPeriod)
      /\ ~IsBetterUpdate(MapGet(syncCommitteeByPeriod, nextPeriod),
                         CommitteeEntry(u))

StoreNextCommittee(u) ==
  syncCommitteeByPeriod' =
    IF KeepsKnownCommittee(u)
    THEN syncCommitteeByPeriod
    ELSE PruneSetToMax(
           MapSet(syncCommitteeByPeriod, PeriodAtSlot(u.slot) + 1,
                  CommitteeEntry(u)),
           MAX_STORED_SYNC_COMMITTEES)

-----------------------------------------------------------------------------
(* Header updates *)

MaxParticipation(period) ==
  IF period \in MapKeys(maxParticipationByPeriod)
  THEN MapGet(maxParticipationByPeriod, period)
  ELSE 0

RecentParticipation(period) ==
  Larger(MaxParticipation(period), MaxParticipation(period - 1))

MinSafeParticipation(period) ==
  RecentParticipation(period) \div SAFETY_THRESHOLD_FACTOR

\* Variations: the signature, or the participation, is not checked.
AcceptsUnsignedHeader(h) ==
  /\ ~TooFarInTheFuture(h.slot)
  /\ HasCommittee(PeriodAtSlot(h.slot))
  /\ h.participation >= MinSafeParticipation(PeriodAtSlot(h.slot))

AcceptsHeaderOfAnyParticipation(h) ==
  /\ ~TooFarInTheFuture(h.slot)
  /\ HasCommittee(PeriodAtSlot(h.slot))
  /\ ValidSignature(CommitteeOf(PeriodAtSlot(h.slot)), h)

AcceptsHeader(h) ==
  /\ ~TooFarInTheFuture(h.slot)
  /\ HasCommittee(PeriodAtSlot(h.slot))
  /\ ValidSignature(CommitteeOf(PeriodAtSlot(h.slot)), h)
  /\ h.participation >= MinSafeParticipation(PeriodAtSlot(h.slot))

ImprovesHead(h) ==
  \/ h.slot > head.slot
  \/ h.slot = head.slot /\ h.participation > head.participation

RecordParticipation(h) ==
  maxParticipationByPeriod' =
    IF h.participation > RecentParticipation(PeriodAtSlot(h.slot))
    THEN PruneSetToMax(
           MapSet(maxParticipationByPeriod, PeriodAtSlot(h.slot),
                  h.participation),
           MAX_STORED_PARTICIPATION)
    ELSE maxParticipationByPeriod

\* A header that is not accepted throws; its callers log the error.
ProcessHeaderUpdate(h) ==
  /\ UNCHANGED syncCommitteeByPeriod
  /\ IF AcceptsHeader(h)
     THEN /\ RecordParticipation(h)
          /\ head' = IF ImprovesHead(h) THEN h ELSE head
     ELSE UNCHANGED <<maxParticipationByPeriod, head>>

-----------------------------------------------------------------------------
(* The run loop.  `next`..`chunkEnd` are the periods of the chunk that are *)
(* still to come, `to` is the last period of the whole job; a sleeping     *)
(* loop waits for an epoch after `since`.                                  *)

Idle == [pc |-> "idle", purpose |-> "none",
         next |-> 0, chunkEnd |-> 0, to |-> 0, since |-> 0]

Sleeping == [Idle EXCEPT !.pc = "sleep", !.since = EpochAtSlot(currentSlot)]

RequestChunk(purpose, from, to) ==
  [Idle EXCEPT !.pc = "request", !.purpose = purpose, !.next = from,
     !.chunkEnd = Smaller(from + MAX_PERIODS_PER_REQUEST - 1, to), !.to = to]

\* AbortController.abort(): the loops that sleep on its signal return.
Aborted == [l \in Loops |-> IF loop[l].pc = "sleep" THEN Idle ELSE loop[l]]

\* Variation: one period of overlap, also in period 0.
EnterSyncWithOverlap(l) ==
  /\ ~HasCommittee(PeriodAtSlot(currentSlot))
  /\ status' = "syncing"
  /\ loop' = [Aborted EXCEPT ![l] =
                RequestChunk("sync", PeriodAtSlot(head.slot) - 1,
                             PeriodAtSlot(currentSlot))]

EnterSync(l) ==
  /\ ~HasCommittee(PeriodAtSlot(currentSlot))
  /\ status' = "syncing"
  /\ loop' = [Aborted EXCEPT ![l] =
                RequestChunk("sync", PeriodAtSlot(head.slot),
                             PeriodAtSlot(currentSlot))]

TrackHead(l) ==
  LET period == PeriodAtSlot(currentSlot)
  IN  /\ status' = "started"
      /\ loop' = [loop EXCEPT ![l] =
                    IF CloseToPeriodEnd
                    THEN RequestChunk("lookahead", period, period)
                    ELSE Sleeping]

RunFrom(l) ==
  \/ EnterSync(l)
  \/ HasCommittee(PeriodAtSlot(currentSlot)) /\ TrackHead(l)

\* Variation: the loop returns after a lookahead.
WaitForEpochNever(l) ==
  /\ UNCHANGED status
  /\ loop' = [loop EXCEPT ![l] = Idle]

WaitForEpoch(l) ==
  /\ UNCHANGED status
  /\ loop' = [loop EXCEPT ![l] = IF status = "started" THEN Sleeping ELSE Idle]

\* Variation: a failed sync is not retried.
SyncFailedForGood(l) ==
  \/ /\ loop[l].purpose = "sync"
     /\ UNCHANGED status
     /\ loop' = [loop EXCEPT ![l] = Idle]
  \/ loop[l].purpose = "lookahead" /\ WaitForEpoch(l)

SyncFailed(l) ==
  \/ /\ loop[l].purpose = "sync"
     /\ UNCHANGED status
     /\ loop' = [loop EXCEPT ![l] = [Idle EXCEPT !.pc = "retry"]]
  \/ loop[l].purpose = "lookahead" /\ WaitForEpoch(l)

SyncDone(l) ==
  \/ /\ loop[l].purpose = "sync"
     /\ UNCHANGED status
     /\ loop' = [loop EXCEPT ![l] = [Idle EXCEPT !.pc = "head"]]
  \/ loop[l].purpose = "lookahead" /\ WaitForEpoch(l)

-----------------------------------------------------------------------------
(* What an honest server has at a slot *)

UpdatesFor(period) ==
  {u \in Updates : /\ PeriodAtSlot(u.attestedSlot) = period
                   /\ u.attestedSlot <= currentSlot}

HasUpdates(from, to) == \A period \in from..to : UpdatesFor(period) # {}

IsLatestHeader(h) ==
  /\ h.slot <= currentSlot
  /\ \A other \in Headers : other.slot <= currentSlot => other.slot <= h.slot

\* What a timely environment finishes before the slot is over: the requests,
\* the loops that are due, and the delivery of the slot's header.
PendingThisSlot ==
  \/ \E l \in Loops :
       \/ loop[l].pc \in {"process", "head"}
       \/ /\ loop[l].pc = "request"
          /\ HasUpdates(loop[l].next, loop[l].chunkEnd)
       \/ loop[l].pc = "sleep" /\ EpochAtSlot(currentSlot) > loop[l].since
  \/ /\ status = "started"
     /\ \E h \in Headers : /\ h.slot <= currentSlot
                           /\ AcceptsHeader(h)
                           /\ ImprovesHead(h)

-----------------------------------------------------------------------------
(* Actions *)

\* Nothing in start() asks whether a loop runs already.
Start(l) ==
  /\ loop[l].pc = "idle"
  /\ RunFrom(l)
  /\ UNCHANGED <<currentSlot, store>>

\* Variation: the controller is not aborted.
StopWithoutAbort ==
  /\ status = "started"
  /\ status' = "stopped"
  /\ UNCHANGED <<currentSlot, store, loop>>

Stop ==
  /\ status = "started"
  /\ status' = "stopped"
  /\ loop' = Aborted
  /\ UNCHANGED <<currentSlot, store>>

SyncReply(l) ==
  /\ loop[l].pc = "request"
  /\ HonestServer => HasUpdates(loop[l].next, loop[l].chunkEnd)
  /\ loop' = [loop EXCEPT ![l].pc = "process"]
  /\ UNCHANGED <<currentSlot, store, status>>

SyncRequestFails(l) ==
  /\ loop[l].pc = "request"
  /\ \/ ServerFails
     \/ HonestServer /\ ~HasUpdates(loop[l].next, loop[l].chunkEnd)
  /\ SyncFailed(l)
  /\ UNCHANGED <<currentSlot, store>>

\* An honest server answers with one update for each period, in order.
Sends(l, u) ==
  HonestServer => /\ loop[l].next <= loop[l].chunkEnd
                  /\ u \in UpdatesFor(loop[l].next)

AcceptUpdate(l, u) ==
  /\ loop[l].pc = "process"
  /\ Sends(l, u)
  /\ AcceptsUpdate(u)
  /\ StoreNextCommittee(u)
  /\ loop' = [loop EXCEPT ![l].next = IF HonestServer THEN @ + 1 ELSE @]
  /\ UNCHANGED <<currentSlot, maxParticipationByPeriod, head, status>>

RejectUpdate(l, u) ==
  /\ loop[l].pc = "process"
  /\ Sends(l, u)
  /\ ~AcceptsUpdate(u)
  /\ SyncFailed(l)
  /\ UNCHANGED <<currentSlot, store>>

NextChunk(l) ==
  /\ loop[l].pc = "process"
  /\ HonestServer => loop[l].next > loop[l].chunkEnd
  /\ loop[l].chunkEnd < loop[l].to
  /\ loop' = [loop EXCEPT ![l] =
                RequestChunk(loop[l].purpose, loop[l].chunkEnd + 1, loop[l].to)]
  /\ UNCHANGED <<currentSlot, store, status>>

LastChunkDone(l) ==
  /\ loop[l].pc = "process"
  /\ HonestServer => loop[l].next > loop[l].chunkEnd
  /\ loop[l].chunkEnd >= loop[l].to
  /\ SyncDone(l)
  /\ UNCHANGED <<currentSlot, store>>

Retry(l) ==
  /\ loop[l].pc = "retry"
  /\ RunFrom(l)
  /\ UNCHANGED <<currentSlot, store>>

HeadReply(l, h) ==
  /\ loop[l].pc = "head"
  /\ HonestServer => IsLatestHeader(h)
  /\ ProcessHeaderUpdate(h)
  /\ TrackHead(l)
  /\ UNCHANGED currentSlot

HeadRequestFails(l) ==
  /\ loop[l].pc = "head"
  /\ ServerFails
  /\ TrackHead(l)
  /\ UNCHANGED <<currentSlot, store>>

OnSSE(h) ==
  /\ status = "started"
  /\ HonestServer => h.slot <= currentSlot
  /\ ProcessHeaderUpdate(h)
  /\ UNCHANGED <<currentSlot, status, loop>>

Wake(l) ==
  /\ loop[l].pc = "sleep"
  /\ EpochAtSlot(currentSlot) > loop[l].since
  /\ RunFrom(l)
  /\ UNCHANGED <<currentSlot, store>>

Tick ==
  /\ currentSlot < MaxSlot
  /\ ~(Timely /\ PendingThisSlot)
  /\ currentSlot' = currentSlot + 1
  /\ UNCHANGED <<store, status, loop>>

-----------------------------------------------------------------------------
SnapshotEntry ==
  Entry(PeriodAtSlot(SnapshotSlot),
        [isFinalized |-> FALSE, participation |-> 0,
         slot |-> PeriodAtSlot(SnapshotSlot)
                    * EPOCHS_PER_SYNC_COMMITTEE_PERIOD * SLOTS_PER_EPOCH,
         committee |-> SnapshotCommittee])

Init ==
  /\ currentSlot \in SnapshotSlot..MaxSlot
  /\ syncCommitteeByPeriod = <<SnapshotEntry>>
  /\ maxParticipationByPeriod = EmptyMap
  /\ head = [slot |-> SnapshotSlot, signer |-> SnapshotCommittee,
             participation |-> 0]
  /\ status = "stopped"
  /\ loop = [l \in Loops |-> Idle]

RunLoop(l) ==
  \/ SyncReply(l)
  \/ SyncRequestFails(l)
  \/ \E u \in Updates : AcceptUpdate(l, u) \/ RejectUpdate(l, u)
  \/ NextChunk(l)
  \/ LastChunkDone(l)
  \/ Retry(l)
  \/ \E h \in Headers : HeadReply(l, h)
  \/ HeadRequestFails(l)
  \/ Wake(l)

Next ==
  \/ \E l \in Loops : Start(l) \/ RunLoop(l)
  \/ Stop
  \/ \E h \in Headers : OnSSE(h)
  \/ Tick

Spec == Init /\ [][Next]_vars

\* Time goes on, also for loops that retry; timers fire; and a request that is
\* sent again and again is answered at some point.  Nobody has to call start()
\* or stop(), and no header has to arrive.
Fairness ==
  /\ SF_vars(Tick)
  /\ \A l \in Loops : /\ WF_vars(RunLoop(l))
                      /\ SF_vars(SyncReply(l))

FairSpec == Spec /\ Fairness

-----------------------------------------------------------------------------
(* Properties *)

\* Trusted is any set of periods and committees that holds the snapshot and
\* is closed under valid updates signed by a trusted committee.  The least one
\* holds the committees that are linked to the snapshot by signatures.
ASSUME TrustAssumption ==
  /\ <<PeriodAtSlot(SnapshotSlot), SnapshotCommittee>> \in Trusted
  /\ \A u \in Updates :
       /\ ValidUpdate(u.signer, u)
       /\ <<PeriodAtSlot(u.slot), u.signer>> \in Trusted
       => <<PeriodAtSlot(u.slot) + 1, u.next>> \in Trusted

CommitteeStats ==
  [isFinalized : BOOLEAN, participation : Nat, slot : Nat,
   committee : Committee]

LoopState ==
  [pc : {"idle", "request", "process", "retry", "head", "sleep"},
   purpose : {"none", "sync", "lookahead"},
   next : Nat, chunkEnd : Nat, to : Nat, since : Nat]

\* The types of the fields of Lightclient and of the run loops' locals.
TypeOK ==
  /\ currentSlot \in Slot
  /\ syncCommitteeByPeriod \in Seq([key : Nat, value : CommitteeStats])
  /\ maxParticipationByPeriod \in Seq([key : Nat, value : Nat])
  /\ head \in HeaderType
  /\ status \in {"stopped", "syncing", "started"}
  /\ loop \in [Loops -> LoopState]

\* The cache holds the committees of at most two periods, each following the
\* one before it, although processSyncCommitteeUpdate never refuses a period
\* below the cached ones and prunes by insertion order, not by period.
ConsecutivePeriods ==
  \/ Len(syncCommitteeByPeriod) = 1
  \/ /\ Len(syncCommitteeByPeriod) = MAX_STORED_SYNC_COMMITTEES
     /\ syncCommitteeByPeriod[2].key = syncCommitteeByPeriod[1].key + 1

\* "Must not rollback periods": an older committee never evicts the ones the
\* client has moved on to, whatever the server sends.
NoRollback ==
  [][\A period \in MapKeys(syncCommitteeByPeriod') :
       period >= syncCommitteeByPeriod[1].key]_vars

\* Every cached committee is linked to the snapshot by valid updates, each
\* signed by the committee of the period before, whatever interleaving of
\* loops, servers and evictions put it into syncCommitteeByPeriod.
AnchoredTrust ==
  \A i \in DOMAIN syncCommitteeByPeriod :
    <<syncCommitteeByPeriod[i].key, syncCommitteeByPeriod[i].value.committee>>
      \in Trusted

\* The head was signed by a committee that is linked to the snapshot, also
\* after that committee has left the cache.
HeadTrusted == <<PeriodAtSlot(head.slot), head.signer>> \in Trusted

\* Inside a period a head is only replaced by one with at least half of its
\* participation.
HeadKeepsHalf ==
  [][PeriodAtSlot(head'.slot) = PeriodAtSlot(head.slot)
       => head'.participation >= head.participation \div SAFETY_THRESHOLD_FACTOR
    ]_vars

\* No loop sleeps on the signal of a controller that is not the current one:
\* stop() and a change to syncing release every sleeping loop.
SleepersTracked ==
  status # "started" => \A l \in Loops : loop[l].pc # "sleep"

\* A client that syncs while the committee of its head's period, where each
\* sync begins, is cached gets the committee of the clock's period, which it
\* tracks the head with, or is stopped.  Without that committee it retries
\* for ever: see the run lightclient_retry.
CatchesUp ==
  status = "syncing" /\ HasCommittee(PeriodAtSlot(head.slot))
    ~> (status = "started" \/ status = "stopped")

\* Being started, the client keeps getting the committee of the clock's
\* period, or is stopped.
StaysSynced ==
  status = "started"
    ~> \/ status = "stopped"
       \/ HasCommittee(PeriodAtSlot(currentSlot))

=============================================================================
