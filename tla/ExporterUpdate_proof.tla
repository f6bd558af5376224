------------------------ MODULE ExporterUpdate_proof ------------------------
(***************************************************************************)
(* Proofs of the safety properties of ExporterUpdate, for any sets of      *)
(* block goroutines and handlers and any number of blocks.                 *)
(***************************************************************************)
EXTENDS ExporterUpdate, TLAPS

-----------------------------------------------------------------------------
(* The inductive invariant *)

(* updateMu excludes: its holder is the one updater that reads or sets.    *)
MutexHeld ==
    /\ \A u \in Updaters : u \in locked <=> updater[u] \in {"read", "set"}
    /\ \A u1, u2 \in locked : u1 = u2

(* What an updater has read is no older than what the gauges show.         *)
SnapshotFresh ==
    /\ exported <= version
    /\ \A u \in Updaters : snapshot[u] <= version
    /\ \A u \in Updaters : updater[u] = "set" => snapshot[u] >= exported

(* One request at most is between the swap and ClearPending, ...           *)
OneRequest ==
    /\ token => pending /\ updater[Worker] # "clear"
    /\ updater[Worker] = "clear" => pending
    /\ \A c \in Callers : caller[c] = "send" =>
          pending /\ ~ token /\ updater[Worker] # "clear"
    /\ \A c, d \in Callers : caller[c] = "send" /\ caller[d] = "send" => c = d

(* ... and while the flag is set there is one, or the worker has stopped.  *)
FlagCovered ==
    pending => \/ closing
               \/ token
               \/ updater[Worker] = "clear"
               \/ \E c \in Callers : caller[c] = "send"

IInv == TypeOK /\ MutexHeld /\ SnapshotFresh /\ OneRequest /\ FlagCovered /\ UpdateOwed

LEMMA InitInv == Init => IInv
<1> SUFFICES ASSUME Init PROVE IInv
  OBVIOUS
<1> USE ExporterAssumption DEF Init
<1>1. Worker \in Updaters /\ updater[Worker] = "idle"
  BY DEF Updaters
<1>2. TypeOK
  <2>1. 0 \in 0..MaxVersion
    OBVIOUS
  <2>2. /\ caller \in [Callers -> {"idle", "swap", "send"}]
        /\ updater \in [Updaters -> {"idle", "clear", "lock", "read", "set", "stopped"}]
    OBVIOUS
  <2>3. QED BY <2>1, <2>2 DEF TypeOK
<1>3. MutexHeld /\ SnapshotFresh
  BY DEF MutexHeld, SnapshotFresh
<1>4. OneRequest /\ FlagCovered /\ UpdateOwed
  BY <1>1 DEF OneRequest, FlagCovered, UpdateOwed
<1>5. QED BY <1>2, <1>3, <1>4 DEF IInv

LEMMA InvStep ==
    ASSUME IInv, [Next]_vars
    PROVE  IInv'
<1> USE ExporterAssumption DEF IInv, Updaters
<1>1. Worker \in Updaters /\ Worker \notin Scrapers
  OBVIOUS
<1>2. ASSUME NEW c \in Callers, WriteState(c) PROVE IInv'
  <2>1. version \in Nat /\ version' = version + 1 /\ version' \in 0..MaxVersion
    BY <1>2 DEF WriteState, TypeOK
  <2>2. TypeOK'
    BY <1>2, <2>1 DEF WriteState, TypeOK
  <2>3. MutexHeld'
    BY <1>2 DEF WriteState, MutexHeld
  <2>4. SnapshotFresh'
    BY <1>2, <2>1 DEF WriteState, SnapshotFresh, TypeOK
  <2>5. OneRequest' /\ FlagCovered'
    BY <1>2 DEF WriteState, OneRequest, FlagCovered, TypeOK
  <2>6. UpdateOwed'
    BY <1>2 DEF WriteState, UpdateOwed, TypeOK
  <2>7. QED BY <2>2, <2>3, <2>4, <2>5, <2>6
<1>3. ASSUME NEW c \in Callers, SwapPending(c) PROVE IInv'
  <2>1. TypeOK' /\ MutexHeld' /\ SnapshotFresh'
    BY <1>3 DEF SwapPending, TypeOK, MutexHeld, SnapshotFresh
  <2>2. OneRequest' /\ FlagCovered'
    <3>1. CASE pending
      BY <1>3, <3>1 DEF SwapPending, OneRequest, FlagCovered, TypeOK
    <3>2. CASE ~ pending
      BY <1>3, <3>2 DEF SwapPending, OneRequest, FlagCovered, TypeOK
    <3>3. QED BY <3>1, <3>2
  <2>3. UpdateOwed'
    <3>1. CASE pending
      <4>1. \/ closing
            \/ token
            \/ updater[Worker] = "clear"
            \/ \E d \in Callers : caller[d] = "send"
        BY <3>1 DEF FlagCovered
      <4>2. \A d \in Callers : caller[d] = "send" => caller'[d] = "send"
        BY <1>3 DEF SwapPending, TypeOK
      <4>3. UNCHANGED <<closing, token, updater>>
        BY <1>3 DEF SwapPending
      <4>4. QED BY <4>1, <4>2, <4>3 DEF UpdateOwed
    <3>2. CASE ~ pending
      <4>1. caller'[c] = "send"
        BY <1>3, <3>2 DEF SwapPending, TypeOK
      <4>2. QED BY <4>1 DEF UpdateOwed
    <3>3. QED BY <3>1, <3>2
  <2>4. QED BY <2>1, <2>2, <2>3
<1>4. ASSUME NEW c \in Callers, SendToken(c) PROVE IInv'
  <2>1. ~ ChannelFull(c)
    BY <1>4 DEF SendToken, OneRequest, ChannelFull
  <2>2. QED
    BY <1>4, <2>1 DEF SendToken, TypeOK, MutexHeld, SnapshotFresh, OneRequest, FlagCovered,
                      UpdateOwed
<1>5. ASSUME NEW c \in Callers, GiveUpSend(c) PROVE IInv'
  BY <1>5 DEF GiveUpSend, TypeOK, MutexHeld, SnapshotFresh, OneRequest, FlagCovered,
              UpdateOwed
<1>6. CASE Cancel
  BY <1>6 DEF Cancel, TypeOK, MutexHeld, SnapshotFresh, OneRequest, FlagCovered,
              UpdateOwed
<1>7. CASE StopWorker
  <2>1. TypeOK' /\ MutexHeld' /\ SnapshotFresh'
    BY <1>1, <1>7 DEF StopWorker, TypeOK, MutexHeld, SnapshotFresh
  <2>2. OneRequest' /\ FlagCovered' /\ UpdateOwed'
    BY <1>1, <1>7 DEF StopWorker, TypeOK, OneRequest, FlagCovered, UpdateOwed
  <2>3. QED BY <2>1, <2>2
<1>8. CASE ReceiveToken
  <2>1. TypeOK' /\ MutexHeld' /\ SnapshotFresh'
    BY <1>1, <1>8 DEF ReceiveToken, TypeOK, MutexHeld, SnapshotFresh
  <2>2. OneRequest' /\ FlagCovered' /\ UpdateOwed'
    BY <1>1, <1>8 DEF ReceiveToken, TypeOK, OneRequest, FlagCovered, UpdateOwed
  <2>3. QED BY <2>1, <2>2
<1>9. CASE ClearPending
  <2>1. TypeOK' /\ MutexHeld' /\ SnapshotFresh'
    BY <1>1, <1>9 DEF ClearPending, TypeOK, MutexHeld, SnapshotFresh
  <2>2. OneRequest' /\ FlagCovered' /\ UpdateOwed'
    BY <1>1, <1>9 DEF ClearPending, TypeOK, OneRequest, FlagCovered, UpdateOwed
  <2>3. QED BY <2>1, <2>2
<1>10. ASSUME NEW u \in Scrapers, ScrapeRequest(u) PROVE IInv'
  <2>1. TypeOK' /\ MutexHeld' /\ SnapshotFresh'
    BY <1>10 DEF ScrapeRequest, TypeOK, MutexHeld, SnapshotFresh
  <2>2. OneRequest' /\ FlagCovered' /\ UpdateOwed'
    BY <1>1, <1>10 DEF ScrapeRequest, TypeOK, OneRequest, FlagCovered, UpdateOwed
  <2>3. QED BY <2>1, <2>2
<1>11. ASSUME NEW u \in Updaters, LockUpdate(u) PROVE IInv'
  <2>1. /\ updater'[u] = "read"
        /\ locked' = {u}
        /\ \A x \in Updaters \ {u} : updater'[x] = updater[x] /\ x \notin locked
    BY <1>11 DEF LockUpdate, MayLock, TypeOK
  <2>2. TypeOK'
    BY <1>11, <2>1 DEF LockUpdate, TypeOK
  <2>3. MutexHeld'
    BY <2>1 DEF MutexHeld
  <2>4. SnapshotFresh'
    BY <1>11, <2>1 DEF LockUpdate, SnapshotFresh
  <2>5. UNCHANGED <<version, exported, pending, token, closing, caller, snapshot>>
    BY <1>11 DEF LockUpdate
  <2>6. updater[Worker] = "clear" <=> updater'[Worker] = "clear"
    BY <1>1, <1>11, <2>1 DEF LockUpdate
  <2>7. OneRequest' /\ FlagCovered'
    BY <2>5, <2>6 DEF OneRequest, FlagCovered
  <2>8. UpdateOwed'
    BY <1>1, <1>11, <2>1, <2>5 DEF LockUpdate, UpdateOwed
  <2>9. QED BY <2>2, <2>3, <2>4, <2>7, <2>8
<1>12. ASSUME NEW u \in Updaters, ReadState(u) PROVE IInv'
  <2>1. /\ updater[u] = "read"
        /\ updater'[u] = "set"
        /\ snapshot'[u] = version
        /\ \A x \in Updaters \ {u} : updater'[x] = updater[x] /\ snapshot'[x] = snapshot[x]
    BY <1>12 DEF ReadState, TypeOK
  <2>2. UNCHANGED <<version, exported, pending, token, closing, cancelled, caller, locked>>
    BY <1>12 DEF ReadState
  <2>3. TypeOK'
    BY <1>12 DEF ReadState, TypeOK
  <2>4. MutexHeld'
    BY <2>1, <2>2 DEF MutexHeld
  <2>5. SnapshotFresh'
    BY <2>1, <2>2 DEF SnapshotFresh, TypeOK
  <2>6. OneRequest' /\ FlagCovered'
    BY <1>1, <2>1, <2>2 DEF OneRequest, FlagCovered
  <2>7. UpdateOwed'
    BY <1>1, <2>1, <2>2 DEF UpdateOwed
  <2>8. QED BY <2>3, <2>4, <2>5, <2>6, <2>7
<1>13. ASSUME NEW u \in Updaters, SetGauges(u) PROVE IInv'
  <2>1. /\ updater[u] = "set"
        /\ updater'[u] = "idle"
        /\ exported' = snapshot[u]
        /\ locked' = locked \ {u}
        /\ \A x \in Updaters \ {u} : updater'[x] = updater[x]
    BY <1>13 DEF SetGauges, TypeOK
  <2>2. UNCHANGED <<version, pending, token, closing, cancelled, caller, snapshot>>
    BY <1>13 DEF SetGauges
  <2>3. TypeOK'
    BY <1>13 DEF SetGauges, TypeOK
  <2>4. u \in locked /\ \A x \in Updaters \ {u} : ~ (updater[x] \in {"read", "set"})
    BY <2>1 DEF MutexHeld
  <2>5. MutexHeld'
    BY <2>1, <2>4 DEF MutexHeld
  <2>6. SnapshotFresh'
    BY <2>1, <2>2, <2>4 DEF SnapshotFresh
  <2>7. OneRequest' /\ FlagCovered'
    BY <1>1, <2>1, <2>2 DEF OneRequest, FlagCovered
  <2>8. UpdateOwed'
    <3>1. CASE version > exported /\ snapshot[u] # version
      BY <1>1, <2>1, <2>2, <2>4, <3>1 DEF UpdateOwed
    <3>2. CASE snapshot[u] = version
      BY <2>1, <2>2, <3>2 DEF UpdateOwed, TypeOK
    <3>3. CASE ~ (version > exported)
      BY <2>1, <2>2, <3>3 DEF UpdateOwed, SnapshotFresh, TypeOK
    <3>4. QED BY <3>1, <3>2, <3>3
  <2>9. QED BY <2>3, <2>5, <2>6, <2>7, <2>8
<1>14. CASE UNCHANGED vars
  BY <1>14 DEF vars, TypeOK, MutexHeld, SnapshotFresh, OneRequest, FlagCovered, UpdateOwed,
               ChannelFull
<1>15. QED
  BY <1>1, <1>2, <1>3, <1>4, <1>5, <1>6, <1>7, <1>8, <1>9, <1>10, <1>11, <1>12, <1>13,
     <1>14 DEF Next, CallerStep, WorkerStep, UpdateStep

THEOREM Invariance == Spec => []IInv
  BY InitInv, InvStep, PTL DEF Spec

-----------------------------------------------------------------------------
(* The properties of the specification *)

(* Every variable has its type. *)
THEOREM TypeCorrect == Spec => []TypeOK
<1>1. IInv => TypeOK
  BY DEF IInv
<1>2. QED BY <1>1, Invariance, PTL

(* The default case of Update's select is dead code. *)
THEOREM ChannelNeverFull == Spec => []NeverFull
<1>1. IInv => NeverFull
  BY DEF IInv, OneRequest, NeverFull, ChannelFull
<1>2. QED BY <1>1, Invariance, PTL

(* A request for an update is never lost by coalescing. *)
THEOREM RequestNeverLost == Spec => []UpdateOwed
<1>1. IInv => UpdateOwed
  BY DEF IInv
<1>2. QED BY <1>1, Invariance, PTL

(* Scrapes and the worker never set the gauges back. *)
THEOREM GaugesMonotonic == Spec => GaugesNeverGoBack
<1>1. IInv /\ [Next]_vars => [exported' >= exported]_vars
  <2>1. SUFFICES ASSUME IInv, [Next]_vars PROVE exported' >= exported
    OBVIOUS
  <2>2. exported \in Nat
    BY <2>1, ExporterAssumption DEF IInv, TypeOK
  <2>3. CASE exported' = exported
    BY <2>2, <2>3
  <2>4. ASSUME NEW u \in Updaters, SetGauges(u) PROVE exported' >= exported
    BY <2>1, <2>4 DEF IInv, SnapshotFresh, SetGauges
  <2>5. QED
    BY <2>1, <2>3, <2>4 DEF Next, vars, WriteState, CallerStep, SwapPending, SendToken,
       GiveUpSend, Cancel, StopWorker, WorkerStep, ReceiveToken, ClearPending, UpdateStep,
       LockUpdate, ReadState, ScrapeRequest, Updaters
<1>2. QED
  BY <1>1, Invariance, PTL DEF Spec, GaugesNeverGoBack
=============================================================================
