-------------------------- MODULE VncBridgeProofs --------------------------
(***************************************************************************)
(* For every number of connections, clients and operators: the cap on      *)
(* bridges bounds what they hold, and a client that was disconnected stays *)
(* out for the whole window.                                               *)
(***************************************************************************)
EXTENDS VncBridge, FiniteSetTheorems, TLAPS

\* What a connection holds follows from its stage: only slot holders hold anything.
LEMMA BusyHold ==
  ASSUME TypeOK, Stages
  PROVE  {c \in Conns : Busy(c)} \subseteq Holders
  BY DEF TypeOK, Stages, Busy, Holders, PCs

\* The holders are finitely many, so that they can be counted.
LEMMA HoldersFinite == IsFiniteSet(Holders)
  BY BridgeConstants, FS_Subset DEF Holders

\* The operator's record, once it is at work.
LEMMA OperatorFields ==
  ASSUME TypeOK, NEW o \in Operators, operator[o] # Idle
  PROVE  /\ operator[o] \in [stage : {"kick", "close"}, conn : Conns, at : Nat]
         /\ operator[o].stage \in {"kick", "close"}
         /\ operator[o].conn \in Conns /\ operator[o].at \in Nat
         /\ key[operator[o].conn] \in Keys
  BY DEF TypeOK

LEMMA BridgeInit == Init => BridgeInv
<1> SUFFICES ASSUME Init PROVE BridgeInv
  OBVIOUS
<1>1. TypeOK
  BY DEF Init, TypeOK, PCs
<1>2. Stages
  BY DEF Init, Stages
<1>3. Windows
  BY BridgeConstants DEF Init, Windows, Idle
<1>4. Holders = {}
  BY DEF Init, Holders
<1> QED
  BY <1>1, <1>2, <1>3, <1>4, BusyHold, FS_EmptySet, BridgeConstants
     DEF BridgeInv, CapBoundsResources, Init

----------------------------------------------------------------------------
(* One lemma per part of the program.                                      *)

\* A step of a connection that leaves the slots alone.
ConnStep(c) ==
  \/ Refuse(c) \/ Dial(c) \/ DialFails(c) \/ Accept(c) \/ AcceptFails(c) \/ Register(c)
  \/ DownEnds(c) \/ Join(c) \/ Deregister(c) \/ CloseBoth(c)
  \/ UpRead(c) \/ UpEnds(c) \/ DownWriteFails(c)
  \/ ClientCloses(c) \/ TargetCloses(c) \/ TargetReads(c)

\* The windows do not depend on how far a connection has come.
LEMMA WindowsFrame ==
  ASSUME Windows, UNCHANGED <<key, kicks>>
  PROVE  Windows'
  BY DEF Windows, kicks

LEMMA ConnKeeps ==
  ASSUME BridgeInv, NEW c \in Conns, ConnStep(c)
  PROVE  BridgeInv'
<1> USE DEF BridgeInv
<1>1. UNCHANGED <<key, slots, kicks>>
  BY DEF ConnStep, Refuse, Dial, DialFails, Accept, AcceptFails, Register, DownEnds, Join,
         Deregister, CloseBoth, UpRead, UpEnds, DownWriteFails, ClientCloses, TargetCloses,
         TargetReads
<1>2. TypeOK'
  <2>1. pc' \in [Conns -> PCs] /\ ws' \in [Conns -> {"none", "open", "closed"}]
    BY DEF TypeOK, PCs, ConnStep, Refuse, Dial, DialFails, Accept, AcceptFails, Register,
           DownEnds, Join, Deregister, CloseBoth, UpRead, UpEnds, DownWriteFails,
           ClientCloses, TargetCloses, TargetReads
  <2>2. /\ upstream' \in [Conns -> {"none", "open", "half", "closed"}]
        /\ peer' \in [Conns -> {"none", "open", "closed"}]
    BY DEF TypeOK, ConnStep, Refuse, Dial, DialFails, Accept, AcceptFails, Register,
           DownEnds, Join, Deregister, CloseBoth, UpRead, UpEnds, DownWriteFails,
           ClientCloses, TargetCloses, TargetReads
  <2>3. up' \in [Conns -> {"none", "read", "write", "done"}] /\ panel' \subseteq Conns
    BY DEF TypeOK, ConnStep, Refuse, Dial, DialFails, Accept, AcceptFails, Register,
           DownEnds, Join, Deregister, CloseBoth, UpRead, UpEnds, DownWriteFails,
           ClientCloses, TargetCloses, TargetReads
  <2> QED
    BY <1>1, <2>1, <2>2, <2>3 DEF TypeOK, kicks
<1>3. Stages'
  <2>1. CASE Refuse(c) \/ Dial(c) \/ DialFails(c) \/ Accept(c) \/ AcceptFails(c)
    BY <2>1 DEF TypeOK, Stages, Refuse, Dial, DialFails, Accept, AcceptFails
  <2>2. CASE Register(c) \/ UpRead(c) \/ UpEnds(c) \/ TargetReads(c)
    BY <2>2 DEF TypeOK, Stages, Register, UpRead, UpEnds, TargetReads
  <2>3. CASE DownEnds(c) \/ DownWriteFails(c) \/ ClientCloses(c) \/ TargetCloses(c)
    BY <2>3 DEF TypeOK, Stages, DownEnds, DownWriteFails, ClientCloses, TargetCloses
  <2>4. CASE Join(c) \/ Deregister(c) \/ CloseBoth(c)
    BY <2>4 DEF TypeOK, Stages, Join, Deregister, CloseBoth
  <2> QED
    BY <2>1, <2>2, <2>3, <2>4 DEF ConnStep
<1>4. Windows'
  BY <1>1, WindowsFrame
<1>5. Holders' = Holders
  BY DEF TypeOK, Holders, ConnStep, Refuse, Dial, DialFails, Accept, AcceptFails, Register,
         DownEnds, Join, Deregister, CloseBoth, UpRead, UpEnds, DownWriteFails,
         ClientCloses, TargetCloses, TargetReads
<1>6. {d \in Conns : Busy(d)}' \subseteq Holders'
  BY <1>2, <1>3 DEF TypeOK, Stages, Busy, Holders, PCs
<1> QED
  BY <1>1, <1>2, <1>3, <1>4, <1>5, <1>6 DEF CapBoundsResources

\* A slot is taken by a connection that had none.
LEMMA TakeSlotKeeps ==
  ASSUME BridgeInv, NEW c \in Conns, TakeSlot(c)
  PROVE  BridgeInv'
<1> USE DEF BridgeInv
<1>1. TypeOK'
  BY DEF TypeOK, PCs, TakeSlot, kicks
<1>2. Stages'
  BY DEF TypeOK, Stages, TakeSlot
<1>3. Windows'
  BY WindowsFrame DEF TakeSlot
<1>4. {d \in Conns : Busy(d)}' \subseteq Holders'
  BY <1>1, <1>2 DEF TypeOK, Stages, Busy, Holders, PCs
<1>5. Cardinality(Holders') = slots' /\ slots' <= MaxSlots
  <2>1. CASE slots < MaxSlots
    <3>1. Holders' = Holders \cup {c} /\ c \notin Holders
      BY <2>1 DEF TypeOK, Holders, TakeSlot
    <3>2. Cardinality(Holders') = Cardinality(Holders) + 1
      BY <3>1, HoldersFinite, FS_AddElement
    <3> QED
      BY <2>1, <3>2, BridgeConstants DEF CapBoundsResources, TakeSlot, TypeOK
  <2>2. CASE ~(slots < MaxSlots)
    <3>1. Holders' = Holders
      BY <2>2 DEF TypeOK, Holders, TakeSlot
    <3> QED
      BY <2>2, <3>1 DEF CapBoundsResources, TakeSlot
  <2> QED
    BY <2>1, <2>2
<1> QED
  BY <1>1, <1>2, <1>3, <1>4, <1>5 DEF CapBoundsResources

\* The slot that is given back was the connection's own.
LEMMA ReleaseKeeps ==
  ASSUME BridgeInv, NEW c \in Conns, Release(c)
  PROVE  BridgeInv'
<1> USE DEF BridgeInv
<1>1. Holders' = Holders \ {c} /\ c \in Holders
  BY DEF TypeOK, Holders, Release
<1>2. Cardinality(Holders') = slots' /\ slots' \in Nat /\ slots' <= MaxSlots
  <2>1. Cardinality(Holders') = Cardinality(Holders) - 1
    BY <1>1, HoldersFinite, FS_RemoveElement
  <2>2. Cardinality(Holders') \in Nat
    BY <1>1, HoldersFinite, FS_RemoveElement, FS_CardinalityType
  <2> QED
    BY <2>1, <2>2, BridgeConstants DEF CapBoundsResources, Release, TypeOK
<1>3. TypeOK'
  BY <1>2 DEF TypeOK, PCs, Release, kicks
<1>4. Stages'
  BY DEF TypeOK, Stages, Release
<1>5. Windows'
  BY WindowsFrame DEF Release
<1>6. {d \in Conns : Busy(d)}' \subseteq Holders'
  BY <1>3, <1>4 DEF TypeOK, Stages, Busy, Holders, PCs
<1> QED
  BY <1>2, <1>3, <1>4, <1>5, <1>6 DEF CapBoundsResources

\* A step that at most closes a websocket leaves the stages and the count alone.
LEMMA StagesFrame ==
  ASSUME TypeOK, Stages, CapBoundsResources,
         UNCHANGED <<pc, upstream, up, slots, panel>>,
         \A c \in Conns : ws'[c] = "open" => ws[c] = "open"
  PROVE  Stages' /\ CapBoundsResources'
<1>1. Stages'
  BY DEF Stages
<1>2. Holders' = Holders
  BY DEF Holders
<1>3. {d \in Conns : Busy(d)}' \subseteq {d \in Conns : Busy(d)}
  BY DEF Busy
<1> QED
  BY <1>1, <1>2, <1>3 DEF CapBoundsResources

\* Dropping the windows that are over keeps those that are to be observed.
LEMMA PruneKeeps ==
  ASSUME TypeOK, NEW k \in Keys
  PROVE  /\ pruneVncKicks(kickUntil)[k] \in Nat
         /\ pruneVncKicks(kickUntil)[k] <= kickUntil[k]
         /\ \A n \in Nat : now < n /\ n <= kickUntil[k] => n <= pruneVncKicks(kickUntil)[k]
  BY DEF TypeOK, pruneVncKicks

LEMMA ConnectKeeps ==
  ASSUME BridgeInv, NEW c \in Conns, Connect(c)
  PROVE  BridgeInv'
<1> USE DEF BridgeInv
<1>1. /\ kickUntil' = pruneVncKicks(kickUntil) /\ kickUntil' \in [Keys -> Nat]
      /\ UNCHANGED <<key, ws, upstream, peer, up, slots, panel, operator, now, refused>>
  BY DEF Connect, TypeOK, pruneVncKicks
<1>2. TypeOK'
  BY <1>1 DEF TypeOK, PCs, Connect
<1>3. Stages'
  BY DEF TypeOK, Stages, Connect
<1>4. Windows'
  <2>1. \A k \in Keys : now < refused[k] => refused[k] <= kickUntil'[k]
    BY <1>1, PruneKeeps DEF Windows, TypeOK
  <2>2. ASSUME NEW o \in Operators, operator[o].stage = "close",
               now < operator[o].at + Window
        PROVE  operator[o].at + Window <= kickUntil'[key[operator[o].conn]]
    <3>1. operator[o] # Idle
      BY <2>2 DEF Idle
    <3>2. operator[o].at + Window \in Nat /\ key[operator[o].conn] \in Keys
      BY <3>1, OperatorFields, BridgeConstants
    <3> QED
      BY <1>1, <2>2, <3>2, PruneKeeps DEF Windows
  <2>3. \A k \in Keys : kickUntil'[k] <= now + Window
    BY <1>1, PruneKeeps, BridgeConstants DEF Windows, TypeOK
  <2> QED
    BY <1>1, <2>1, <2>2, <2>3 DEF Windows
<1>5. Holders' = Holders
  BY DEF TypeOK, Holders, Connect
<1>6. {d \in Conns : Busy(d)}' \subseteq Holders'
  BY <1>2, <1>3 DEF TypeOK, Stages, Busy, Holders, PCs
<1> QED
  BY <1>1, <1>2, <1>3, <1>4, <1>5, <1>6 DEF CapBoundsResources

LEMMA LookUpKeeps ==
  ASSUME BridgeInv, NEW o \in Operators, NEW c \in Conns, LookUp(o, c)
  PROVE  BridgeInv'
<1> USE DEF BridgeInv
<1>1. TypeOK'
  BY DEF TypeOK, LookUp, conn
<1>2. Stages' /\ CapBoundsResources'
  BY StagesFrame DEF LookUp, conn
<1>3. Windows'
  BY DEF LookUp, conn, Windows, TypeOK, Idle
<1> QED
  BY <1>1, <1>2, <1>3

\* The new window ends no earlier than any other one.
LEMMA KickKeeps ==
  ASSUME BridgeInv, NEW o \in Operators, kickVncClient(o)
  PROVE  BridgeInv'
<1> USE DEF BridgeInv
<1> DEFINE me == key[operator[o].conn]
<1>1. operator[o] # Idle /\ me \in Keys
  BY OperatorFields DEF kickVncClient, Idle
<1>2. kickUntil' = [k \in Keys |-> IF k = me THEN now + Window
                                   ELSE pruneVncKicks(kickUntil)[k]]
  BY <1>1 DEF kickVncClient, pruneVncKicks
<1>3. operator' = [operator EXCEPT ![o] = [stage |-> "close", conn |-> operator[o].conn,
                                           at |-> operator[o].at]]
  <2>1. operator[o] \in [stage : {"kick", "close"}, conn : Conns, at : Nat]
    BY <1>1, OperatorFields
  <2>2. [operator[o] EXCEPT !.stage = "close"]
          = [stage |-> "close", conn |-> operator[o].conn, at |-> operator[o].at]
    BY <2>1
  <2> QED
    BY <2>2 DEF kickVncClient
<1>4. UNCHANGED <<pc, key, ws, upstream, peer, up, slots, panel, now, refused>>
  BY DEF kickVncClient, conn
<1>5. kickUntil' \in [Keys -> Nat]
  BY <1>2, PruneKeeps, BridgeConstants DEF TypeOK
<1>6. TypeOK'
  BY <1>1, <1>3, <1>4, <1>5, OperatorFields DEF TypeOK
<1>7. Stages' /\ CapBoundsResources'
  BY <1>4, StagesFrame
<1>8. Windows'
  <2>1. \A k \in Keys : kickUntil'[k] <= now + Window
    BY <1>2, PruneKeeps, BridgeConstants DEF Windows, TypeOK
  <2>2. \A k \in Keys, n \in Nat :
          now < n /\ n <= now + Window /\ n <= kickUntil[k] => n <= kickUntil'[k]
    BY <1>2, PruneKeeps
  <2>3. \A k \in Keys : now < refused[k] => refused[k] <= kickUntil'[k]
    <3> SUFFICES ASSUME NEW k \in Keys, now < refused[k] PROVE refused[k] <= kickUntil'[k]
      OBVIOUS
    <3>1. refused[k] <= kickUntil[k] /\ kickUntil[k] <= now + Window
      BY DEF Windows
    <3>2. refused[k] \in Nat /\ kickUntil[k] \in Nat /\ now \in Nat /\ Window \in Nat
      BY BridgeConstants DEF TypeOK
    <3> QED
      BY <2>2, <3>1, <3>2
  <2>4. ASSUME NEW p \in Operators, operator'[p].stage = "close",
               now < operator'[p].at + Window
        PROVE  operator'[p].at + Window <= kickUntil'[key[operator'[p].conn]]
    <3>1. CASE p = o
      <4>1. operator'[o].at = operator[o].at /\ operator'[o].conn = operator[o].conn
        BY <1>3 DEF TypeOK
      <4>2. operator[o].at <= now /\ operator[o].at \in Nat
        BY <1>1, OperatorFields DEF Windows
      <4>3. kickUntil'[me] = now + Window
        BY <1>1, <1>2
      <4> QED
        BY <3>1, <4>1, <4>2, <4>3, BridgeConstants DEF TypeOK
    <3>2. CASE p # o
      <4>1. operator'[p] = operator[p]
        BY <3>2, <1>3 DEF TypeOK
      <4>2. operator[p] # Idle
        BY <4>1, <2>4 DEF Idle
      <4>3. operator[p].at + Window \in Nat /\ key[operator[p].conn] \in Keys
        BY <4>2, OperatorFields, BridgeConstants
      <4>4. /\ operator[p].at + Window <= kickUntil[key[operator[p].conn]]
            /\ operator[p].at + Window <= now + Window
        <5>1. operator[p].at <= now /\ operator[p].at \in Nat
          BY <4>2, OperatorFields DEF Windows
        <5> QED
          BY <4>1, <2>4, <5>1, BridgeConstants DEF Windows, TypeOK
      <4> QED
        BY <4>1, <4>3, <4>4, <2>2, <2>4
    <3> QED
      BY <3>1, <3>2
  <2>5. \A p \in Operators : operator'[p] # Idle => operator'[p].at <= now
    BY <1>1, <1>3 DEF Windows, TypeOK
  <2> QED
    BY <1>4, <2>1, <2>3, <2>4, <2>5 DEF Windows
<1> QED
  BY <1>6, <1>7, <1>8

LEMMA CloseKeeps ==
  ASSUME BridgeInv, NEW o \in Operators, CloseKicked(o)
  PROVE  BridgeInv'
<1> USE DEF BridgeInv
<1> DEFINE me == key[operator[o].conn]
           end == operator[o].at + Window
<1>1. operator[o] # Idle /\ me \in Keys /\ end \in Nat /\ operator[o].conn \in Conns
  BY OperatorFields, BridgeConstants DEF CloseKicked, Idle
<1>2. /\ refused' = [refused EXCEPT ![me] = IF refused[me] < end THEN end ELSE refused[me]]
      /\ operator' = [operator EXCEPT ![o] = Idle]
      /\ ws' = [ws EXCEPT ![operator[o].conn] = "closed"]
      /\ UNCHANGED <<pc, key, upstream, peer, up, slots, panel, kickUntil, now>>
  BY DEF CloseKicked
<1>3. TypeOK'
  BY <1>1, <1>2 DEF TypeOK
<1>4. Stages' /\ CapBoundsResources'
  BY <1>1, <1>2, StagesFrame DEF TypeOK
<1>5. Windows'
  <2>1. now < end => end <= kickUntil[me]
    BY DEF Windows, CloseKicked
  <2>2. \A k \in Keys : now < refused'[k] => refused'[k] <= kickUntil[k]
    BY <1>1, <1>2, <2>1 DEF Windows, TypeOK
  <2>3. \A p \in Operators : operator'[p] = Idle \/ operator'[p] = operator[p]
    BY <1>2 DEF TypeOK
  <2> QED
    BY <1>2, <2>2, <2>3 DEF Windows, Idle
<1> QED
  BY <1>3, <1>4, <1>5

LEMMA TickKeeps ==
  ASSUME BridgeInv, Tick
  PROVE  BridgeInv'
<1> USE DEF BridgeInv
<1>1. now' = now + 1 /\ UNCHANGED <<pc, key, ws, upstream, peer, up, slots, panel, kickUntil,
                                    operator, refused>>
  BY DEF Tick, conn
<1>2. TypeOK'
  BY <1>1 DEF TypeOK
<1>3. Stages' /\ CapBoundsResources'
  BY <1>1, StagesFrame
<1>4. Windows'
  <2>1. \A k \in Keys : now' < refused[k] => refused[k] <= kickUntil[k]
    BY <1>1 DEF Windows, TypeOK
  <2>2. ASSUME NEW o \in Operators, operator[o].stage = "close",
               now' < operator[o].at + Window
        PROVE  operator[o].at + Window <= kickUntil[key[operator[o].conn]]
    <3>1. operator[o].at \in Nat
      BY <2>2, OperatorFields DEF Idle
    <3>2. now < operator[o].at + Window
      BY <1>1, <2>2, <3>1, BridgeConstants DEF TypeOK
    <3> QED
      BY <2>2, <3>2 DEF Windows
  <2>3. \A o \in Operators : operator[o] # Idle => operator[o].at <= now'
    BY <1>1, OperatorFields DEF Windows, TypeOK
  <2>4. \A k \in Keys : kickUntil[k] <= now' + Window
    BY <1>1, BridgeConstants DEF Windows, TypeOK
  <2> QED
    BY <1>1, <2>1, <2>2, <2>3, <2>4 DEF Windows
<1> QED
  BY <1>2, <1>3, <1>4

----------------------------------------------------------------------------

LEMMA BridgeStep == BridgeInv /\ [Next]_vars => BridgeInv'
<1> SUFFICES ASSUME BridgeInv, [Next]_vars PROVE BridgeInv'
  OBVIOUS
<1>1. ASSUME NEW c \in Conns, ConnStep(c) \/ TakeSlot(c) \/ Release(c) \/ Connect(c)
      PROVE  BridgeInv'
  BY <1>1, ConnKeeps, TakeSlotKeeps, ReleaseKeeps, ConnectKeeps
<1>2. ASSUME NEW o \in Operators,
             (\E c \in Conns : LookUp(o, c)) \/ kickVncClient(o) \/ CloseKicked(o)
      PROVE  BridgeInv'
  BY <1>2, LookUpKeeps, KickKeeps, CloseKeeps
<1>3. CASE Tick
  BY <1>3, TickKeeps
<1>4. CASE UNCHANGED vars
  <2>1. UNCHANGED <<pc, key, ws, upstream, peer, up, slots, panel, kickUntil, operator, now,
                    refused>>
    BY <1>4 DEF vars, conn, kicks
  <2>2. TypeOK' /\ Windows'
    BY <2>1 DEF BridgeInv, TypeOK, Windows
  <2> QED
    BY <2>1, <2>2, StagesFrame DEF BridgeInv
<1> QED
  BY <1>1, <1>2, <1>3, <1>4 DEF Next, Handler, ConnStep

\* The bridge's inductive invariant: what a connection holds follows from how far
\* handleVncSocket has come, vncBridgeSlots counts the connections that hold a slot,
\* and a window an operator opened is in the map until it is over.
THEOREM BridgeInvariant == Spec => []BridgeInv
  BY BridgeInit, BridgeStep, PTL DEF Spec

\* The cap on bridges bounds goroutines, descriptors and panel entries, for any
\* number of connections and any cap (handleVncSocket).
THEOREM CapHolds == Spec => []CapBoundsResources
<1>1. BridgeInv => CapBoundsResources
  BY DEF BridgeInv
<1> QED
  BY <1>1, BridgeInvariant, PTL

\* A viewer that was disconnected is let in again only when the window is over, for
\* any number of clients, operators and connections (vncClientKicked).
THEOREM WindowHolds == Spec => NoQuickReturn
<1> DEFINE Return == \A c \in Conns : pc[c] = "new" /\ pc'[c] = "slot" => now >= refused[key[c]]
<1>1. BridgeInv /\ [Next]_vars => [Return]_vars
  <2> SUFFICES ASSUME BridgeInv, Next, NEW c \in Conns, pc[c] = "new", pc'[c] = "slot"
               PROVE  now >= refused[key[c]]
    OBVIOUS
  <2> USE DEF BridgeInv
  <2>1. Connect(c)
    BY DEF TypeOK, Next, Handler, TakeSlot, Dial, DialFails, Accept, AcceptFails, Register,
           DownEnds, Join, Deregister, CloseBoth, Release, Refuse, Connect, UpRead, UpEnds,
           DownWriteFails, LookUp, kickVncClient, CloseKicked, ClientCloses, TargetCloses,
           TargetReads, Tick, conn
  <2>2. ~vncClientKicked(key[c])
    BY <2>1 DEF Connect, TypeOK
  <2>3. key[c] \in Keys /\ refused[key[c]] \in Nat /\ kickUntil[key[c]] \in Nat /\ now \in Nat
    BY DEF TypeOK
  <2>4. ~(now < kickUntil[key[c]])
    BY <2>2, <2>3 DEF vncClientKicked, pruneVncKicks
  <2> QED
    BY <2>3, <2>4 DEF Windows
<1>2. Spec => [][Return]_vars
  BY <1>1, BridgeInvariant, PTL DEF Spec
<1> QED
  BY <1>2 DEF NoQuickReturn
=============================================================================
