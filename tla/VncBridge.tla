----------------------------- MODULE VncBridge -----------------------------
(***************************************************************************)
(* The websocket bridge to an RFB target (backend/handlers_vnc.go): the    *)
(* connection handler with its two copy loops, the cap on bridges, the     *)
(* panel of connected clients, and the operator's disconnect with the      *)
(* window in which the same viewer is refused.  A connection is made once; *)
(* a viewer that comes back is another connection.  The websocket library, *)
(* the viewer and the target are the environment.                          *)
(***************************************************************************)
EXTENDS Naturals, FiniteSets

CONSTANTS
  Conns,        \* connections
  Keys,         \* vncKickKey: target, client address and user agent
  Operators,    \* requests to disconnect a client
  MaxSlots,     \* capacity of vncBridgeSlots
  Window,       \* vncKickWindow
  MaxTime       \* bound on the clock

ASSUME BridgeConstants ==
  /\ IsFiniteSet(Conns)
  /\ MaxSlots \in Nat /\ Window \in Nat /\ MaxTime \in Nat

VARIABLES
  pc,        \* where the handler of each connection is
  key,       \* the client of each connection, which its request brings along
  slots,     \* tokens in vncBridgeSlots
  ws,        \* the websocket: "none", "open" or "closed"
  upstream,  \* the handler's end of the TCP connection to the target
  peer,      \* the target's end of it
  up,        \* the goroutine that copies from the client to the target
  panel,     \* vncConnsByTarget
  kickUntil, \* vncKickUntil; a key that is not in the map reads as time 0
  operator,  \* handleDeleteVncClient, between its lock sections
  now,
  refused    \* history: the time before which each client is not to be back

conn == <<pc, key, ws, upstream, peer, up>>
kicks == <<kickUntil, operator, now, refused>>
vars == <<conn, slots, panel, kicks>>

Idle == [stage |-> "idle"]
PCs == {"new", "slot", "dial", "accept", "register", "copy", "join",
        "deregister", "close", "release", "gone"}

----------------------------------------------------------------------------
(* handleVncSocket, up to the bridge.                                      *)

\* Mutant of pruneVncKicks: every entry is dropped, expired or not.
pruneAll(m) == [k \in Keys |-> 0]

\* The map without the windows that are over.
pruneVncKicks(m) == [k \in Keys |-> IF now > m[k] THEN 0 ELSE m[k]]

vncClientKicked(k) == now < pruneVncKicks(kickUntil)[k]

\* The target is unknown, of another backend or not allowed, or its store unreadable.
Refuse(c) ==
  /\ pc[c] = "new"
  /\ pc' = [pc EXCEPT ![c] = "gone"]
  /\ UNCHANGED <<key, ws, upstream, peer, up, slots, panel, kicks>>

\* The target is fine: is the client still to be kept out?
Connect(c) ==
  /\ pc[c] = "new"
  /\ pc' = [pc EXCEPT ![c] = IF vncClientKicked(key[c]) THEN "gone" ELSE "slot"]
  /\ kickUntil' = pruneVncKicks(kickUntil)
  /\ UNCHANGED <<key, ws, upstream, peer, up, slots, panel, operator, now, refused>>

\* The channel is not waited for.
TakeSlot(c) ==
  /\ pc[c] = "slot"
  /\ IF slots < MaxSlots
     THEN slots' = slots + 1 /\ pc' = [pc EXCEPT ![c] = "dial"]
     ELSE UNCHANGED slots /\ pc' = [pc EXCEPT ![c] = "gone"]
  /\ UNCHANGED <<key, ws, upstream, peer, up, panel, kicks>>

Dial(c) ==
  /\ pc[c] = "dial"
  /\ pc' = [pc EXCEPT ![c] = "accept"]
  /\ upstream' = [upstream EXCEPT ![c] = "open"]
  /\ peer' = [peer EXCEPT ![c] = "open"]
  /\ UNCHANGED <<key, ws, up, slots, panel, kicks>>

DialFails(c) ==
  /\ pc[c] = "dial"
  /\ pc' = [pc EXCEPT ![c] = "release"]
  /\ UNCHANGED <<key, ws, upstream, peer, up, slots, panel, kicks>>

Accept(c) ==
  /\ pc[c] = "accept"
  /\ pc' = [pc EXCEPT ![c] = "register"]
  /\ ws' = [ws EXCEPT ![c] = "open"]
  /\ UNCHANGED <<key, upstream, peer, up, slots, panel, kicks>>

AcceptFails(c) ==
  /\ pc[c] = "accept"
  /\ pc' = [pc EXCEPT ![c] = "close"]
  /\ UNCHANGED <<key, ws, upstream, peer, up, slots, panel, kicks>>

\* registerVncConn, and both copies start.
Register(c) ==
  /\ pc[c] = "register"
  /\ pc' = [pc EXCEPT ![c] = "copy"]
  /\ panel' = panel \cup {c}
  /\ up' = [up EXCEPT ![c] = "read"]
  /\ UNCHANGED <<key, ws, upstream, peer, slots, kicks>>

----------------------------------------------------------------------------
(* The goroutine: io.Copy(upstream, sock), then CloseWrite and close(done). *)

\* The client has sent something; it is written to the target.
UpRead(c) ==
  /\ up[c] = "read" /\ ws[c] = "open"
  /\ up' = [up EXCEPT ![c] = "write"]
  /\ UNCHANGED <<pc, key, ws, upstream, peer, slots, panel, kicks>>

\* A read from the closed websocket, or a write to the closed peer, ends the copy.
UpEnds(c) ==
  /\ \/ up[c] = "read" /\ ws[c] = "closed"
     \/ up[c] = "write" /\ peer[c] = "closed"
  /\ up' = [up EXCEPT ![c] = "done"]
  /\ upstream' = [upstream EXCEPT ![c] = "half"]
  /\ UNCHANGED <<pc, key, ws, peer, slots, panel, kicks>>

----------------------------------------------------------------------------
(* The handler itself: io.Copy(sock, upstream), cancel, <-done, and the    *)
(* deferred calls in their order.                                          *)

\* Mutant of DownEnds: without cancel, the websocket stays open.
DownEndsQuietly(c) ==
  /\ pc[c] = "copy"
  /\ peer[c] = "closed"
  /\ pc' = [pc EXCEPT ![c] = "join"]
  /\ UNCHANGED <<key, ws, upstream, peer, up, slots, panel, kicks>>

\* The target has closed, and cancel closes the websocket.
DownEnds(c) ==
  /\ pc[c] = "copy"
  /\ peer[c] = "closed"
  /\ pc' = [pc EXCEPT ![c] = "join"]
  /\ ws' = [ws EXCEPT ![c] = "closed"]
  /\ UNCHANGED <<key, upstream, peer, up, slots, panel, kicks>>

\* The target has sent something, and there is no websocket to write it to.
DownWriteFails(c) ==
  /\ pc[c] = "copy"
  /\ peer[c] = "open" /\ ws[c] = "closed"
  /\ pc' = [pc EXCEPT ![c] = "join"]
  /\ UNCHANGED <<key, ws, upstream, peer, up, slots, panel, kicks>>

Join(c) ==
  /\ pc[c] = "join" /\ up[c] = "done"
  /\ pc' = [pc EXCEPT ![c] = "deregister"]
  /\ UNCHANGED <<key, ws, upstream, peer, up, slots, panel, kicks>>

Deregister(c) ==
  /\ pc[c] = "deregister"
  /\ pc' = [pc EXCEPT ![c] = "close"]
  /\ panel' = panel \ {c}
  /\ UNCHANGED <<key, ws, upstream, peer, up, slots, kicks>>

\* Mutant of CloseBoth: the connection to the target is left to the collector.
CloseWebsocketOnly(c) ==
  /\ pc[c] = "close"
  /\ pc' = [pc EXCEPT ![c] = "release"]
  /\ ws' = [ws EXCEPT ![c] = "closed"]
  /\ UNCHANGED <<key, upstream, peer, up, slots, panel, kicks>>

\* CloseNow, cancel and upstream.Close.
CloseBoth(c) ==
  /\ pc[c] = "close"
  /\ pc' = [pc EXCEPT ![c] = "release"]
  /\ ws' = [ws EXCEPT ![c] = "closed"]
  /\ upstream' = [upstream EXCEPT ![c] = "closed"]
  /\ UNCHANGED <<key, peer, up, slots, panel, kicks>>

Release(c) ==
  /\ pc[c] = "release"
  /\ pc' = [pc EXCEPT ![c] = "gone"]
  /\ slots' = slots - 1
  /\ UNCHANGED <<key, ws, upstream, peer, up, panel, kicks>>

----------------------------------------------------------------------------
(* handleDeleteVncClient.                                                  *)

\* Mutant of LookUp: the kick is forgotten.
LookUpThenClose(o, c) ==
  /\ operator[o] = Idle /\ c \in panel
  /\ operator' = [operator EXCEPT ![o] = [stage |-> "close", conn |-> c, at |-> now]]
  /\ UNCHANGED <<conn, slots, panel, kickUntil, now, refused>>

\* An id that is not on the panel is answered with 404, and nothing happens.
LookUp(o, c) ==
  /\ operator[o] = Idle /\ c \in panel
  /\ operator' = [operator EXCEPT ![o] = [stage |-> "kick", conn |-> c, at |-> now]]
  /\ UNCHANGED <<conn, slots, panel, kickUntil, now, refused>>

kickVncClient(o) ==
  /\ operator[o].stage = "kick"
  /\ kickUntil' = [pruneVncKicks(kickUntil) EXCEPT ![key[operator[o].conn]] = now + Window]
  /\ operator' = [operator EXCEPT ![o].stage = "close"]
  /\ UNCHANGED <<conn, slots, panel, now, refused>>

\* The viewer learns of it now, and may try again at once.
CloseKicked(o) ==
  LET c == operator[o].conn
  IN  /\ operator[o].stage = "close"
      /\ ws' = [ws EXCEPT ![c] = "closed"]
      /\ refused' = [refused EXCEPT ![key[c]] =
                       IF @ < operator[o].at + Window THEN operator[o].at + Window ELSE @]
      /\ operator' = [operator EXCEPT ![o] = Idle]
      /\ UNCHANGED <<pc, key, upstream, peer, up, slots, panel, kickUntil, now>>

----------------------------------------------------------------------------
(* The environment.                                                        *)

ClientCloses(c) ==
  /\ ws[c] = "open"
  /\ ws' = [ws EXCEPT ![c] = "closed"]
  /\ UNCHANGED <<pc, key, upstream, peer, up, slots, panel, kicks>>

TargetCloses(c) ==
  /\ peer[c] = "open"
  /\ peer' = [peer EXCEPT ![c] = "closed"]
  /\ UNCHANGED <<pc, key, ws, upstream, up, slots, panel, kicks>>

TargetReads(c) ==
  /\ up[c] = "write" /\ peer[c] = "open"
  /\ up' = [up EXCEPT ![c] = "read"]
  /\ UNCHANGED <<pc, key, ws, upstream, peer, slots, panel, kicks>>

Tick ==
  /\ now < MaxTime
  /\ now' = now + 1
  /\ UNCHANGED <<conn, slots, panel, kickUntil, operator, refused>>

----------------------------------------------------------------------------

Init ==
  /\ pc = [c \in Conns |-> "new"]
  /\ key \in [Conns -> Keys]
  /\ slots = 0
  /\ ws = [c \in Conns |-> "none"]
  /\ upstream = [c \in Conns |-> "none"]
  /\ peer = [c \in Conns |-> "none"]
  /\ up = [c \in Conns |-> "none"]
  /\ panel = {}
  /\ kickUntil = [k \in Keys |-> 0]
  /\ operator = [o \in Operators |-> Idle]
  /\ now = 0
  /\ refused = [k \in Keys |-> 0]

\* What the process does for a connection by itself, once there is something to do.
Handler(c) ==
  \/ TakeSlot(c) \/ Dial(c) \/ DialFails(c) \/ Accept(c) \/ AcceptFails(c) \/ Register(c)
  \/ DownEnds(c) \/ Join(c) \/ Deregister(c) \/ CloseBoth(c) \/ Release(c)

Next ==
  \/ \E c \in Conns : Handler(c)
  \/ \E c \in Conns : Refuse(c) \/ Connect(c) \/ UpRead(c) \/ UpEnds(c) \/ DownWriteFails(c)
  \/ \E o \in Operators, c \in Conns : LookUp(o, c)
  \/ \E o \in Operators : kickVncClient(o) \/ CloseKicked(o)
  \/ \E c \in Conns : ClientCloses(c) \/ TargetCloses(c) \/ TargetReads(c)
  \/ Tick

Spec == Init /\ [][Next]_vars

\* The goroutines run.
CodeFairness == \A c \in Conns : WF_vars(Handler(c)) /\ WF_vars(UpEnds(c))

\* The target reads what it is sent, and hangs up on a half-closed connection.
TargetFairness ==
  \A c \in Conns : /\ WF_vars(TargetReads(c))
                   /\ WF_vars(upstream[c] = "half" /\ TargetCloses(c))

FairSpec == Spec /\ CodeFairness /\ TargetFairness

----------------------------------------------------------------------------
(* Properties.                                                             *)

\* Every variable holds a value of its kind.
TypeOK ==
  /\ pc \in [Conns -> PCs]
  /\ key \in [Conns -> Keys]
  /\ slots \in Nat
  /\ ws \in [Conns -> {"none", "open", "closed"}]
  /\ upstream \in [Conns -> {"none", "open", "half", "closed"}]
  /\ peer \in [Conns -> {"none", "open", "closed"}]
  /\ up \in [Conns -> {"none", "read", "write", "done"}]
  /\ panel \subseteq Conns
  /\ kickUntil \in [Keys -> Nat]
  /\ operator \in [Operators -> {Idle} \cup
                     [stage : {"kick", "close"}, conn : Conns, at : Nat]]
  /\ now \in Nat
  /\ refused \in [Keys -> Nat]

Holders == {c \in Conns : pc[c] \notin {"new", "slot", "gone"}}

\* What a connection costs the process: a goroutine, descriptors, a panel entry.
Busy(c) ==
  \/ up[c] \in {"read", "write"}
  \/ ws[c] = "open" \/ upstream[c] \in {"open", "half"}
  \/ c \in panel

\* The cap on bridges bounds what they hold: every goroutine, open descriptor and
\* panel entry belongs to a connection that has a slot, on the error paths and while
\* a bridge is being taken down as well, and there are never more slots out than
\* vncBridgeSlots has (handleVncSocket: the slot is taken first and given back last).
CapBoundsResources ==
  /\ {c \in Conns : Busy(c)} \subseteq Holders
  /\ Cardinality(Holders) = slots
  /\ slots <= MaxSlots

\* A viewer that an operator has disconnected is not let in again to the same target
\* before vncKickWindow has passed since the operator's request, whatever other
\* kicks and connections come in between (handleDeleteVncClient, vncClientKicked).
NoQuickReturn ==
  [][\A c \in Conns : pc[c] = "new" /\ pc'[c] = "slot" => now >= refused[key[c]]]_vars

\* When the client has gone, has been disconnected or the target has closed, the
\* bridge ends: off the panel, its slot given back (both copies and <-done).
BridgeEnds ==
  \A c \in Conns :
    pc[c] = "copy" /\ (ws[c] = "closed" \/ peer[c] = "closed") ~> pc[c] = "gone"

----------------------------------------------------------------------------
(* The inductive invariant.                                                *)

\* How far each connection has come says what it holds.
Stages ==
  \A c \in Conns :
    /\ pc[c] \in {"new", "slot", "dial", "release", "gone"}
         => ws[c] # "open" /\ upstream[c] \in {"none", "closed"}
    /\ up[c] \in {"read", "write"} => pc[c] \in {"copy", "join"}
    /\ c \in panel => pc[c] \in {"copy", "join", "deregister"}

\* A window that is to be observed is in force.
Windows ==
  /\ \A k \in Keys : now < refused[k] => refused[k] <= kickUntil[k]
  /\ \A o \in Operators :
       operator[o].stage = "close" /\ now < operator[o].at + Window
         => operator[o].at + Window <= kickUntil[key[operator[o].conn]]
  /\ \A o \in Operators : operator[o] # Idle => operator[o].at <= now
  /\ \A k \in Keys : kickUntil[k] <= now + Window

BridgeInv == TypeOK /\ Stages /\ Windows /\ CapBoundsResources
=============================================================================
