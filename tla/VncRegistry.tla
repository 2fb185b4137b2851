---------------------------- MODULE VncRegistry ----------------------------
(***************************************************************************)
(* The VNC tab's registry (backend/internal/vnc): targets.json, and the    *)
(* App Route that every target of the novnc backend owns.  Create, Update  *)
(* and Delete hold the package's mutex from load to save, so one runs at a *)
(* time; the App Routes tab does not take it, and changes routes under     *)
(* them.  CaddyFragments has the inside of an approutes call; here a call  *)
(* is its existence check and its effect.                                  *)
(***************************************************************************)
EXTENDS Naturals

CONSTANTS
  Names,   \* target names, which are App Route names as well
  Addrs,   \* target addresses
  NoTarget, NoRoute, NoOp

Backends == {"rfb", "novnc"}
Target == [backend : Backends, addr : Addrs]
Route == [addr : Addrs, by : {"vnc", "tab"}]
Kinds == {"create", "update", "delete"}
Op == [kind : Kinds, old : Names, name : Names, t : Target,
       call : Kinds, phase : {"stat", "apply", "save"}]

ASSUME RegistrySets ==
  /\ NoTarget \notin Target
  /\ NoRoute \notin Route
  /\ NoOp \notin Op

VARIABLES
  targets, \* targets.json
  routes,  \* App Routes fragments, each with who wrote it last
  op,      \* the holder of mu
  dirty    \* history: names where a step could not finish, or the tab cut in

vars == <<targets, routes, op, dirty>>

usesAppRoute(t) == t # NoTarget /\ t.backend = "novnc"

\* The App Route that carries t.
app(t) == [addr |-> t.addr, by |-> "vnc"]

Begin(o) == op = NoOp /\ op' = o /\ UNCHANGED <<targets, routes, dirty>>
Goto(phase) == op' = [op EXCEPT !.phase = phase]
Return == op' = NoOp

----------------------------------------------------------------------------
(* The mutators, up to their first call of approutes.  A request that the  *)
(* checks refuse changes nothing.                                          *)

Request(kind, old, name, t, call, phase) ==
  [kind |-> kind, old |-> old, name |-> name, t |-> t, call |-> call, phase |-> phase]

Create(n, t) ==
  /\ targets[n] = NoTarget
  /\ Begin(Request("create", n, n, t, "create",
                   IF usesAppRoute(t) THEN "stat" ELSE "save"))

\* Which call brings the App Route along is decided by the stored and the new backend.
Update(old, n, t) ==
  LET had == usesAppRoute(targets[old])
      wants == usesAppRoute(t)
  IN  /\ targets[old] # NoTarget
      /\ n # old => targets[n] = NoTarget
      /\ Begin(Request("update", old, n, t,
                       IF had /\ wants THEN "update" ELSE IF had THEN "delete" ELSE "create",
                       IF had \/ wants THEN "stat" ELSE "save"))

\* Mutant of Delete: the App Route is removed whatever the stored backend.
DeleteAnyRoute(n) ==
  /\ targets[n] # NoTarget
  /\ Begin(Request("delete", n, n, targets[n], "delete", "stat"))

Delete(n) ==
  /\ targets[n] # NoTarget
  /\ Begin(Request("delete", n, n, targets[n], "delete",
                   IF usesAppRoute(targets[n]) THEN "stat" ELSE "save"))

----------------------------------------------------------------------------
(* The approutes call: its existence checks ...                            *)

Stat(call) == op # NoOp /\ op.phase = "stat" /\ op.call = call

StatCreate ==
  /\ Stat("create")
  /\ IF routes[op.name] = NoRoute THEN Goto("apply") ELSE Return
  /\ UNCHANGED <<targets, routes, dirty>>

\* Mutant of StatUpdate: a missing route is no error and no reason to make one.
StatUpdateTolerant ==
  /\ Stat("update")
  /\ IF routes[op.old] = NoRoute THEN Goto("save")
     ELSE IF op.name # op.old /\ routes[op.name] # NoRoute THEN Return
     ELSE Goto("apply")
  /\ UNCHANGED <<targets, routes, dirty>>

\* A route that has gone missing is created anew.
StatUpdate ==
  /\ Stat("update")
  /\ IF routes[op.old] = NoRoute THEN op' = [op EXCEPT !.call = "create"]
     ELSE IF op.name # op.old /\ routes[op.name] # NoRoute THEN Return
     ELSE Goto("apply")
  /\ UNCHANGED <<targets, routes, dirty>>

\* For a delete, one that has gone missing is as good as deleted.
StatDelete ==
  /\ Stat("delete")
  /\ Goto(IF routes[op.old] = NoRoute THEN "save" ELSE "apply")
  /\ UNCHANGED <<targets, routes, dirty>>

(* ... and its effect.  A reload that fails after the write counts as      *)
(* success here.                                                           *)

Apply(call) == op # NoOp /\ op.phase = "apply" /\ op.call = call

ApplyCreate ==
  /\ Apply("create")
  /\ routes' = [routes EXCEPT ![op.name] = app(op.t)]
  /\ Goto("save")
  /\ UNCHANGED <<targets, dirty>>

\* A rename writes the new fragment and then removes the old one, which fails when
\* it is gone by now: an error, with the new fragment in place.
ApplyUpdate ==
  /\ Apply("update")
  /\ routes' = [n \in Names |-> IF n = op.name THEN app(op.t)
                                ELSE IF n = op.old THEN NoRoute ELSE routes[n]]
  /\ IF op.name # op.old /\ routes[op.old] = NoRoute
     THEN Return /\ dirty' = dirty \cup {op.name}
     ELSE Goto("save") /\ UNCHANGED dirty
  /\ UNCHANGED targets

\* caddy rejects the new fragment: the route is as it was, and so is the registry.
ApplyInvalid ==
  /\ Apply("create") \/ Apply("update")
  /\ Return
  /\ UNCHANGED <<targets, routes, dirty>>

\* The fragment is removed, if it is still there; when the rest of the tree does not
\* adapt, the call fails although it is.
ApplyDelete ==
  /\ Apply("delete")
  /\ routes' = [routes EXCEPT ![op.old] = NoRoute]
  /\ Return \/ (routes[op.old] # NoRoute /\ Goto("save"))
  /\ UNCHANGED <<targets, dirty>>

----------------------------------------------------------------------------
(* save: the list with the change, in one rename of targets.json.          *)

After ==
  [n \in Names |-> IF n = op.name /\ op.kind # "delete" THEN op.t
                   ELSE IF n = op.old THEN NoTarget ELSE targets[n]]

Save ==
  /\ op # NoOp /\ op.phase = "save"
  /\ targets' = After
  /\ Return
  /\ UNCHANGED <<routes, dirty>>

\* Mutant of SaveFails: a failed Create leaves its App Route behind.
SaveFailsOnly ==
  /\ op # NoOp /\ op.phase = "save"
  /\ dirty' = IF op.kind = "update" THEN dirty \cup {op.old, op.name} ELSE dirty
  /\ Return
  /\ UNCHANGED <<targets, routes>>

\* Create takes its App Route back; Update does not.
SaveFails ==
  /\ op # NoOp /\ op.phase = "save"
  /\ IF op.kind = "create" /\ usesAppRoute(op.t)
     THEN routes' = [routes EXCEPT ![op.name] = NoRoute]
     ELSE UNCHANGED routes
  /\ dirty' = IF op.kind = "update" THEN dirty \cup {op.old, op.name} ELSE dirty
  /\ Return
  /\ UNCHANGED targets

\* The process dies.
Crash ==
  /\ op # NoOp
  /\ dirty' = dirty \cup {op.old, op.name}
  /\ Return
  /\ UNCHANGED <<targets, routes>>

----------------------------------------------------------------------------
(* The App Routes tab.                                                     *)

\* What the tab does while a VNC request is at work may go unnoticed by it.
CutsIn(ns) ==
  /\ dirty' = IF op = NoOp THEN dirty ELSE dirty \cup ns
  /\ UNCHANGED <<targets, op>>

TabCreate(n, a) ==
  /\ routes[n] = NoRoute
  /\ routes' = [routes EXCEPT ![n] = [addr |-> a, by |-> "tab"]]
  /\ CutsIn({n})

\* An edit, under the same name or a new one.
TabUpdate(old, n, a) ==
  /\ routes[old] # NoRoute
  /\ n # old => routes[n] = NoRoute
  /\ routes' = [m \in Names |-> IF m = n THEN [addr |-> a, by |-> "tab"]
                                ELSE IF m = old THEN NoRoute ELSE routes[m]]
  /\ CutsIn({old, n})

TabDelete(n) ==
  /\ routes[n] # NoRoute
  /\ routes' = [routes EXCEPT ![n] = NoRoute]
  /\ CutsIn({n})

----------------------------------------------------------------------------

Init ==
  /\ targets = [n \in Names |-> NoTarget]
  /\ routes = [n \in Names |-> NoRoute]
  /\ op = NoOp
  /\ dirty = {}

Next ==
  \/ \E n \in Names, t \in Target : Create(n, t)
  \/ \E old, n \in Names, t \in Target : Update(old, n, t)
  \/ \E n \in Names : Delete(n)
  \/ StatCreate \/ StatUpdate \/ StatDelete
  \/ ApplyCreate \/ ApplyUpdate \/ ApplyInvalid \/ ApplyDelete
  \/ Save \/ SaveFails \/ Crash
  \/ \E n \in Names, a \in Addrs : TabCreate(n, a)
  \/ \E old, n \in Names, a \in Addrs : TabUpdate(old, n, a)
  \/ \E n \in Names : TabDelete(n)

Spec == Init /\ [][Next]_vars

----------------------------------------------------------------------------
(* Properties.                                                             *)

\* Every variable holds a value of its kind.
TypeOK ==
  /\ targets \in [Names -> Target \cup {NoTarget}]
  /\ routes \in [Names -> Route \cup {NoRoute}]
  /\ op \in Op \cup {NoOp}
  /\ dirty \subseteq Names

Own(n) == routes[n] # NoRoute /\ routes[n].by = "vnc"

\* A route under n that the registry wrote carries the novnc target that m has there.
Carried(n, m) == Own(n) => usesAppRoute(m[n]) /\ routes[n] = app(m[n])

\* Whenever no request holds mu, every App Route that the VNC tab wrote is the one
\* of a stored novnc target, and points where that target does: a failed create
\* leaves no stray app, and a target that has moved to the rfb backend or to
\* another name serves nothing under the old path.  What gets out of step is a
\* route under a request that died, whose save failed in Update, or that the App
\* Routes tab cut into (Create, Update, Delete).
RoutesInLockstep == op = NoOp => \A n \in Names \ dirty : Carried(n, targets)

\* The VNC tab overwrites or removes an app of the App Routes tab only under the
\* name of a novnc target, unless that app appeared in the middle of the request
\* (Create's order of route and registry; Delete's test of the stored backend).
StrangersKept ==
  [][op # NoOp /\ op' # op =>
       \A n \in Names \ dirty :
         routes[n] # NoRoute /\ routes[n].by = "tab" /\ routes'[n] # routes[n]
           => usesAppRoute(targets[n])]_vars

\* A novnc target is stored, by Create or by Update, only with the App Route that
\* serves it in place, also when that route had gone missing before (Update).
StoredIsServed ==
  [][op # NoOp /\ op' = NoOp /\ targets' = After /\ op.kind # "delete" /\ op.phase = "save"
       => (usesAppRoute(op.t) /\ op.name \notin dirty' => routes'[op.name] = app(op.t))]_vars

----------------------------------------------------------------------------
(* The inductive invariant behind the theorems of VncRegistryProofs.       *)

\* The call in progress is the one that the stored and the new target ask for.
CallFits ==
  op # NoOp =>
    /\ targets[op.old] # NoTarget <=> op.kind # "create"
    /\ op.name # op.old => op.kind = "update" /\ targets[op.name] = NoTarget
    /\ op.phase # "save" =>
         /\ op.call \in {"create", "update"} => usesAppRoute(op.t) /\ op.kind # "delete"
         /\ op.call \in {"update", "delete"} => usesAppRoute(targets[op.old])
         /\ op.call = "delete" /\ op.kind = "update" => ~usesAppRoute(op.t)

\* What the call has found, or made, of the routes it is about.
RouteFits ==
  op # NoOp =>
    /\ op.phase = "apply" /\ (op.call = "create" \/ (op.call = "update" /\ op.name # op.old))
         => routes[op.name] = NoRoute \/ op.name \in dirty
    /\ op.phase # "save" /\ op.call = "create" => ~Own(op.old) \/ op.old \in dirty
    /\ op.phase = "save" /\ op.kind # "delete" /\ usesAppRoute(op.t)
         => Own(op.name) \/ op.name \in dirty

\* Routes are in step with the registry, from the effect of the call on with the
\* registry that save is about to write.
InStep ==
  \A n \in Names \ dirty :
    Carried(n, IF op # NoOp /\ op.phase = "save" THEN After ELSE targets)

RegistryInv == TypeOK /\ CallFits /\ RouteFits /\ InStep
=============================================================================
