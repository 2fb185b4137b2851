------------------------- MODULE VncRegistryProofs -------------------------
(***************************************************************************)
(* For every set of names and addresses: the App Routes of the VNC tab     *)
(* stay in step with its registry, its requests keep off other apps, and   *)
(* what it stores is served.                                               *)
(***************************************************************************)
EXTENDS VncRegistry, TLAPS

\* The fields of the request that holds mu.
LEMMA OpFields ==
  ASSUME TypeOK, op # NoOp
  PROVE  /\ op \in Op
         /\ op.kind \in Kinds /\ op.call \in Kinds
         /\ op.old \in Names /\ op.name \in Names /\ op.t \in Target
         /\ op.phase \in {"stat", "apply", "save"}
  BY DEF TypeOK, Op

\* A target has an address, and its App Route is a route of the VNC tab.
LEMMA AppRoute ==
  ASSUME NEW t \in Target
  PROVE  app(t) \in Route /\ app(t) # NoRoute /\ app(t).by = "vnc" /\ t # NoTarget
  BY RegistrySets DEF app, Target, Route

LEMMA RegistryInit == Init => RegistryInv
  BY RegistrySets DEF Init, RegistryInv, TypeOK, CallFits, RouteFits, InStep, Carried, Own

\* A request takes mu.
LEMMA BeginKeeps ==
  ASSUME RegistryInv, NEW kind \in Kinds, NEW old \in Names, NEW name \in Names, NEW t \in Target,
         NEW call \in Kinds, NEW phase \in {"stat", "save"},
         Begin(Request(kind, old, name, t, call, phase)),
         targets[old] # NoTarget <=> kind # "create",
         name # old => kind = "update" /\ targets[name] = NoTarget,
         phase = "stat" =>
           /\ call \in {"create", "update"} => usesAppRoute(t) /\ kind # "delete"
           /\ call \in {"update", "delete"} => usesAppRoute(targets[old])
           /\ call = "delete" /\ kind = "update" => ~usesAppRoute(t)
           /\ call = "create" => ~usesAppRoute(targets[old]),
         phase = "save" => ~usesAppRoute(targets[old]) /\ ~usesAppRoute(t)
  PROVE  RegistryInv'
<1> DEFINE o == Request(kind, old, name, t, call, phase)
<1>1. /\ o \in Op /\ o.kind = kind /\ o.old = old /\ o.name = name /\ o.t = t
      /\ o.call = call /\ o.phase = phase
  BY DEF Request, Op
<1>2. PICK p : p = o
  OBVIOUS
<1>3. /\ p \in Op /\ p.kind = kind /\ p.old = old /\ p.name = name /\ p.t = t
      /\ p.call = call /\ p.phase = phase
  BY <1>1, <1>2
<1>4. op = NoOp /\ op' = p /\ op' # NoOp /\ UNCHANGED <<targets, routes, dirty>>
  BY <1>2, <1>3, RegistrySets DEF Begin
<1>5. \A n \in Names \ dirty : Own(n) => usesAppRoute(targets[n]) /\ routes[n] = app(targets[n])
  BY <1>4 DEF RegistryInv, InStep, Carried
<1>6. TypeOK'
  BY <1>3, <1>4 DEF RegistryInv, TypeOK
<1>7. CallFits'
  BY <1>3, <1>4 DEF CallFits, usesAppRoute
<1>8. RouteFits'
  BY <1>3, <1>4, <1>5 DEF RouteFits, Own, usesAppRoute
<1>9. InStep'
  <2> SUFFICES ASSUME NEW n \in Names, n \notin dirty, Own(n)
               PROVE  LET m == IF phase = "save" THEN After' ELSE targets
                      IN  usesAppRoute(m[n]) /\ routes[n] = app(m[n])
    BY <1>3, <1>4 DEF InStep, Carried, Own, usesAppRoute, app
  <2>1. usesAppRoute(targets[n]) /\ routes[n] = app(targets[n])
    BY <1>5
  <2>2. CASE phase = "save"
    <3>1. n # old /\ n # name
      BY <2>1, <2>2 DEF usesAppRoute
    <3>2. After'[n] = targets[n]
      BY <1>3, <1>4, <3>1 DEF After
    <3> QED BY <2>1, <2>2, <3>2
  <2>3. CASE phase # "save"
    BY <2>1, <2>3
  <2> QED BY <2>2, <2>3
<1> QED BY <1>6, <1>7, <1>8, <1>9 DEF RegistryInv

\* mu is given back with routes and registry in step.
LEMMA ReturnKeeps ==
  ASSUME TypeOK, Return, targets' \in [Names -> Target \cup {NoTarget}],
         routes' \in [Names -> Route \cup {NoRoute}], dirty' \subseteq Names,
         \A n \in Names \ dirty' : Carried(n, targets)'
  PROVE  RegistryInv'
  BY DEF Return, RegistryInv, TypeOK, CallFits, RouteFits, InStep

\* The App Routes tab changes routes.
LEMMA TabKeeps ==
  ASSUME RegistryInv, NEW ns \in SUBSET Names, CutsIn(ns),
         routes' \in [Names -> Route \cup {NoRoute}],
         \A n \in Names : routes'[n] # routes[n] => n \in ns /\ ~Own(n)'
  PROVE  RegistryInv'
<1>1. UNCHANGED <<targets, op>> /\ dirty \subseteq dirty' /\ dirty' \subseteq Names
  BY DEF CutsIn, RegistryInv, TypeOK
<1>2. \A n \in Names : routes'[n] = routes[n] \/ ~Own(n)'
  OBVIOUS
<1>3. op # NoOp => \A n \in Names \ dirty' : routes'[n] = routes[n]
  BY DEF CutsIn
<1>4. TypeOK' /\ CallFits'
  BY <1>1 DEF RegistryInv, TypeOK, CallFits, usesAppRoute
<1>5. RouteFits'
  <2> SUFFICES ASSUME op # NoOp PROVE RouteFits'
    BY <1>1 DEF RouteFits
  <2>1. op.old \in Names /\ op.name \in Names
    BY OpFields DEF RegistryInv
  <2> QED BY <1>1, <1>3, <2>1 DEF RegistryInv, RouteFits, Own, usesAppRoute
<1>6. InStep'
  <2> SUFFICES ASSUME NEW n \in Names, n \notin dirty', Own(n)'
               PROVE  Carried(n, IF op # NoOp /\ op.phase = "save" THEN After ELSE targets)'
    BY <1>1 DEF InStep, Carried
  <2>1. routes'[n] = routes[n] /\ n \notin dirty
    BY <1>1, <1>2
  <2>2. After' = After
    BY <1>1 DEF After
  <2> QED BY <1>1, <2>1, <2>2 DEF RegistryInv, InStep, Carried, Own, usesAppRoute, app
<1> QED BY <1>4, <1>5, <1>6 DEF RegistryInv

\* A step of the request that holds mu and goes on holding it.
LEMMA GoesOn ==
  ASSUME RegistryInv, op # NoOp, UNCHANGED <<targets, dirty>>,
         NEW call \in Kinds, NEW phase \in {"stat", "apply", "save"},
         op' = [op EXCEPT !.call = call, !.phase = phase],
         routes' \in [Names -> Route \cup {NoRoute}],
         phase # "save" =>
           /\ op.phase # "save"
           /\ call \in {"create", "update"} => usesAppRoute(op.t) /\ op.kind # "delete"
           /\ call \in {"update", "delete"} => usesAppRoute(targets[op.old])
           /\ call = "delete" /\ op.kind = "update" => ~usesAppRoute(op.t),
         RouteFits',
         \A n \in Names \ dirty : Carried(n, IF phase = "save" THEN After ELSE targets)'
  PROVE  RegistryInv'
<1>1. /\ op' \in Op /\ op' # NoOp /\ op'.phase = phase /\ op'.call = call
      /\ op'.kind = op.kind /\ op'.old = op.old /\ op'.name = op.name /\ op'.t = op.t
  BY OpFields, RegistrySets DEF RegistryInv, Op
<1>2. TypeOK'
  BY <1>1 DEF RegistryInv, TypeOK
<1>3. CallFits'
  BY <1>1 DEF RegistryInv, CallFits, usesAppRoute
<1>4. InStep'
  BY <1>1 DEF InStep
<1> QED BY <1>2, <1>3, <1>4 DEF RegistryInv

\* Goto keeps the call.
LEMMA GotoFields ==
  ASSUME TypeOK, op # NoOp, NEW phase \in {"stat", "apply", "save"}, Goto(phase)
  PROVE  /\ op' = [op EXCEPT !.call = op.call, !.phase = phase] /\ op' # NoOp
         /\ op'.phase = phase /\ op'.call = op.call /\ op'.kind = op.kind
         /\ op'.old = op.old /\ op'.name = op.name /\ op'.t = op.t
  BY OpFields, RegistrySets DEF Goto, Op

\* What After says of each name.
LEMMA AfterFields ==
  ASSUME TypeOK, op # NoOp
  PROVE  /\ \A n \in Names : n # op.old /\ n # op.name => After[n] = targets[n]
         /\ op.kind # "delete" => After[op.name] = op.t
         /\ op.kind # "delete" /\ op.old # op.name => After[op.old] = NoTarget
         /\ op.kind = "delete" /\ op.old = op.name => After[op.old] = NoTarget
         /\ After \in [Names -> Target \cup {NoTarget}]
  BY OpFields DEF After, TypeOK

LEMMA RequestsKeep ==
  ASSUME RegistryInv,
         \/ \E n \in Names, t \in Target : Create(n, t)
         \/ \E old, n \in Names, t \in Target : Update(old, n, t)
         \/ \E n \in Names : Delete(n)
  PROVE  RegistryInv'
<1>1. ASSUME NEW n \in Names, NEW t \in Target, Create(n, t) PROVE RegistryInv'
  <2>1. PICK phase \in {"stat", "save"} :
          /\ phase = IF usesAppRoute(t) THEN "stat" ELSE "save"
          /\ Begin(Request("create", n, n, t, "create", phase))
    BY <1>1 DEF Create
  <2>2. targets[n] = NoTarget /\ ~usesAppRoute(targets[n])
    BY <1>1 DEF Create, usesAppRoute
  <2> QED BY <2>1, <2>2, BeginKeeps DEF Kinds
<1>2. ASSUME NEW old \in Names, NEW n \in Names, NEW t \in Target, Update(old, n, t)
      PROVE  RegistryInv'
  <2>1. PICK call \in Kinds, phase \in {"stat", "save"} :
          /\ call = IF usesAppRoute(targets[old]) /\ usesAppRoute(t) THEN "update"
                     ELSE IF usesAppRoute(targets[old]) THEN "delete" ELSE "create"
          /\ phase = IF usesAppRoute(targets[old]) \/ usesAppRoute(t) THEN "stat" ELSE "save"
          /\ Begin(Request("update", old, n, t, call, phase))
    BY <1>2 DEF Update, Kinds
  <2>2. targets[old] # NoTarget /\ (n # old => targets[n] = NoTarget)
    BY <1>2 DEF Update
  <2>3. "update" \in Kinds
    BY DEF Kinds
  <2> QED BY <2>1, <2>2, <2>3, BeginKeeps
<1>3. ASSUME NEW n \in Names, Delete(n) PROVE RegistryInv'
  <2>1. PICK phase \in {"stat", "save"} :
          /\ phase = IF usesAppRoute(targets[n]) THEN "stat" ELSE "save"
          /\ Begin(Request("delete", n, n, targets[n], "delete", phase))
    BY <1>3 DEF Delete
  <2>2. targets[n] # NoTarget /\ targets[n] \in Target
    BY <1>3 DEF Delete, RegistryInv, TypeOK
  <2>3. "delete" \in Kinds
    BY DEF Kinds
  <2> QED BY <2>1, <2>2, <2>3, BeginKeeps
<1> QED BY <1>1, <1>2, <1>3

\* What InStep says before the effect of the call, and at the save.
LEMMA StepFacts ==
  ASSUME RegistryInv, op # NoOp
  PROVE  /\ op.phase # "save" => \A n \in Names \ dirty : Carried(n, targets)
         /\ op.phase = "save" => \A n \in Names \ dirty : Carried(n, After)
         /\ op.name # op.old /\ op.phase # "save" /\ op.name \notin dirty => ~Own(op.name)
<1>1. /\ op.phase # "save" => \A n \in Names \ dirty : Carried(n, targets)
      /\ op.phase = "save" => \A n \in Names \ dirty : Carried(n, After)
  BY DEF RegistryInv, InStep
<1>2. op.name # op.old => targets[op.name] = NoTarget
  BY DEF RegistryInv, CallFits
<1>3. op.name \in Names
  BY OpFields DEF RegistryInv
<1> QED BY <1>1, <1>2, <1>3 DEF Carried, usesAppRoute

LEMMA StatsKeep ==
  ASSUME RegistryInv, StatCreate \/ StatUpdate \/ StatDelete
  PROVE  RegistryInv'
<1>0. /\ op # NoOp /\ op.phase = "stat" /\ UNCHANGED <<targets, routes, dirty>>
  BY DEF StatCreate, StatUpdate, StatDelete, Stat
<1>t. /\ TypeOK /\ CallFits /\ RouteFits /\ routes' \in [Names -> Route \cup {NoRoute}]
      /\ targets' \in [Names -> Target \cup {NoTarget}] /\ dirty' \subseteq Names
  BY <1>0 DEF RegistryInv, TypeOK
<1>o. /\ op.old \in Names /\ op.name \in Names /\ op.kind \in Kinds /\ op.call \in Kinds
      /\ op.t \in Target
  BY <1>0, <1>t, OpFields
<1>c. \A n \in Names \ dirty : Carried(n, targets) /\ Carried(n, targets)'
  BY <1>0, StepFacts DEF Carried, Own, usesAppRoute, app
<1>f. /\ op.call \in {"create", "update"} => usesAppRoute(op.t) /\ op.kind # "delete"
      /\ op.call \in {"update", "delete"} => usesAppRoute(targets[op.old])
      /\ op.call = "delete" /\ op.kind = "update" => ~usesAppRoute(op.t)
      /\ op.call = "create" => ~Own(op.old) \/ op.old \in dirty
      /\ targets[op.old] # NoTarget <=> op.kind # "create"
      /\ op.name # op.old => op.kind = "update" /\ targets[op.name] = NoTarget
  BY <1>0, <1>t DEF CallFits, RouteFits
<1>r. CASE Return
  BY <1>r, <1>t, <1>0, <1>c, ReturnKeeps
<1>a. CASE /\ Goto("apply")
           /\ \/ op.call = "create" /\ routes[op.name] = NoRoute
              \/ op.call = "update" /\ (op.name # op.old => routes[op.name] = NoRoute)
              \/ op.call = "delete"
  <2>0. TypeOK /\ op # NoOp /\ Goto("apply")
    BY <1>0, <1>t, <1>a
  <2>1. /\ op' = [op EXCEPT !.call = op.call, !.phase = "apply"] /\ op' # NoOp
        /\ op'.phase = "apply" /\ op'.call = op.call /\ op'.kind = op.kind
        /\ op'.old = op.old /\ op'.name = op.name /\ op'.t = op.t
    BY <2>0, GotoFields
  <2>2. RouteFits'
    BY <1>0, <1>a, <1>f, <2>1 DEF RouteFits, Own
  <2> QED BY <1>0, <1>t, <1>o, <1>c, <1>f, <2>1, <2>2, GoesOn
<1>n. CASE /\ op.call = "update" /\ routes[op.old] = NoRoute
           /\ op' = [op EXCEPT !.call = "create"]
  <2>1. /\ op' = [op EXCEPT !.call = "create", !.phase = "stat"] /\ op' # NoOp
        /\ op'.phase = "stat" /\ op'.call = "create" /\ op'.kind = op.kind
        /\ op'.old = op.old /\ op'.name = op.name /\ op'.t = op.t
    BY <1>0, <1>t, <1>n, OpFields, RegistrySets DEF Op, Kinds
  <2>2. RouteFits'
    BY <1>0, <1>n, <2>1 DEF RouteFits, Own
  <2>3. "create" \in Kinds
    BY DEF Kinds
  <2> QED BY <1>0, <1>t, <1>n, <1>c, <1>f, <2>1, <2>2, <2>3, GoesOn
<1>s. CASE op.call = "delete" /\ routes[op.old] = NoRoute /\ Goto("save")
  <2>1. /\ op' = [op EXCEPT !.call = op.call, !.phase = "save"] /\ op' # NoOp
        /\ op'.phase = "save" /\ op'.call = op.call /\ op'.kind = op.kind
        /\ op'.old = op.old /\ op'.name = op.name /\ op'.t = op.t
    BY <1>0, <1>t, <1>s, GotoFields
  <2>2. op.kind # "delete" => ~usesAppRoute(op.t)
    BY <1>f, <1>o, <1>s DEF usesAppRoute, Kinds
  <2>3. RouteFits'
    BY <1>0, <2>1, <2>2 DEF RouteFits, usesAppRoute
  <2>4. After' = After
    BY <1>0, <2>1 DEF After
  <2>5. \A n \in Names \ dirty : Carried(n, After)'
    <3> SUFFICES ASSUME NEW n \in Names, n \notin dirty, Own(n)
                 PROVE  usesAppRoute(After[n]) /\ routes[n] = app(After[n])
      BY <1>0, <2>4 DEF Carried, Own, usesAppRoute, app
    <3>1. usesAppRoute(targets[n]) /\ routes[n] = app(targets[n])
      BY <1>c DEF Carried
    <3>2. n # op.old /\ n # op.name
      BY <1>f, <1>s, <3>1 DEF Own, usesAppRoute
    <3> QED BY <1>0, <1>t, <3>1, <3>2, AfterFields
  <2> QED BY <1>0, <1>t, <1>o, <2>1, <2>3, <2>5, GoesOn
<1> QED BY <1>r, <1>a, <1>n, <1>s DEF StatCreate, StatUpdate, StatDelete, Stat

LEMMA AppliesKeep ==
  ASSUME RegistryInv, ApplyCreate \/ ApplyUpdate \/ ApplyInvalid \/ ApplyDelete
  PROVE  RegistryInv'
<1> DEFINE Owned(n) == routes'[n] # NoRoute /\ routes'[n].by = "vnc"
<1>0. op # NoOp /\ op.phase = "apply" /\ UNCHANGED targets
  BY DEF ApplyCreate, ApplyUpdate, ApplyInvalid, ApplyDelete, Apply
<1>t. /\ TypeOK /\ CallFits /\ RouteFits
      /\ targets \in [Names -> Target \cup {NoTarget}] /\ dirty \subseteq Names
      /\ routes \in [Names -> Route \cup {NoRoute}]
  BY DEF RegistryInv, TypeOK
<1>o. /\ op.old \in Names /\ op.name \in Names /\ op.kind \in Kinds /\ op.call \in Kinds
      /\ op.t \in Target
  BY <1>0, <1>t, OpFields
<1>p. app(op.t) \in Route /\ app(op.t) # NoRoute /\ app(op.t).by = "vnc"
  BY <1>o, AppRoute
<1>c. \A n \in Names \ dirty : Own(n) => usesAppRoute(targets[n]) /\ routes[n] = app(targets[n])
  BY <1>0, StepFacts DEF Carried
<1>f. /\ op.call \in {"create", "update"} => usesAppRoute(op.t) /\ op.kind # "delete"
      /\ op.call \in {"update", "delete"} => usesAppRoute(targets[op.old])
      /\ op.call = "delete" /\ op.kind = "update" => ~usesAppRoute(op.t)
      /\ op.call = "create" => ~Own(op.old) \/ op.old \in dirty
      /\ targets[op.old] # NoTarget <=> op.kind # "create"
      /\ op.name # op.old => op.kind = "update" /\ targets[op.name] = NoTarget
  BY <1>0, <1>t DEF CallFits, RouteFits
\* The request goes on to save, with the new target's route in place, if it has one,
\* and no route of the VNC tab under a name it gives up.
<1>s. ASSUME Goto("save"), UNCHANGED dirty, routes' \in [Names -> Route \cup {NoRoute}],
             \A n \in Names : n # op.name /\ n # op.old => routes'[n] = routes[n],
             op.kind # "delete" /\ usesAppRoute(op.t) => routes'[op.name] = app(op.t),
             op.kind = "delete" \/ ~usesAppRoute(op.t) => ~Owned(op.name) \/ op.name \in dirty,
             op.name # op.old => ~Owned(op.old) \/ op.old \in dirty
      PROVE  RegistryInv'
  <2>0. TypeOK /\ op # NoOp /\ Goto("save")
    BY <1>0, <1>t, <1>s
  <2>1. /\ op' = [op EXCEPT !.call = op.call, !.phase = "save"] /\ op' # NoOp
        /\ op'.phase = "save" /\ op'.call = op.call /\ op'.kind = op.kind
        /\ op'.old = op.old /\ op'.name = op.name /\ op'.t = op.t
    BY <2>0, GotoFields
  <2>2. RouteFits'
    BY <1>p, <1>s, <2>1 DEF RouteFits, Own, usesAppRoute
  <2>3. After' = After
    BY <1>0, <2>1 DEF After
  <2>4. \A n \in Names \ dirty : Carried(n, After)'
    <3> SUFFICES ASSUME NEW n \in Names, n \notin dirty, Own(n)'
                 PROVE  usesAppRoute(After[n]) /\ routes'[n] = app(After[n])
      BY <2>3 DEF Carried, usesAppRoute, app
    <3>1. CASE n # op.name /\ n # op.old
      <4>1. After[n] = targets[n] /\ routes'[n] = routes[n]
        BY <1>s, <2>0, <3>1, AfterFields
      <4> QED BY <1>c, <4>1 DEF Own
    <3>2. CASE n = op.name
      <4>1. op.kind # "delete" /\ usesAppRoute(op.t)
        BY <1>o, <1>s, <3>2 DEF Own, usesAppRoute
      <4>2. After[n] = op.t
        BY <2>0, <3>2, <4>1, AfterFields
      <4> QED BY <1>s, <3>2, <4>1, <4>2
    <3>3. CASE n = op.old /\ op.name # op.old
      BY <1>s, <3>3 DEF Own
    <3> QED BY <3>1, <3>2, <3>3
  <2> QED BY <1>0, <1>o, <1>s, <2>0, <2>1, <2>2, <2>4, GoesOn
\* The request returns, having taken away routes at most.
<1>r. ASSUME Return, dirty \subseteq dirty', dirty' \subseteq Names,
             routes' \in [Names -> Route \cup {NoRoute}],
             \A n \in Names \ dirty' : routes'[n] = routes[n] \/ routes'[n] = NoRoute
      PROVE  RegistryInv'
  <2>1. \A n \in Names \ dirty' : Carried(n, targets)'
    BY <1>0, <1>c, <1>r DEF Carried, Own, usesAppRoute, app
  <2> QED BY <1>0, <1>t, <1>r, <2>1, ReturnKeeps
<1>1. CASE ApplyCreate
  <2>1. /\ Goto("save") /\ UNCHANGED dirty /\ op.call = "create"
        /\ routes' = [routes EXCEPT ![op.name] = app(op.t)]
    BY <1>1 DEF ApplyCreate, Apply
  <2>2. /\ routes' \in [Names -> Route \cup {NoRoute}] /\ routes'[op.name] = app(op.t)
        /\ \A n \in Names : n # op.name => routes'[n] = routes[n]
    BY <1>t, <1>o, <1>p, <2>1
  <2>3. op.name # op.old => ~Owned(op.old) \/ op.old \in dirty
    BY <1>f, <1>o, <2>1, <2>2 DEF Own
  <2> QED BY <1>f, <1>s, <2>1, <2>2, <2>3 DEF Goto, Own, usesAppRoute
<1>2. CASE ApplyUpdate
  <2>1. /\ op.call = "update"
        /\ routes' = [n \in Names |-> IF n = op.name THEN app(op.t)
                                       ELSE IF n = op.old THEN NoRoute ELSE routes[n]]
        /\ \/ Return /\ dirty' = dirty \cup {op.name} /\ routes[op.old] = NoRoute
           \/ Goto("save") /\ UNCHANGED dirty
    BY <1>2 DEF ApplyUpdate, Apply
  <2>2. /\ routes' \in [Names -> Route \cup {NoRoute}] /\ routes'[op.name] = app(op.t)
        /\ \A n \in Names : n # op.name /\ n # op.old => routes'[n] = routes[n]
        /\ op.name # op.old => routes'[op.old] = NoRoute
    BY <1>t, <1>o, <1>p, <2>1
  <2>3. CASE Goto("save") /\ UNCHANGED dirty
    <3>1. op.name # op.old => ~Owned(op.old) \/ op.old \in dirty
      BY <2>2 DEF Own
    <3> QED BY <1>f, <1>s, <2>1, <2>2, <2>3, <3>1 DEF Goto, Own, usesAppRoute
  <2>4. CASE Return /\ dirty' = dirty \cup {op.name} /\ routes[op.old] = NoRoute
    BY <1>t, <1>o, <1>r, <2>2, <2>4
  <2> QED BY <2>1, <2>3, <2>4
<1>3. CASE ApplyInvalid
  BY <1>3, <1>t, <1>r DEF ApplyInvalid
<1>4. CASE ApplyDelete
  <2>1. /\ op.call = "delete" /\ UNCHANGED dirty
        /\ routes' = [routes EXCEPT ![op.old] = NoRoute]
        /\ Return \/ Goto("save")
    BY <1>4 DEF ApplyDelete, Apply
  <2>2. /\ routes' \in [Names -> Route \cup {NoRoute}] /\ routes'[op.old] = NoRoute
        /\ \A n \in Names : n # op.old => routes'[n] = routes[n]
    BY <1>t, <1>o, <2>1
  <2>3. op.kind # "create"
    BY <1>f, <2>1 DEF usesAppRoute
  <2>4. op.kind # "delete" => ~usesAppRoute(op.t)
    BY <1>f, <1>o, <2>1, <2>3 DEF Kinds
  <2>5. op.name # op.old => ~Owned(op.name) \/ op.name \in dirty
    BY <1>c, <1>f, <1>o, <2>2 DEF Own, usesAppRoute
  <2>6. ~Owned(op.old)
    BY <2>2 DEF Own
  <2>7. CASE Goto("save")
    BY <1>s, <2>1, <2>2, <2>4, <2>5, <2>6, <2>7 DEF Goto, Own, usesAppRoute
  <2>8. CASE Return
    BY <1>t, <1>r, <2>1, <2>2, <2>8 DEF Return
  <2> QED BY <2>1, <2>7, <2>8 DEF Goto, Return
<1> QED BY <1>1, <1>2, <1>3, <1>4

LEMMA SavesKeep ==
  ASSUME RegistryInv, Save \/ SaveFails \/ Crash
  PROVE  RegistryInv'
<1>0. op # NoOp /\ Return
  BY DEF Save, SaveFails, Crash
<1>t. /\ TypeOK /\ CallFits /\ RouteFits
      /\ targets \in [Names -> Target \cup {NoTarget}] /\ dirty \subseteq Names
      /\ routes \in [Names -> Route \cup {NoRoute}]
  BY DEF RegistryInv, TypeOK
<1>o. /\ op.old \in Names /\ op.name \in Names /\ op.kind \in Kinds /\ op.t \in Target
  BY <1>0, <1>t, OpFields
<1>a. /\ op.phase # "save" => \A n \in Names \ dirty : Carried(n, targets)
      /\ op.phase = "save" => \A n \in Names \ dirty : Carried(n, After)
  BY <1>0, StepFacts
<1>b. /\ \A n \in Names : n # op.old /\ n # op.name => After[n] = targets[n]
      /\ op.kind # "delete" => After[op.name] = op.t
      /\ op.kind # "delete" /\ op.old # op.name => After[op.old] = NoTarget
      /\ op.kind = "delete" /\ op.old = op.name => After[op.old] = NoTarget
      /\ After \in [Names -> Target \cup {NoTarget}]
  BY <1>0, <1>t, AfterFields
<1>f. op.name # op.old => op.kind = "update"
  BY <1>0, <1>t DEF CallFits
<1>1. CASE Save
  <2>1. op.phase = "save" /\ targets' = After /\ UNCHANGED <<routes, dirty>>
    BY <1>1 DEF Save
  <2>2. \A n \in Names \ dirty' : Carried(n, targets)'
    BY <1>a, <2>1 DEF Carried, Own, usesAppRoute, app
  <2> QED BY <1>0, <1>t, <1>b, <2>1, <2>2, ReturnKeeps
<1>2. CASE SaveFails \/ Crash
  <2>1. /\ UNCHANGED targets /\ dirty \subseteq dirty' /\ dirty' \subseteq Names
        /\ routes' \in [Names -> Route \cup {NoRoute}]
        /\ \A n \in Names : routes'[n] = routes[n] \/ routes'[n] = NoRoute
    BY <1>2, <1>t, <1>o DEF SaveFails, Crash
  <2>2. \A n \in Names \ dirty' : Carried(n, targets)'
    <3> SUFFICES ASSUME NEW n \in Names, n \notin dirty', Own(n)'
                 PROVE  usesAppRoute(targets[n]) /\ routes'[n] = app(targets[n])
      BY <2>1 DEF Carried, usesAppRoute, app
    <3>1. routes'[n] = routes[n] /\ Own(n) /\ n \notin dirty
      BY <2>1 DEF Own
    <3>2. CASE op.phase # "save"
      BY <1>a, <3>1, <3>2 DEF Carried
    <3>3. CASE op.phase = "save"
      <4>1. usesAppRoute(After[n]) /\ routes[n] = app(After[n])
        BY <1>a, <3>1, <3>3 DEF Carried
      <4>2. n # op.old /\ n # op.name
        <5>1. CASE Crash
          BY <5>1 DEF Crash
        <5>2. CASE SaveFails /\ op.kind = "update"
          BY <5>2 DEF SaveFails
        <5>3. CASE SaveFails /\ op.kind = "delete"
          <6>1. op.old = op.name
            BY <1>f, <5>3
          <6>2. After[op.old] = NoTarget
            BY <1>b, <5>3, <6>1
          <6> QED BY <4>1, <6>1, <6>2 DEF usesAppRoute
        <5>4. CASE SaveFails /\ op.kind = "create"
          <6>1. op.old = op.name /\ After[op.name] = op.t
            BY <1>b, <1>f, <5>4
          <6>2. usesAppRoute(op.t) => routes'[op.name] = NoRoute
            BY <1>t, <1>o, <5>4 DEF SaveFails
          <6> QED BY <3>1, <4>1, <6>1, <6>2 DEF Own
        <5> QED BY <1>2, <1>o, <5>1, <5>2, <5>3, <5>4 DEF Kinds
      <4>3. After[n] = targets[n]
        BY <1>b, <4>2
      <4> QED BY <3>1, <4>1, <4>3
    <3> QED BY <3>2, <3>3
  <2> QED BY <1>0, <1>t, <2>1, <2>2, ReturnKeeps
<1> QED BY <1>1, <1>2

LEMMA TabsKeep ==
  ASSUME RegistryInv,
         \/ \E n \in Names, a \in Addrs : TabCreate(n, a)
         \/ \E old, n \in Names, a \in Addrs : TabUpdate(old, n, a)
         \/ \E n \in Names : TabDelete(n)
  PROVE  RegistryInv'
<1>t. routes \in [Names -> Route \cup {NoRoute}]
  BY DEF RegistryInv, TypeOK
<1>r. \A a \in Addrs : [addr |-> a, by |-> "tab"] \in Route /\ [addr |-> a, by |-> "tab"].by = "tab"
  BY DEF Route
<1>1. ASSUME NEW n \in Names, NEW a \in Addrs, TabCreate(n, a) PROVE RegistryInv'
  <2>1. /\ CutsIn({n}) /\ routes' = [routes EXCEPT ![n] = [addr |-> a, by |-> "tab"]]
    BY <1>1 DEF TabCreate
  <2>2. routes' \in [Names -> Route \cup {NoRoute}]
    BY <1>r, <1>t, <2>1
  <2>3. \A m \in Names : routes'[m] # routes[m] => m \in {n} /\ ~Own(m)'
    BY <1>r, <1>t, <2>1 DEF Own
  <2> QED BY <2>1, <2>2, <2>3, TabKeeps
<1>2. ASSUME NEW old \in Names, NEW n \in Names, NEW a \in Addrs, TabUpdate(old, n, a)
      PROVE  RegistryInv'
  <2>1. /\ CutsIn({old, n})
        /\ routes' = [m \in Names |-> IF m = n THEN [addr |-> a, by |-> "tab"]
                                       ELSE IF m = old THEN NoRoute ELSE routes[m]]
    BY <1>2 DEF TabUpdate
  <2>2. routes' \in [Names -> Route \cup {NoRoute}]
    BY <1>r, <1>t, <2>1
  <2>3. \A m \in Names : routes'[m] # routes[m] => m \in {old, n} /\ ~Own(m)'
    BY <1>r, <1>t, <2>1 DEF Own
  <2> QED BY <2>1, <2>2, <2>3, TabKeeps
<1>3. ASSUME NEW n \in Names, TabDelete(n) PROVE RegistryInv'
  <2>1. /\ CutsIn({n}) /\ routes' = [routes EXCEPT ![n] = NoRoute]
    BY <1>3 DEF TabDelete
  <2>2. routes' \in [Names -> Route \cup {NoRoute}]
    BY <1>t, <2>1
  <2>3. \A m \in Names : routes'[m] # routes[m] => m \in {n} /\ ~Own(m)'
    BY <1>t, <2>1 DEF Own
  <2> QED BY <2>1, <2>2, <2>3, TabKeeps
<1> QED BY <1>1, <1>2, <1>3

LEMMA RegistryNext ==
  ASSUME RegistryInv, [Next]_vars
  PROVE  RegistryInv'
<1>1. CASE UNCHANGED vars
  BY <1>1 DEF vars, RegistryInv, TypeOK, CallFits, RouteFits, InStep, Carried, Own,
              usesAppRoute, app, After
<1> QED BY <1>1, RequestsKeep, StatsKeep, AppliesKeep, SavesKeep, TabsKeep DEF Next

\* The inductive invariant of the registry, for every set of names and addresses.
THEOREM RegistryInvariant == Spec => []RegistryInv
  BY RegistryInit, RegistryNext, PTL DEF Spec

\* Whenever no request holds mu, every App Route that the VNC tab wrote is that of
\* a stored novnc target (Create, Update, Delete), failed saves of Update, deaths
\* and cuts of the App Routes tab into a request aside.
THEOREM LockstepHolds == Spec => []RoutesInLockstep
<1>1. RegistryInv => RoutesInLockstep
  BY DEF RegistryInv, InStep, RoutesInLockstep
<1> QED BY <1>1, RegistryInvariant, PTL

\* The VNC tab changes an app of the App Routes tab only under the name of a novnc
\* target, cuts of that tab into the request aside (Create, Delete).
THEOREM StrangersAreKept == Spec => StrangersKept
<1> DEFINE Kept == op # NoOp /\ op' # op =>
                     \A n \in Names \ dirty :
                       routes[n] # NoRoute /\ routes[n].by = "tab" /\ routes'[n] # routes[n]
                         => usesAppRoute(targets[n])
<1>1. ASSUME RegistryInv, [Next]_vars PROVE Kept
  <2> SUFFICES ASSUME op # NoOp, op' # op, NEW n \in Names, n \notin dirty, routes[n] # NoRoute,
                      routes[n].by = "tab", routes'[n] # routes[n]
               PROVE  usesAppRoute(targets[n])
    OBVIOUS
  <2>t. CallFits /\ RouteFits /\ routes \in [Names -> Route \cup {NoRoute}]
    BY <1>1 DEF RegistryInv, TypeOK
  <2>o. op.old \in Names /\ op.name \in Names /\ op.kind \in Kinds /\ op.call \in Kinds
    BY <1>1, OpFields DEF RegistryInv
  <2>1. ApplyCreate \/ ApplyUpdate \/ ApplyDelete \/ SaveFails
    BY <1>1 DEF Next, vars, Create, Update, Delete, Begin, StatCreate, StatUpdate, StatDelete,
                ApplyInvalid, Save, Crash, TabCreate, TabUpdate, TabDelete, CutsIn
  <2>2. CASE ApplyCreate
    <3>1. op.phase = "apply" /\ op.call = "create" /\ n = op.name
      BY <2>2, <2>t, <2>o DEF ApplyCreate, Apply
    <3> QED BY <2>t, <3>1 DEF RouteFits
  <2>3. CASE ApplyUpdate
    <3>1. op.phase = "apply" /\ op.call = "update" /\ (n = op.name \/ n = op.old)
      BY <2>3, <2>t, <2>o DEF ApplyUpdate, Apply
    <3>2. n = op.old
      BY <2>t, <3>1 DEF RouteFits
    <3> QED BY <2>t, <3>1, <3>2 DEF CallFits
  <2>4. CASE ApplyDelete
    <3>1. op.phase = "apply" /\ op.call = "delete" /\ n = op.old
      BY <2>4, <2>t, <2>o DEF ApplyDelete, Apply
    <3> QED BY <2>t, <3>1 DEF CallFits
  <2>5. CASE SaveFails
    <3>1. op.phase = "save" /\ op.kind = "create" /\ usesAppRoute(op.t) /\ n = op.name
      BY <2>5, <2>t, <2>o DEF SaveFails
    <3> QED BY <2>t, <3>1 DEF RouteFits, Own
  <2> QED BY <2>1, <2>2, <2>3, <2>4, <2>5
<1>2. RegistryInv /\ [Next]_vars => [Kept]_vars
  BY <1>1
<1> QED BY <1>2, RegistryInvariant, PTL DEF Spec, StrangersKept

\* A novnc target is stored only with the App Route that serves it in place
\* (Create, Update).
THEOREM StoredAreServed == Spec => StoredIsServed
<1> DEFINE Served == op # NoOp /\ op' = NoOp /\ targets' = After /\ op.kind # "delete"
                       /\ op.phase = "save"
                     => (usesAppRoute(op.t) /\ op.name \notin dirty' => routes'[op.name] = app(op.t))
<1>1. ASSUME RegistryInv, [Next]_vars PROVE Served
  <2> SUFFICES ASSUME op # NoOp, op' = NoOp, op.kind # "delete", op.phase = "save",
                      usesAppRoute(op.t), op.name \notin dirty', targets' = After
               PROVE  routes'[op.name] = app(op.t)
    OBVIOUS
  <2>o. op.old \in Names /\ op.name \in Names /\ op.kind \in Kinds /\ op.t \in Target
    BY <1>1, OpFields DEF RegistryInv
  <2>1. Save \/ SaveFails \/ Crash
    BY <1>1 DEF Next, vars, Create, Update, Delete, Begin, StatCreate, StatUpdate, StatDelete, Stat,
                ApplyCreate, ApplyUpdate, ApplyDelete, ApplyInvalid, Apply,
                TabCreate, TabUpdate, TabDelete, CutsIn
  <2>2. CASE Save
    <3>1. UNCHANGED <<routes, dirty>>
      BY <2>2 DEF Save
    <3>2. Own(op.name) /\ Carried(op.name, After)
      BY <1>1, <2>o, <3>1, StepFacts DEF RegistryInv, RouteFits
    <3>3. After[op.name] = op.t
      BY <1>1, AfterFields DEF RegistryInv
    <3> QED BY <3>1, <3>2, <3>3 DEF Carried
  <2>3. CASE Crash
    BY <2>3 DEF Crash
  <2>4. CASE SaveFails
    <3>1. op.kind = "create" /\ UNCHANGED targets
      BY <2>4, <2>o DEF SaveFails, Kinds
    <3>2. After[op.name] = op.t /\ op.t # NoTarget
      BY <1>1, <2>o, <3>1, AfterFields, AppRoute DEF RegistryInv
    <3>3. targets[op.name] = NoTarget
      BY <1>1, <3>1 DEF RegistryInv, CallFits
    <3> QED BY <3>1, <3>2, <3>3
  <2> QED BY <2>1, <2>2, <2>3, <2>4
<1>2. RegistryInv /\ [Next]_vars => [Served]_vars
  BY <1>1
<1> QED BY <1>2, RegistryInvariant, PTL DEF Spec, StoredIsServed
=============================================================================
