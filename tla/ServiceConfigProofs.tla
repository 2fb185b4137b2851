------------------------ MODULE ServiceConfigProofs ------------------------
(***************************************************************************)
(* Proofs about ServiceConfig.  The packages with a mutex need no          *)
(* hypothesis; requests for users, whose package has none, are kept apart. *)
(***************************************************************************)
EXTENDS ServiceConfig, TLAPS

UsersApart == "users" \in Lists => "tinyauth" \in Apart

\* The lists have their packages and programs; a program's lists are of one package.
LEMMA ListFacts ==
  /\ \A l \in Lists : Pkg[l] \in Pkgs /\ Prog[l] \in Progs
  /\ \A l \in Lists : (Pkg[l] = "tinyauth") <=> (l = "users")
  /\ \A l \in Lists : (Prog[l] = "tinyauth") <=> (l = "users")
  /\ \A k, l \in Lists : Prog[k] = Prog[l] => Pkg[k] = Pkg[l]
<1>1. \A l \in Lists : l \in {"global", "forwards", "publish", "sources", "users"}
  BY ServiceConstants DEF AllLists
<1>2. \A l \in Lists : Pkg[l] \in Pkgs /\ Prog[l] \in Progs
  BY DEF Pkgs, Progs
<1>3. /\ \A l \in Lists : (Pkg[l] = "tinyauth") <=> (l = "users")
      /\ \A l \in Lists : (Prog[l] = "tinyauth") <=> (l = "users")
  BY <1>1 DEF Pkg, Prog
<1>4. \A k, l \in Lists : Prog[k] = Prog[l] => Pkg[k] = Pkg[l]
  BY <1>1 DEF Pkg, Prog
<1> QED BY <1>2, <1>3, <1>4

\* The edits that stand for none.
LEMMA NoEdits ==
  /\ \A l \in Lists : NoEdit(l) \in Edit /\ NoEdit(l).slot[1] = l
  /\ Idle \in Edit /\ Idle.slot[1] \in Lists
<1>1. \A l \in Lists : NoEdit(l) \in Edit /\ NoEdit(l).slot[1] = l
  BY DEF NoEdit, Edit, Entry
<1>2. (CHOOSE l \in Lists : TRUE) \in Lists
  BY ServiceConstants
<1> QED BY <1>1, <1>2 DEF Idle

\* An entry belongs to the list that is its first component.
LEMMA SlotLists == \A s \in Slots : s[1] \in Lists /\ s \in Lists \X (Names \cup {Whole})
  BY DEF Slots

\* A request's move changes nothing of the others.
Others(r) ==
  \A s \in Reqs \ {r} : pc'[s] = pc[s] /\ req'[s] = req[s] /\ loaded'[s] = loaded[s]

PCs == {"idle", "load", "save", "list", "render", "stop", "start"}

\* A move of one request: what it has afterwards, and that the others keep theirs.
LEMMA Moves ==
  ASSUME TypeOK, NEW r \in Reqs, NEW at \in PCs, NEW e \in Edit, NEW f \in {Unread} \cup Files,
         pc' = [pc EXCEPT ![r] = at],
         req' = [req EXCEPT ![r] = e],
         loaded' = [loaded EXCEPT ![r] = f]
  PROVE  /\ pc' \in [Reqs -> PCs] /\ req' \in [Reqs -> Edit]
         /\ loaded' \in [Reqs -> {Unread} \cup Files]
         /\ pc'[r] = at /\ req'[r] = e /\ loaded'[r] = f
         /\ Others(r)
  BY DEF TypeOK, PCs, Others

\* A move that leaves the edit alone.
LEMMA MovesOn ==
  ASSUME TypeOK, NEW r \in Reqs, NEW at \in PCs, NEW f \in {Unread} \cup Files,
         pc' = [pc EXCEPT ![r] = at], req' = req,
         loaded' = [loaded EXCEPT ![r] = f]
  PROVE  /\ pc' \in [Reqs -> PCs] /\ req' \in [Reqs -> Edit]
         /\ loaded' \in [Reqs -> {Unread} \cup Files]
         /\ pc'[r] = at /\ req'[r] = req[r] /\ loaded'[r] = f
         /\ Others(r)
  BY DEF TypeOK, PCs, Others

\* A move that leaves the edit and what was read alone.
LEMMA MovesOnly ==
  ASSUME TypeOK, NEW r \in Reqs, NEW at \in PCs,
         pc' = [pc EXCEPT ![r] = at], req' = req, loaded' = loaded
  PROVE  /\ pc' \in [Reqs -> PCs] /\ req' \in [Reqs -> Edit]
         /\ loaded' \in [Reqs -> {Unread} \cup Files]
         /\ pc'[r] = at /\ req'[r] = req[r] /\ loaded'[r] = loaded[r]
         /\ Others(r)
  BY DEF TypeOK, PCs, Others

\* An answer.
LEMMA Answers ==
  ASSUME TypeOK, NEW r \in Reqs, Answer(r)
  PROVE  /\ pc' \in [Reqs -> PCs] /\ req' \in [Reqs -> Edit]
         /\ loaded' \in [Reqs -> {Unread} \cup Files]
         /\ pc'[r] = "idle" /\ Others(r)
  BY Moves, NoEdits DEF Answer, PCs

\* A move past the save.
LEMMA Proceeds ==
  ASSUME TypeOK, NEW r \in Reqs, NEW at \in PCs, Proceed(r, at)
  PROVE  /\ pc' \in [Reqs -> PCs] /\ req' \in [Reqs -> Edit]
         /\ loaded' \in [Reqs -> {Unread} \cup Files]
         /\ pc'[r] = at /\ list(r)' = list(r) /\ Others(r)
<1>1. list(r) \in Lists
  BY DEF TypeOK, Edit, list
<1>2. NoEdit(list(r)) \in Edit /\ NoEdit(list(r)).slot[1] = list(r)
  BY <1>1, NoEdits
<1>3. Unread \in {Unread} \cup Files
  OBVIOUS
<1> QED BY <1>2, <1>3, Moves DEF Proceed, list

\* The list, the package and the program of a request are of their kinds.
LEMMA KindsOf ==
  ASSUME TypeOK, NEW r \in Reqs
  PROVE  /\ list(r) \in Lists /\ pkg(r) \in Pkgs /\ prog(r) \in Progs
         /\ pkg(r) = "tinyauth" <=> list(r) = "users"
         /\ prog(r) = "tinyauth" <=> list(r) = "users"
  BY ListFacts DEF TypeOK, Edit, list, pkg, prog

\* What is read of a package's files is of its kind.
LEMMA FileTypes ==
  ASSUME TypeOK, NEW k \in Pkgs
  PROVE  FileOf(k) \in Files
  BY DEF TypeOK, FileOf, Files

\* What a program reads is of its kind.
LEMMA ViewTypes ==
  ASSUME TypeOK, NEW p \in Progs
  PROVE  View(p) \in Views
<1>1. CASE p = "tinyauth"
  BY <1>1 DEF View, Views, TypeOK
<1>2. CASE p # "tinyauth"
  <2>1. [s \in {t \in Slots : Prog[t[1]] = p} |-> doc[s]] \in [{t \in Slots : Prog[t[1]] = p} -> Entry]
    BY DEF TypeOK
  <2> QED BY <1>2, <2>1 DEF View, Views
<1> QED BY <1>1, <1>2

\* A write under the invariant changes its own entry, and no other file or view.
LEMMA Writes ==
  ASSUME ServiceInv, NEW r \in Reqs, Write(r)
  PROVE  /\ doc' \in [Slots -> Entry]
         /\ \A s \in Slots \ {req[r].slot} : doc'[s] = doc[s]
         /\ \A k \in Pkgs : k # pkg(r) => FileOf(k)' = FileOf(k)
         /\ \A p \in Progs : p # prog(r) => View(p)' = View(p)
         /\ env' = env
<1>1. req[r].slot \in Slots /\ req[r].val \in Entry /\ loaded[r] = FileOf(pkg(r))
  BY DEF ServiceInv, EditFits, LoadedIsStored, TypeOK, Edit, Write
<1>2. \A s \in Slots : doc'[s] = CASE s = req[r].slot -> req[r].val
                               [] s # req[r].slot /\ Pkg[s[1]] = pkg(r) -> loaded[r][s]
                               [] OTHER -> doc[s]
  BY DEF Write
<1>3. \A s \in Slots : Pkg[s[1]] = pkg(r) => loaded[r][s] = doc[s]
  BY <1>1 DEF FileOf
<1>4. \A s \in Slots \ {req[r].slot} : doc'[s] = doc[s]
  BY <1>2, <1>3
<1>5. \A s \in Slots : doc'[s] \in Entry
  BY <1>1, <1>2, <1>4 DEF ServiceInv, TypeOK
<1>6. doc' = [s \in Slots |-> doc'[s]]
  BY DEF Write
<1>7. doc' \in [Slots -> Entry]
  BY <1>5, <1>6
<1>8. env' = env
  BY DEF Write
<1>9. ASSUME NEW k \in Pkgs, k # pkg(r) PROVE FileOf(k)' = FileOf(k)
  <2>1. \A s \in {t \in Slots : Pkg[t[1]] = k} : s # req[r].slot
    BY <1>9 DEF pkg, list
  <2>2. \A s \in {t \in Slots : Pkg[t[1]] = k} : doc'[s] = doc[s]
    BY <2>1, <1>4
  <2> QED BY <2>2 DEF FileOf
<1>10. ASSUME NEW p \in Progs, p # prog(r) PROVE View(p)' = View(p)
  <2>1. \A s \in {t \in Slots : Prog[t[1]] = p} : s # req[r].slot
    BY <1>10 DEF prog, list
  <2>2. \A s \in {t \in Slots : Prog[t[1]] = p} : doc'[s] = doc[s]
    BY <2>1, <1>4
  <2> QED BY <2>2, <1>8 DEF View
<1> QED BY <1>4, <1>7, <1>8, <1>9, <1>10

\* The mutexes after a step of r that is not a load.
LEMMA MutexKept ==
  ASSUME TypeOK, MutexHeld, NEW r \in Reqs, Others(r),
         pc'[r] = "idle" \/ (pc[r] # "idle" /\ pc'[r] # "idle" /\ list(r)' = list(r)),
         pc'[r] # "save",
         (mu' = mu /\ pc[r] # "save") \/ Unlock(r)
  PROVE  MutexHeld'
<1>1. \A s \in Reqs \ {r} : pc'[s] = pc[s] /\ list(s)' = list(s) /\ pkg(s)' = pkg(s)
  BY DEF Others, list, pkg
<1>2. \A p \in Pkgs : mu'[p] = (IF mu[p] = r THEN Nobody ELSE mu[p])
  <2>1. CASE mu' = mu /\ pc[r] # "save"
    BY <2>1 DEF MutexHeld
  <2>2. CASE Unlock(r)
    BY <2>2 DEF Unlock
  <2> QED BY <2>1, <2>2
<1>3. \A p \in Pkgs, s \in Reqs : mu'[p] = s => pc'[s] = "save" /\ pkg(s)' = p
  <2> SUFFICES ASSUME NEW p \in Pkgs, NEW s \in Reqs, mu'[p] = s
               PROVE  pc'[s] = "save" /\ pkg(s)' = p
    OBVIOUS
  <2>1. mu[p] = s /\ s # r
    BY <1>2, ServiceConstants
  <2> QED BY <1>1, <2>1 DEF MutexHeld
<1>4. \A s \in Reqs : pc'[s] = "save" /\ pkg(s)' # "tinyauth" => mu'[pkg(s)'] = s
  <2> SUFFICES ASSUME NEW s \in Reqs, pc'[s] = "save", pkg(s)' # "tinyauth"
               PROVE  mu'[pkg(s)'] = s
    OBVIOUS
  <2>1. s # r /\ pc[s] = "save" /\ pkg(s) = pkg(s)'
    BY <1>1
  <2>2. mu[pkg(s)] = s /\ pkg(s) \in Pkgs
    BY <2>1, KindsOf DEF MutexHeld
  <2> QED BY <1>2, <2>1, <2>2
<1>5. \A q, s \in Reqs : q # s /\ pc'[q] # "idle" /\ pc'[s] # "idle" /\ pkg(q)' = pkg(s)'
                        => pkg(q)' \notin Apart
  <2>1. pc'[r] # "idle" => pc[r] # "idle" /\ pkg(r)' = pkg(r)
    BY DEF pkg
  <2>2. \A s \in Reqs : pc'[s] # "idle" => pc[s] # "idle" /\ pkg(s)' = pkg(s)
    BY <1>1, <2>1
  <2> QED BY <2>2 DEF MutexHeld
<1> QED BY <1>3, <1>4, <1>5 DEF MutexHeld

\* What the others have read, after a step of r.
LEMMA LoadedKept ==
  ASSUME TypeOK, LoadedIsStored, NEW r \in Reqs, Others(r),
         pc'[r] \notin {"save", "render"},
         \A s \in Reqs \ {r} : \A k \in Pkgs :
           pc[s] \in {"save", "render"} /\ pkg(s) = k => FileOf(k)' = FileOf(k)
  PROVE  LoadedIsStored'
<1> SUFFICES ASSUME NEW s \in Reqs, pc'[s] \in {"save", "render"}
             PROVE  (loaded[s] = FileOf(pkg(s)))'
  BY DEF LoadedIsStored
<1>1. s \in Reqs \ {r} /\ pc'[s] = pc[s] /\ loaded'[s] = loaded[s] /\ pkg(s)' = pkg(s)
  BY DEF Others, pkg, list
<1>2. PICK k \in Pkgs : k = pkg(s)
  BY KindsOf
<1>3. loaded[s] = FileOf(k)
  BY <1>1, <1>2 DEF LoadedIsStored
<1>4. FileOf(k)' = FileOf(k)
  BY <1>1, <1>2
<1> QED BY <1>1, <1>2, <1>3, <1>4 DEF FileOf

\* A program that is settled after a step of r was settled before, unless r was on its
\* way from the save to the answer.
LEMMA SettledBefore ==
  ASSUME NEW r \in Reqs, Others(r), NEW p,
         pc[r] \in {"idle", "load", "save"} \/ p # prog(r),
         Settled(p)'
  PROVE  Settled(p)
<1> SUFFICES ASSUME NEW s \in Reqs, pc[s] # "idle", prog(s) = p
             PROVE  pc[s] \in {"load", "save"}
  BY DEF Settled, InFlight
<1>1. CASE s = r
  BY <1>1
<1>2. CASE s # r
  <2>1. pc'[s] = pc[s] /\ prog(s)' = prog(s)
    BY <1>2 DEF Others, prog, list
  <2> QED BY <2>1 DEF Settled, InFlight
<1> QED BY <1>1, <1>2

\* While r is on its way its program is not settled.
LEMMA Unsettled ==
  ASSUME NEW r \in Reqs, pc'[r] \in {"list", "render", "stop", "start"}, list(r)' = list(r),
         NEW p, p = prog(r)
  PROVE  ~Settled(p)'
  BY DEF Settled, InFlight, prog

\* The entries and the edits in flight after a step of r.
LEMMA EditsFit ==
  ASSUME EditFits, NEW r \in Reqs, Others(r),
         pc'[r] \in {"load", "save"} => req'[r].slot \in Slots,
         pc'[r] \in {"list", "render"} => list(r)' = "users"
  PROVE  EditFits'
  BY DEF EditFits, Others, list

\* The steps of r that change no file and no program.
LEMMA QuietKeeps ==
  ASSUME TypeOK, SuccessIsLive, EnvIsStored, EnvFresh, DownUnread, NEW r \in Reqs, Others(r),
         UNCHANGED <<files, up, read>>,
         \/ told' = told /\ (pc[r] \in {"idle", "load", "save"} \/ pc'[r] \in {"render", "start"})
         \/ told' = told \cup {prog(r)},
         pc'[r] \in {"render", "start"} => list(r)' = list(r),
         pc'[r] \notin {"stop", "start"}
  PROVE  SuccessIsLive' /\ EnvIsStored' /\ EnvFresh' /\ DownUnread'
<1>1. \A p \in Progs : p \notin told' /\ Settled(p)' => p \notin told /\ Settled(p)
  <2> SUFFICES ASSUME NEW p \in Progs, p \notin told', Settled(p)' PROVE p \notin told /\ Settled(p)
    OBVIOUS
  <2>1. p \notin told
    OBVIOUS
  <2>2. pc[r] \in {"idle", "load", "save"} \/ p # prog(r)
    BY Unsettled
  <2> QED BY <2>1, <2>2, SettledBefore
<1>2. \A p \in Progs : View(p)' = View(p)
  BY DEF View, files
<1>3. SuccessIsLive'
  BY <1>1, <1>2 DEF SuccessIsLive
<1>4. "users" \in Lists => "tinyauth" \in Progs
  BY ListFacts
<1>5. EnvIsStored'
  BY <1>1, <1>4 DEF EnvIsStored, files, Rendered
<1>6. EnvFresh'
  BY DEF EnvFresh, Others, list, files, Rendered
<1>7. DownUnread'
  BY DEF DownUnread
<1> QED BY <1>3, <1>5, <1>6, <1>7

----------------------------------------------------------------------------
(* The steps of a request.                                                 *)

LiveInv == ServiceInv /\ SuccessIsLive /\ EnvIsStored

\* A request arrives.
LEMMA ArriveKeeps ==
  ASSUME LiveInv, NEW r \in Reqs, NEW kind \in Kinds, NEW s \in Slots, NEW v \in Vals,
         Arrive(r, kind, s, v)
  PROVE  LiveInv'
<1> USE DEF LiveInv, ServiceInv
<1> DEFINE e == [kind |-> kind, slot |-> s, val |-> IF kind = "delete" THEN Absent ELSE v]
<1>1. e \in Edit
  BY SlotLists DEF Edit, Entry
<1>2. loaded[r] \in {Unread} \cup Files /\ loaded' = [loaded EXCEPT ![r] = loaded[r]]
  BY DEF Arrive, TypeOK
<1>3. req' = [req EXCEPT ![r] = e] /\ pc' = [pc EXCEPT ![r] = "load"]
  BY DEF Arrive
<1> HIDE DEF e
<1>4. /\ pc' \in [Reqs -> PCs] /\ req' \in [Reqs -> Edit] /\ loaded' \in [Reqs -> {Unread} \cup Files]
      /\ pc'[r] = "load" /\ req'[r] = e /\ Others(r)
  BY <1>1, <1>2, <1>3, Moves DEF PCs
<1>5. TypeOK'
  BY <1>4 DEF TypeOK, PCs, Arrive, files
<1>6. EditFits'
  BY <1>4, EditsFit DEF e
<1>7. MutexHeld'
  <2>1. mu' = mu /\ pc[r] = "idle" /\ (Pkg[s[1]] \in Apart => \A t \in InFlight : pkg(t) # Pkg[s[1]])
    BY DEF Arrive
  <2>2. \A t \in Reqs \ {r} : pc'[t] = pc[t] /\ pkg(t)' = pkg(t)
    BY <1>4 DEF Others, pkg, list
  <2>3. pkg(r)' = Pkg[s[1]]
    BY <1>4 DEF e, pkg, list
  <2>4. \A p \in Pkgs, t \in Reqs : mu'[p] = t => pc'[t] = "save" /\ pkg(t)' = p
    BY <2>1, <2>2 DEF MutexHeld
  <2>5. \A t \in Reqs : pc'[t] = "save" /\ pkg(t)' # "tinyauth" => mu'[pkg(t)'] = t
    BY <2>1, <2>2, <1>4 DEF MutexHeld
  <2>6. ASSUME NEW q \in Reqs, NEW t \in Reqs, q # t, pc'[q] # "idle", pc'[t] # "idle",
               pkg(q)' = pkg(t)'
        PROVE  pkg(q)' \notin Apart
    <3>1. CASE q = r
      BY <2>1, <2>2, <2>3, <2>6, <3>1 DEF InFlight
    <3>2. CASE t = r
      BY <2>1, <2>2, <2>3, <2>6, <3>2 DEF InFlight
    <3>3. CASE q # r /\ t # r
      BY <2>2, <2>6, <3>3 DEF MutexHeld
    <3> QED BY <3>1, <3>2, <3>3
  <2> QED BY <2>4, <2>5, <2>6 DEF MutexHeld
<1>8. LoadedIsStored'
  <2>1. \A k \in Pkgs : FileOf(k)' = FileOf(k)
    BY DEF FileOf, Arrive, files
  <2> QED BY <1>4, <2>1, LoadedKept
<1>9. SuccessIsLive' /\ EnvIsStored' /\ EnvFresh' /\ DownUnread'
  BY <1>4, QuietKeeps DEF Arrive
<1> QED BY <1>5, <1>6, <1>7, <1>8, <1>9

\* A request reads its file, under the mutex or kept apart.
LEMMA ReadKeeps ==
  ASSUME LiveInv, NEW r \in Reqs, Load(r) \/ LoadUsers(r)
  PROVE  LiveInv'
<1> USE DEF LiveInv, ServiceInv
<1>1. Read(r)
  BY DEF Load, LoadUsers
<1>2. FileOf(pkg(r)) \in Files /\ pkg(r) \in Pkgs
  BY KindsOf, FileTypes
<1>3. /\ pc' \in [Reqs -> PCs] /\ req' \in [Reqs -> Edit] /\ loaded' \in [Reqs -> {Unread} \cup Files]
      /\ pc'[r] = "save" /\ req'[r] = req[r] /\ loaded'[r] = FileOf(pkg(r)) /\ Others(r)
  BY <1>1, <1>2, MovesOn DEF PCs, Read
<1>4. TypeOK'
  BY <1>1, <1>2, <1>3 DEF TypeOK, PCs, Load, LoadUsers, Read, files
<1>5. EditFits'
  BY <1>1, <1>3, EditsFit DEF EditFits, Read
<1>6. \A t \in Reqs : (t # r => pc'[t] = pc[t]) /\ pkg(t)' = pkg(t)
  BY <1>3 DEF Others, pkg, list
<1>7. MutexHeld'
  <2>1. CASE Load(r)
    <3>1. pkg(r) # "tinyauth" /\ mu[pkg(r)] = Nobody /\ mu' = [mu EXCEPT ![pkg(r)] = r]
      BY <2>1 DEF Load
    <3>2. \A p \in Pkgs : mu'[p] = IF p = pkg(r) THEN r ELSE mu[p]
      BY <3>1, <1>2 DEF TypeOK
    <3>3. \A p \in Pkgs, t \in Reqs : mu'[p] = t => pc'[t] = "save" /\ pkg(t)' = p
      BY <3>2, <1>3, <1>6 DEF MutexHeld
    <3>4. ASSUME NEW t \in Reqs, pc'[t] = "save", pkg(t)' # "tinyauth" PROVE mu'[pkg(t)'] = t
      <4>1. CASE t = r
        BY <4>1, <3>2, <1>2, <1>6
      <4>2. CASE t # r
        <5>1. pc[t] = "save" /\ pkg(t)' = pkg(t) /\ mu[pkg(t)] = t /\ pkg(t) \in Pkgs
          BY <4>2, <3>4, <1>6, KindsOf DEF MutexHeld
        <5>2. pkg(t) # pkg(r)
          BY <5>1, <3>1, ServiceConstants
        <5> QED BY <5>1, <5>2, <3>2
      <4> QED BY <4>1, <4>2
    <3>5. \A q, t \in Reqs : q # t /\ pc'[q] # "idle" /\ pc'[t] # "idle" /\ pkg(q)' = pkg(t)'
                              => pkg(q)' \notin Apart
      BY <1>1, <1>6 DEF MutexHeld, Read
    <3> QED BY <3>3, <3>4, <3>5 DEF MutexHeld
  <2>2. CASE LoadUsers(r)
    <3>1. mu' = mu /\ pkg(r) = "tinyauth" /\ pc[r] = "load"
      BY <2>2, <1>1 DEF LoadUsers, Read
    <3>2. \A p \in Pkgs, t \in Reqs : mu'[p] = t => pc'[t] = "save" /\ pkg(t)' = p
      BY <3>1, <1>6 DEF MutexHeld
    <3>3. \A t \in Reqs : pc'[t] = "save" /\ pkg(t)' # "tinyauth" => mu'[pkg(t)'] = t
      BY <3>1, <1>6 DEF MutexHeld
    <3>4. \A q, t \in Reqs : q # t /\ pc'[q] # "idle" /\ pc'[t] # "idle" /\ pkg(q)' = pkg(t)'
                              => pkg(q)' \notin Apart
      BY <3>1, <1>6 DEF MutexHeld
    <3> QED BY <3>2, <3>3, <3>4 DEF MutexHeld
  <2> QED BY <2>1, <2>2
<1>8. LoadedIsStored'
  <2> SUFFICES ASSUME NEW t \in Reqs, pc'[t] \in {"save", "render"}
               PROVE  (loaded[t] = FileOf(pkg(t)))'
    BY DEF LoadedIsStored
  <2>1. doc' = doc
    BY <1>1 DEF Read, files
  <2>2. loaded'[t] = FileOf(pkg(t))
    BY <1>3 DEF Others, LoadedIsStored
  <2> QED BY <2>1, <2>2, <1>6 DEF FileOf
<1>9. SuccessIsLive' /\ EnvIsStored' /\ EnvFresh' /\ DownUnread'
  BY <1>1, <1>3, QuietKeeps DEF Read
<1> QED BY <1>4, <1>5, <1>7, <1>8, <1>9

\* The ways to answer with an error that touch no file and no program.
LEMMA ErrorsKeep ==
  ASSUME LiveInv, NEW r \in Reqs,
         LoadRefuses(r) \/ SaveFails(r) \/ RenderFails(r) \/ AlreadyStarted(r)
  PROVE  LiveInv'
<1> USE DEF LiveInv, ServiceInv
<1>1. Answer(r) /\ UNCHANGED <<files, up, read>>
  BY DEF LoadRefuses, SaveFails, RenderFails, AlreadyStarted
<1>2. /\ pc' \in [Reqs -> PCs] /\ req' \in [Reqs -> Edit] /\ loaded' \in [Reqs -> {Unread} \cup Files]
      /\ pc'[r] = "idle" /\ Others(r)
  BY <1>1, Answers
<1>3. prog(r) \in Progs
  BY KindsOf
<1>4. (mu' = mu /\ pc[r] # "save") \/ Unlock(r)
  BY DEF LoadRefuses, SaveFails, RenderFails, AlreadyStarted
<1>5. mu' \in [Pkgs -> Reqs \cup {Nobody}]
  BY <1>4 DEF Unlock, TypeOK
<1>6. \/ told' = told /\ pc[r] \in {"load", "save"}
      \/ told' = told \cup {prog(r)}
  BY DEF LoadRefuses, SaveFails, RenderFails, AlreadyStarted
<1>7. TypeOK'
  BY <1>1, <1>2, <1>3, <1>5, <1>6 DEF TypeOK, PCs, files
<1>8. EditFits'
  BY <1>2, EditsFit
<1>9. MutexHeld'
  BY <1>2, <1>4, MutexKept
<1>10. LoadedIsStored'
  <2>1. \A k \in Pkgs : FileOf(k)' = FileOf(k)
    BY <1>1 DEF FileOf, files
  <2> QED BY <1>2, <2>1, LoadedKept
<1>11. SuccessIsLive' /\ EnvIsStored' /\ EnvFresh' /\ DownUnread'
  BY <1>1, <1>2, <1>6, QuietKeeps
<1> QED BY <1>7, <1>8, <1>9, <1>10, <1>11

\* The stored users are read again.
LEMMA ListUsersKeeps ==
  ASSUME LiveInv, NEW r \in Reqs, ListUsers(r)
  PROVE  LiveInv'
<1> USE DEF LiveInv, ServiceInv
<1>1. pc[r] = "list" /\ list(r) = "users" /\ pkg(r) = "tinyauth" /\ pkg(r) \in Pkgs
  BY KindsOf DEF ListUsers, EditFits
<1>2. /\ pc' \in [Reqs -> PCs] /\ req' \in [Reqs -> Edit] /\ loaded' \in [Reqs -> {Unread} \cup Files]
      /\ pc'[r] = "render" /\ req'[r] = req[r] /\ loaded'[r] = FileOf("tinyauth") /\ Others(r)
  BY <1>1, FileTypes, MovesOn DEF PCs, ListUsers
<1>3. \A t \in Reqs : (t # r => pc'[t] = pc[t]) /\ list(t)' = list(t) /\ pkg(t)' = pkg(t)
  BY <1>2 DEF Others, pkg, list
<1>4. TypeOK'
  BY <1>2 DEF TypeOK, PCs, ListUsers, files
<1>5. EditFits'
  BY <1>1, <1>2, <1>3, EditsFit
<1>6. MutexHeld'
  BY <1>1, <1>2, <1>3, MutexKept DEF ListUsers
<1>7. LoadedIsStored'
  <2> SUFFICES ASSUME NEW t \in Reqs, pc'[t] \in {"save", "render"}
               PROVE  (loaded[t] = FileOf(pkg(t)))'
    BY DEF LoadedIsStored
  <2>1. doc' = doc
    BY DEF ListUsers, files
  <2>2. loaded'[t] = FileOf(pkg(t))
    BY <1>1, <1>2 DEF Others, LoadedIsStored
  <2> QED BY <2>1, <2>2, <1>3 DEF FileOf
<1>8. SuccessIsLive' /\ EnvIsStored' /\ EnvFresh' /\ DownUnread'
  BY <1>2, <1>3, QuietKeeps DEF ListUsers
<1> QED BY <1>4, <1>5, <1>6, <1>7, <1>8

\* The rendered users are those of the entries of their list.
LEMMA RenderedEntries ==
  ASSUME NEW d, NEW e, \A n \in Names : d[<<"users", n>>] = e[<<"users", n>>]
  PROVE  Rendered(d) = Rendered(e)
  BY DEF Rendered

\* Every user has an entry.
LEMMA UserSlots ==
  ASSUME "users" \in Lists
  PROVE  \A n \in Names : <<"users", n>> \in Slots
  BY ServiceConstants DEF Slots

\* A request replaces its file.
LEMMA SaveKeeps ==
  ASSUME LiveInv, UsersApart, NEW r \in Reqs, Save(r) \/ SaveUsers(r)
  PROVE  LiveInv'
<1> USE DEF LiveInv, ServiceInv
<1>1. Write(r) /\ pc[r] = "save"
  BY DEF Save, SaveUsers, Write
<1>2. PICK at \in {"stop", "list"} : Proceed(r, at) /\ (at = "list" <=> pkg(r) = "tinyauth")
  BY DEF Save, SaveUsers
<1>3. /\ pc' \in [Reqs -> PCs] /\ req' \in [Reqs -> Edit] /\ loaded' \in [Reqs -> {Unread} \cup Files]
      /\ pc'[r] = at /\ list(r)' = list(r) /\ Others(r)
  BY <1>2, Proceeds DEF PCs
<1>4. /\ doc' \in [Slots -> Entry]
      /\ \A s \in Slots \ {req[r].slot} : doc'[s] = doc[s]
      /\ \A k \in Pkgs : k # pkg(r) => FileOf(k)' = FileOf(k)
      /\ \A p \in Progs : p # prog(r) => View(p)' = View(p)
      /\ env' = env
  BY <1>1, Writes
<1>5. Unlock(r) /\ UNCHANGED <<up, read, told>>
  BY <1>1 DEF Write
<1>6. \A t \in Reqs : (t # r => pc'[t] = pc[t]) /\ list(t)' = list(t) /\ pkg(t)' = pkg(t)
                      /\ prog(t)' = prog(t)
  BY <1>3 DEF Others, pkg, list, prog
<1>7. list(r) \in Lists /\ (pkg(r) = "tinyauth" <=> list(r) = "users")
      /\ (prog(r) = "tinyauth" <=> list(r) = "users")
  BY KindsOf
<1>8. TypeOK'
  <2>1. mu' \in [Pkgs -> Reqs \cup {Nobody}]
    BY <1>5 DEF Unlock, TypeOK
  <2> QED BY <1>3, <1>4, <1>5, <2>1 DEF TypeOK, PCs
<1>9. EditFits'
  BY <1>2, <1>3, <1>7, EditsFit
<1>10. MutexHeld'
  BY <1>1, <1>3, <1>5, MutexKept
<1>11. \A s \in Reqs \ {r} : pkg(s) = pkg(r) => pc[s] \notin {"save", "render"}
  <2> SUFFICES ASSUME NEW s \in Reqs \ {r}, pkg(s) = pkg(r), pc[s] \in {"save", "render"} PROVE FALSE
    OBVIOUS
  <2>1. CASE pkg(r) = "tinyauth"
    BY <1>1, <1>7, <2>1 DEF MutexHeld, UsersApart
  <2>2. CASE pkg(r) # "tinyauth"
    <3>1. pc[s] = "save"
      BY <2>2, KindsOf DEF EditFits
    <3> QED BY <1>1, <2>2, <3>1 DEF MutexHeld
  <2> QED BY <2>1, <2>2
<1>12. LoadedIsStored'
  BY <1>2, <1>3, <1>4, <1>11, LoadedKept
<1>13. \A p \in Progs : Settled(p)' => p # prog(r)
  BY <1>3, Unsettled
<1>14. SuccessIsLive'
  <2> SUFFICES ASSUME NEW p \in Progs, p \notin told, Settled(p)'
               PROVE  p \in up /\ (read[p] # Unread => read[p] = View(p)')
    BY <1>5 DEF SuccessIsLive
  <2>1. p # prog(r) /\ Settled(p)
    BY <1>1, <1>3, <1>13, SettledBefore
  <2> QED BY <2>1, <1>4 DEF SuccessIsLive
<1>15. list(r) # "users" /\ "users" \in Lists => Rendered(doc)' = Rendered(doc)
  <2> SUFFICES ASSUME list(r) # "users", "users" \in Lists
               PROVE  Rendered(doc)' = Rendered(doc)
    OBVIOUS
  <2>1. ASSUME NEW n \in Names PROVE <<"users", n>> \in Slots \ {req[r].slot}
    <3>1. <<"users", n>>[1] # req[r].slot[1]
      BY DEF list
    <3>2. <<"users", n>> # req[r].slot
      BY <3>1, Zenon
    <3> QED BY <3>2, UserSlots
  <2>2. \A n \in Names : doc'[<<"users", n>>] = doc[<<"users", n>>]
    BY <2>1, <1>4
  <2> QED BY <2>2 DEF Rendered
<1>16. EnvIsStored'
  <2> SUFFICES ASSUME "users" \in Lists, "tinyauth" \notin told, Settled("tinyauth")'
               PROVE  env = Rendered(doc)'
    BY <1>4, <1>5 DEF EnvIsStored
  <2>1. "tinyauth" # prog(r)
    BY <1>13, ListFacts
  <2>2. Settled("tinyauth")
    BY <2>1, <1>3, SettledBefore
  <2> QED BY <2>1, <2>2, <1>7, <1>15 DEF EnvIsStored
<1>17. EnvFresh'
  <2> SUFFICES ASSUME NEW s \in Reqs, pc'[s] \in {"stop", "start"}, list(s) = "users"
               PROVE  env = Rendered(doc)'
    BY <1>4, <1>6 DEF EnvFresh
  <2>1. s # r
    BY <1>2, <1>3, <1>7
  <2>2. pc[s] \in {"stop", "start"} /\ "users" \in Lists /\ pkg(s) = "tinyauth"
    BY <2>1, <1>6, KindsOf
  <2>3. list(r) # "users"
    BY <1>1, <1>7, <2>1, <2>2 DEF MutexHeld, UsersApart
  <2> QED BY <2>2, <2>3, <1>15 DEF EnvFresh
<1>18. DownUnread'
  BY <1>5 DEF DownUnread
<1> QED BY <1>8, <1>9, <1>10, <1>12, <1>14, <1>16, <1>17, <1>18

\* The env file is rendered from the users as they are stored.
LEMMA RenderKeeps ==
  ASSUME LiveInv, NEW r \in Reqs, RenderEnvFile(r)
  PROVE  LiveInv'
<1> USE DEF LiveInv, ServiceInv
<1>1. pc[r] = "render" /\ list(r) = "users" /\ pkg(r) = "tinyauth" /\ prog(r) = "tinyauth"
      /\ "users" \in Lists
  BY KindsOf DEF RenderEnvFile, EditFits
<1>2. /\ pc' \in [Reqs -> PCs] /\ req' \in [Reqs -> Edit] /\ loaded' \in [Reqs -> {Unread} \cup Files]
      /\ pc'[r] = "stop" /\ req'[r] = req[r] /\ Others(r)
  BY MovesOn DEF PCs, RenderEnvFile
<1>3. list(r)' = list(r)
  BY <1>2 DEF list
<1>4. UNCHANGED <<doc, mu, up, read, told>>
  BY DEF RenderEnvFile
<1>5. env' = Rendered(doc)
  <2>1. env' = Rendered(loaded[r]) /\ loaded[r] = FileOf("tinyauth")
    BY <1>1 DEF RenderEnvFile, LoadedIsStored
  <2>2. \A n \in Names : <<"users", n>> \in Slots /\ Pkg[<<"users", n>>[1]] = "tinyauth"
    BY <1>1, UserSlots, ListFacts
  <2>3. \A n \in Names : FileOf("tinyauth")[<<"users", n>>] = doc[<<"users", n>>]
    BY <2>2 DEF FileOf
  <2> QED BY <2>1, <2>3, RenderedEntries
<1>6. env' \in [Names -> Entry]
  <2>1. \A n \in Names : doc[<<"users", n>>] \in Entry
    BY <1>1, UserSlots DEF TypeOK
  <2> QED BY <2>1, <1>5 DEF Rendered, Entry
<1>7. TypeOK'
  BY <1>2, <1>4, <1>6 DEF TypeOK, PCs
<1>8. EditFits'
  BY <1>2, EditsFit
<1>9. MutexHeld'
  BY <1>1, <1>2, <1>3, <1>4, MutexKept
<1>10. LoadedIsStored'
  <2>1. \A k \in Pkgs : FileOf(k)' = FileOf(k)
    BY <1>4 DEF FileOf
  <2> QED BY <1>2, <2>1, LoadedKept
<1>11. SuccessIsLive'
  <2> SUFFICES ASSUME NEW p \in Progs, p \notin told, Settled(p)'
               PROVE  p \in up /\ (read[p] # Unread => read[p] = View(p)')
    BY <1>4 DEF SuccessIsLive
  <2>1. p # prog(r) /\ Settled(p)
    BY <1>2, <1>3, Unsettled, SettledBefore
  <2>2. View(p)' = View(p)
    BY <2>1, <1>1, <1>4 DEF View
  <2> QED BY <2>1, <2>2 DEF SuccessIsLive
<1>12. EnvIsStored' /\ EnvFresh'
  BY <1>4, <1>5 DEF EnvIsStored, EnvFresh, Rendered
<1>13. DownUnread'
  BY <1>4 DEF DownUnread
<1> QED BY <1>7, <1>8, <1>9, <1>10, <1>11, <1>12, <1>13

\* The calls of supervisord.
LEMMA RestartKeeps ==
  ASSUME LiveInv, NEW r \in Reqs,
         StopProcess(r) \/ StopFails(r) \/ StartProcess(r) \/ StartFails(r)
  PROVE  LiveInv'
<1> USE DEF LiveInv, ServiceInv
<1>1. pc[r] \in {"stop", "start"} /\ UNCHANGED <<files, mu>>
  BY DEF StopProcess, StopFails, StartProcess, StartFails
<1>2. prog(r) \in Progs /\ list(r) \in Lists /\ (prog(r) = "tinyauth" <=> list(r) = "users")
  BY KindsOf
<1>3. /\ pc' \in [Reqs -> PCs] /\ req' \in [Reqs -> Edit] /\ loaded' \in [Reqs -> {Unread} \cup Files]
      /\ Others(r)
      /\ pc'[r] = "idle" \/ (StopProcess(r) /\ pc'[r] = "start" /\ list(r)' = list(r))
  <2>1. CASE StopProcess(r)
    BY <2>1, MovesOnly DEF StopProcess, PCs, list
  <2>2. CASE Answer(r)
    BY <2>2, Answers
  <2> QED BY <2>1, <2>2 DEF StopFails, StartProcess, StartFails
<1>4. \/ up' = up \ {prog(r)} /\ read' = [read EXCEPT ![prog(r)] = Unread]
      \/ prog(r) \notin up /\ up' = up \cup {prog(r)} /\ read' = read
      \/ up' = up /\ read' = read
  BY DEF StopProcess, StopFails, StartProcess, StartFails, Stopped, Started
<1>5. \A p \in Progs \ {prog(r)} : read'[p] = read[p] /\ (p \in up' <=> p \in up)
  BY <1>4 DEF TypeOK
<1>6. \A p \in Progs \ {prog(r)} : p \in told' <=> p \in told
  BY DEF StopProcess, StopFails, StartProcess, StartFails
<1>7. TypeOK'
  <2>1. read' \in [Progs -> {Unread} \cup Views] /\ up' \subseteq Progs
    BY <1>2, <1>4 DEF TypeOK
  <2>2. told' \subseteq Progs
    BY <1>2 DEF TypeOK, StopProcess, StopFails, StartProcess, StartFails
  <2> QED BY <1>1, <1>3, <2>1, <2>2 DEF TypeOK, PCs, files
<1>8. EditFits'
  BY <1>3, EditsFit
<1>9. MutexHeld'
  BY <1>1, <1>3, MutexKept
<1>10. LoadedIsStored'
  <2>1. \A k \in Pkgs : FileOf(k)' = FileOf(k)
    BY <1>1 DEF FileOf, files
  <2> QED BY <1>3, <2>1, LoadedKept
<1>11. DownUnread'
  BY <1>2, <1>4 DEF DownUnread, TypeOK
<1>12. \A p \in Progs : View(p)' = View(p)
  BY <1>1 DEF View, files
<1>13. SuccessIsLive'
  <2> SUFFICES ASSUME NEW p \in Progs, p \notin told', Settled(p)'
               PROVE  p \in up' /\ (read'[p] # Unread => read'[p] = View(p)')
    BY DEF SuccessIsLive
  <2>1. CASE p # prog(r)
    <3>1. Settled(p) /\ p \notin told
      BY <2>1, <1>3, <1>6, SettledBefore
    <3> QED BY <2>1, <3>1, <1>5, <1>12 DEF SuccessIsLive
  <2>2. CASE p = prog(r)
    <3>0. ~StopProcess(r)
      <4>1. ASSUME StopProcess(r) PROVE pc'[r] = "start" /\ list(r)' = list(r)
        BY <4>1, <1>1, MovesOnly DEF StopProcess, PCs, list
      <4> QED BY <4>1, <2>2, Unsettled
    <3>1. StartProcess(r)
      BY <2>2, <3>0 DEF StopFails, StartFails
    <3>2. p \notin up /\ up' = up \cup {p} /\ read' = read
      BY <2>2, <3>1 DEF StartProcess, Started
    <3> QED BY <3>2 DEF DownUnread
  <2> QED BY <2>1, <2>2
<1>14. EnvIsStored'
  <2> SUFFICES ASSUME "users" \in Lists, "tinyauth" \notin told', Settled("tinyauth")'
               PROVE  env = Rendered(doc)
    BY <1>1 DEF EnvIsStored, files, Rendered
  <2>1. CASE prog(r) = "tinyauth"
    BY <2>1, <1>1, <1>2 DEF EnvFresh
  <2>2. CASE prog(r) # "tinyauth"
    <3>1. "tinyauth" \in Progs \ {prog(r)}
      BY <2>2, ListFacts
    <3>2. Settled("tinyauth") /\ "tinyauth" \notin told
      BY <2>2, <3>1, <1>3, <1>6, SettledBefore
    <3> QED BY <3>2 DEF EnvIsStored
  <2> QED BY <2>1, <2>2
<1>15. EnvFresh'
  <2> SUFFICES ASSUME NEW s \in Reqs, pc'[s] \in {"stop", "start"}, list(s)' = "users"
               PROVE  env = Rendered(doc)
    BY <1>1 DEF EnvFresh, files, Rendered
  <2>1. pc[s] \in {"stop", "start"} /\ list(s) = "users"
    BY <1>1, <1>3 DEF Others, list
  <2> QED BY <2>1 DEF EnvFresh
<1> QED BY <1>7, <1>8, <1>9, <1>10, <1>11, <1>13, <1>14, <1>15

----------------------------------------------------------------------------
(* The programs, a crash, and the invariant.                               *)

\* A program reads its configuration, or exits and is started again.
LEMMA ProgramsKeep ==
  ASSUME LiveInv, NEW p \in Progs, ReadConfig(p) \/ Respawn(p)
  PROVE  LiveInv'
<1> USE DEF LiveInv, ServiceInv
<1>1. UNCHANGED <<files, mu, pc, req, loaded, up, told>> /\ p \in up
  BY DEF ReadConfig, Respawn
<1>2. PICK v \in {Unread, View(p)} : read' = [read EXCEPT ![p] = v]
  BY DEF ReadConfig, Respawn
<1>3. TypeOK'
  BY <1>1, <1>2, ViewTypes DEF TypeOK, files
<1>4. EditFits' /\ MutexHeld' /\ LoadedIsStored' /\ EnvFresh' /\ EnvIsStored'
  BY <1>1 DEF EditFits, MutexHeld, LoadedIsStored, EnvFresh, EnvIsStored, FileOf, list, pkg, prog,
              Rendered, Settled, InFlight, files
<1>5. DownUnread'
  BY <1>1, <1>2 DEF DownUnread, TypeOK
<1>6. SuccessIsLive'
  <2>1. \A q \in Progs : View(q)' = View(q) /\ Settled(q)' = Settled(q)
    BY <1>1 DEF View, files, Settled, InFlight, prog, list
  <2>2. \A q \in Progs : read'[q] = IF q = p THEN v ELSE read[q]
    BY <1>2 DEF TypeOK
  <2> QED BY <1>1, <2>1, <2>2 DEF SuccessIsLive
<1> QED BY <1>3, <1>4, <1>5, <1>6

\* router-manager dies: whatever was on its way is counted as an error.
LEMMA CrashKeeps ==
  ASSUME LiveInv, Crash
  PROVE  LiveInv'
<1> USE DEF LiveInv, ServiceInv
<1>1. UNCHANGED <<files, up, read>> /\ \A r \in Reqs : pc'[r] = "idle"
  BY DEF Crash
<1>2. TypeOK'
  <2>1. told' \subseteq Progs
    BY KindsOf DEF Crash, TypeOK, InFlight
  <2>2. req' \in [Reqs -> Edit]
    BY NoEdits DEF Crash
  <2> QED BY <1>1, <2>1, <2>2 DEF Crash, TypeOK, files
<1>3. EditFits' /\ LoadedIsStored' /\ EnvFresh' /\ DownUnread'
  BY <1>1 DEF EditFits, LoadedIsStored, EnvFresh, DownUnread
<1>4. MutexHeld'
  BY <1>1, ServiceConstants DEF MutexHeld, Crash
<1>5. \A p \in Progs : p \notin told' => p \notin told /\ Settled(p)
  BY DEF Crash, Settled
<1>6. SuccessIsLive'
  <2>1. \A p \in Progs : View(p)' = View(p)
    BY <1>1 DEF View, files
  <2> QED BY <1>1, <1>5, <2>1 DEF SuccessIsLive
<1>7. EnvIsStored'
  <2>1. "users" \in Lists => "tinyauth" \in Progs
    BY ListFacts
  <2> QED BY <1>1, <1>5, <2>1 DEF EnvIsStored, files, Rendered
<1> QED BY <1>2, <1>3, <1>4, <1>6, <1>7

\* The invariant holds at the start ...
LEMMA LiveInit == Init => LiveInv
<1> SUFFICES ASSUME Init PROVE LiveInv
  OBVIOUS
<1> USE DEF Init
<1>1. TypeOK
  BY NoEdits DEF TypeOK, Entry
<1>2. EditFits /\ LoadedIsStored /\ DownUnread /\ EnvFresh
  BY DEF EditFits, LoadedIsStored, DownUnread, EnvFresh
<1>3. MutexHeld
  BY ServiceConstants DEF MutexHeld
<1>4. SuccessIsLive
  BY DEF SuccessIsLive
<1>5. EnvIsStored
  <2> SUFFICES ASSUME "users" \in Lists PROVE env = Rendered(doc)
    BY DEF EnvIsStored
  <2>1. \A n \in Names : doc[<<"users", n>>] \in {Absent, Legacy}
    BY UserSlots
  <2> QED BY <2>1 DEF Rendered
<1> QED BY <1>1, <1>2, <1>3, <1>4, <1>5 DEF LiveInv, ServiceInv

\* ... and every step keeps it.
LEMMA LiveNext ==
  ASSUME LiveInv, UsersApart, [Next]_vars
  PROVE  LiveInv'
<1>1. ASSUME NEW r \in Reqs, Step(r) PROVE LiveInv'
  BY <1>1, ReadKeeps, ErrorsKeep, ListUsersKeeps, SaveKeeps, RenderKeeps, RestartKeeps DEF Step
<1>2. CASE UNCHANGED vars
  <2> USE <1>2 DEF vars, LiveInv, ServiceInv
  <2>0. TypeOK' /\ EditFits' /\ DownUnread'
    BY DEF TypeOK, EditFits, DownUnread, list
  <2>m. MutexHeld'
    BY DEF MutexHeld, list, pkg
  <2>1. LoadedIsStored'
    BY DEF LoadedIsStored, FileOf, list, pkg
  <2>2. EnvFresh' /\ EnvIsStored'
    BY DEF EnvFresh, EnvIsStored, Rendered, Settled, InFlight, list, prog
  <2>3. \A p \in Progs : View(p)' = View(p) /\ Settled(p)' = Settled(p)
    BY DEF View, Settled, InFlight, list, prog
  <2>4. SuccessIsLive'
    BY <2>3 DEF SuccessIsLive
  <2> QED BY <2>0, <2>m, <2>1, <2>2, <2>4
<1> QED BY <1>1, <1>2, ArriveKeeps, ProgramsKeep, CrashKeeps DEF Next

\* With the users' requests, if any, kept apart, the mutexes are held from load to save, what a
\* request writes or renders was read from the file as it is, and a stopped program
\* has read nothing.
THEOREM ServiceInvariant == UsersApart => (Spec => []ServiceInv)
<1> SUFFICES ASSUME UsersApart PROVE Spec => []ServiceInv
  OBVIOUS
<1>1. LiveInv /\ [Next]_vars => LiveInv'
  BY LiveNext
<1>2. LiveInv => ServiceInv
  BY DEF LiveInv
<1> QED BY <1>1, <1>2, LiveInit, PTL DEF Spec

\* Whatever requests, lost calls and crashes come together, a program without an error
\* since its last start runs on the stored configuration, or is about to read it.
THEOREM SuccessMeansLive == UsersApart => (Spec => []SuccessIsLive)
<1> SUFFICES ASSUME UsersApart PROVE Spec => []SuccessIsLive
  OBVIOUS
<1>1. LiveInv /\ [Next]_vars => LiveInv'
  BY LiveNext
<1>2. LiveInv => SuccessIsLive
  BY DEF LiveInv
<1> QED BY <1>1, <1>2, LiveInit, PTL DEF Spec

\* The env file that tinyauth reads is the rendered users file, once its requests are
\* done without an error.
THEOREM EnvFollowsUsers == UsersApart => (Spec => []EnvIsStored)
<1> SUFFICES ASSUME UsersApart PROVE Spec => []EnvIsStored
  OBVIOUS
<1>1. LiveInv /\ [Next]_vars => LiveInv'
  BY LiveNext
<1>2. LiveInv => EnvIsStored
  BY DEF LiveInv
<1> QED BY <1>1, <1>2, LiveInit, PTL DEF Spec

\* No edit undoes another, for any number of concurrent requests.
THEOREM EditsAreKept == UsersApart => (Spec => EditsKept)
<1> SUFFICES ASSUME UsersApart PROVE Spec => EditsKept
  OBVIOUS
<1>1. LiveInv /\ [Next]_vars => LiveInv'
  BY LiveNext
<1>2. ASSUME LiveInv, [Next]_vars
      PROVE  [\E r \in Reqs : /\ pc[r] = "save"
                             /\ \A s \in Slots \ {req[r].slot} : doc'[s] = doc[s]]_doc
  <2>1. ASSUME NEW r \in Reqs, Write(r)
        PROVE  pc[r] = "save" /\ \A s \in Slots \ {req[r].slot} : doc'[s] = doc[s]
    BY <1>2, <2>1, Writes DEF LiveInv, Write
  <2>2. ASSUME NEW r \in Reqs, Step(r) PROVE Write(r) \/ doc' = doc
    BY <2>2 DEF Step, Load, LoadUsers, Read, LoadRefuses, Save, SaveUsers, SaveFails, ListUsers,
       RenderEnvFile, RenderFails, StopProcess, StopFails, StartProcess, AlreadyStarted,
       StartFails, files
  <2>3. (\E r \in Reqs : Write(r)) \/ doc' = doc
    BY <1>2, <2>2 DEF Next, vars, Arrive, ReadConfig, Respawn, Crash, files
  <2> QED BY <2>1, <2>3
<1> QED BY <1>1, <1>2, LiveInit, PTL DEF Spec, EditsKept
=============================================================================
