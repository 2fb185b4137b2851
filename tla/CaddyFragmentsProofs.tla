------------------------ MODULE CaddyFragmentsProofs ------------------------
(***************************************************************************)
(* Proofs about CaddyFragments: what writeAndValidate guarantees, for any  *)
(* number of requests, fragments and texts, as long as no two requests in  *)
(* flight use one name; what a rename guarantees through crashes and torn  *)
(* writes as well; and what caddy serves when requests come one at a time. *)
(***************************************************************************)
EXTENDS CaddyFragments, FiniteSetTheorems, TLAPS

\* The empty request is a request.
LEMMA NoReqType ==
  /\ NoReq \in Request_
  /\ NoReq.op = "none" /\ NoReq.name = NoName /\ NoReq.old = NoName /\ NoReq.text = Missing
  BY DEF NoReq, Locals, Request_, Tree, Text

\* A step of a request in flight that keeps its arguments, or ends it, keeps the
\* shape of the requests and their names apart.
LEMMA Frame ==
  ASSUME TypeOK, ReqShape, NamesApart,
         NEW r \in Reqs, pc[r] # "idle",
         NEW to \in States, pc' = [pc EXCEPT ![r] = to],
         NEW q \in Request_, req' = [req EXCEPT ![r] = q],
         \/ to = "idle" /\ q = NoReq
         \/ /\ to # "idle"
            /\ q.op = req[r].op /\ q.name = req[r].name
            /\ q.old = req[r].old /\ q.text = req[r].text
            /\ to = "unlink" => q.old # NoName
            /\ to \in {"read", "write", "restore"} => q.op # "delete"
  PROVE  /\ ReqShape' /\ NamesApart'
         /\ pc' \in [Reqs -> States] /\ req' \in [Reqs -> Request_]
         /\ \A p \in Reqs : p # r => pc'[p] = pc[p] /\ req'[p] = req[p]
         /\ pc'[r] = to /\ req'[r] = q
<1>1. /\ pc \in [Reqs -> States] /\ req \in [Reqs -> Request_]
  BY DEF TypeOK
<1>2. /\ \A p \in Reqs : p # r => pc'[p] = pc[p] /\ req'[p] = req[p]
      /\ pc'[r] = to /\ req'[r] = q
      /\ pc' \in [Reqs -> States] /\ req' \in [Reqs -> Request_]
  BY <1>1
<1>3. ReqShape'
  <2> SUFFICES ASSUME NEW p \in Reqs
               PROVE  /\ pc'[p] = "idle" => req'[p] = NoReq
                      /\ pc'[p] # "idle" => req'[p].name \in Names /\ req'[p].op # "none"
                      /\ req'[p].op \in {"create", "raw"} => req'[p].old = NoName
                      /\ req'[p].op = "update" => req'[p].old # req'[p].name
                      /\ req'[p].op = "delete" => req'[p].old = req'[p].name /\ req'[p].text = Missing
                      /\ req'[p].op \in {"update", "create"} => req'[p].text # Bad
                      /\ pc'[p] # "idle" /\ req'[p].op # "delete" => req'[p].text # Missing
                      /\ pc'[p] = "unlink" => req'[p].old # NoName
                      /\ pc'[p] \in {"read", "write", "restore"} => req'[p].op # "delete"
    BY DEF ReqShape, NoReq, Locals
  <2>1. CASE p # r
    BY <2>1, <1>2 DEF ReqShape
  <2>2. CASE p = r /\ to = "idle" /\ q = NoReq
    BY <2>2, <1>2, NoReqType
  <2>3. CASE p = r /\ to # "idle"
    BY <2>3, <1>2 DEF ReqShape
  <2> QED BY <2>1, <2>2, <2>3
<1>4. NamesApart'
  <2>1. \A p \in Reqs : pc'[p] # "idle" => /\ pc[p] # "idle"
                                          /\ req'[p].name = req[p].name
                                          /\ req'[p].old = req[p].old
    BY <1>2
  <2> QED BY <2>1 DEF NamesApart, InFlight, Uses
<1> QED BY <1>2, <1>3, <1>4

\* The forms such a step takes: an answer, ...
LEMMA AnswerFrame ==
  ASSUME TypeOK, ReqShape, NamesApart, NEW r \in Reqs, pc[r] # "idle",
         NEW ok, Answer(r, ok)
  PROVE  /\ ReqShape' /\ NamesApart'
         /\ pc' \in [Reqs -> States] /\ req' \in [Reqs -> Request_]
         /\ \A p \in Reqs : p # r => pc'[p] = pc[p] /\ req'[p] = req[p]
         /\ pc'[r] = "idle" /\ req'[r] = NoReq
<1>1. pc' = [pc EXCEPT ![r] = "idle"] /\ req' = [req EXCEPT ![r] = NoReq] /\ "idle" \in States
  BY DEF Answer, Goto, States
<1> QED BY <1>1, NoReqType, Frame

\* ... a jump, ...
LEMMA GotoFrame ==
  ASSUME TypeOK, ReqShape, NamesApart, NEW r \in Reqs, pc[r] # "idle",
         NEW to \in States, to # "idle", Goto(r, to), UNCHANGED req,
         to = "unlink" => req[r].old # NoName,
         to \in {"read", "write", "restore"} => req[r].op # "delete"
  PROVE  /\ ReqShape' /\ NamesApart'
         /\ pc' \in [Reqs -> States] /\ req' \in [Reqs -> Request_]
         /\ \A p \in Reqs : p # r => pc'[p] = pc[p] /\ req'[p] = req[p]
         /\ pc'[r] = to /\ req'[r] = req[r]
<1>1. pc' = [pc EXCEPT ![r] = to] /\ req' = [req EXCEPT ![r] = req[r]] /\ req[r] \in Request_
  BY DEF Goto, TypeOK
<1> QED BY <1>1, Frame

\* ... or a jump that sets one of the locals prev and snap.
LEMMA SetFrame ==
  ASSUME TypeOK, ReqShape, NamesApart, NEW r \in Reqs, pc[r] # "idle",
         NEW to \in {"write", "load"}, Goto(r, to),
         NEW x \in Text \cup {Missing}, NEW tree \in Tree,
         req' = [req EXCEPT ![r].prev = x] \/ req' = [req EXCEPT ![r].snap = tree],
         to = "write" => req[r].op # "delete"
  PROVE  /\ ReqShape' /\ NamesApart'
         /\ pc' \in [Reqs -> States] /\ req' \in [Reqs -> Request_]
         /\ \A p \in Reqs : p # r => pc'[p] = pc[p] /\ req'[p] = req[p]
         /\ pc'[r] = to
         /\ req'[r].op = req[r].op /\ req'[r].name = req[r].name
         /\ req'[r].old = req[r].old /\ req'[r].text = req[r].text
         /\ req' = [req EXCEPT ![r].prev = x] => req'[r].prev = x
<1>1. pc' = [pc EXCEPT ![r] = to] /\ req[r] \in Request_ /\ to \in States /\ to # "idle" /\ to # "unlink"
  BY DEF Goto, TypeOK, States
<1>2. PICK q \in Request_ : /\ req' = [req EXCEPT ![r] = q]
                            /\ q.op = req[r].op /\ q.name = req[r].name
                            /\ q.old = req[r].old /\ q.text = req[r].text
                            /\ req' = [req EXCEPT ![r].prev = x] => q.prev = x
  <2>1. CASE req' = [req EXCEPT ![r].prev = x]
    <3>1. PICK q : q = [req[r] EXCEPT !.prev = x]
      OBVIOUS
    <3>2. q \in Request_ /\ q.op = req[r].op /\ q.name = req[r].name
          /\ q.old = req[r].old /\ q.text = req[r].text /\ q.prev = x
      BY <1>1, <3>1 DEF Request_
    <3> QED BY <2>1, <3>1, <3>2
  <2>2. CASE req' = [req EXCEPT ![r].snap = tree] /\ req' # [req EXCEPT ![r].prev = x]
    <3>1. PICK q : q = [req[r] EXCEPT !.snap = tree]
      OBVIOUS
    <3>2. q \in Request_ /\ q.op = req[r].op /\ q.name = req[r].name
          /\ q.old = req[r].old /\ q.text = req[r].text
      BY <1>1, <3>1 DEF Request_
    <3> QED BY <2>2, <3>1, <3>2
  <2> QED BY <2>1, <2>2
<1>3. /\ ReqShape' /\ NamesApart'
      /\ pc' \in [Reqs -> States] /\ req' \in [Reqs -> Request_]
      /\ \A p \in Reqs : p # r => pc'[p] = pc[p] /\ req'[p] = req[p]
      /\ pc'[r] = to /\ req'[r] = q
  BY <1>1, <1>2, Frame
<1> QED BY <1>2, <1>3

\* A request arrives whose arguments are well formed and whose names nobody uses.
LEMMA ArriveFrame ==
  ASSUME Distinct \/ InFlight = {}, TypeOK, ReqShape, NamesApart, NEW r \in Reqs,
         NEW op \in {"create", "update", "raw", "delete"}, NEW n \in Names,
         NEW old \in Names \cup {NoName}, NEW t \in Text \cup {Missing},
         NEW to \in {"read", "unlink"},
         Arrive(r, Locals(op, n, old, t), to),
         op = "update" => old # n,
         op \in {"create", "raw"} => old = NoName,
         op = "delete" => old = n /\ t = Missing /\ to = "unlink",
         op # "delete" => t # Missing /\ to = "read",
         op \in {"update", "create"} => t # Bad
  PROVE  /\ ReqShape' /\ NamesApart'
         /\ pc' \in [Reqs -> States] /\ req' \in [Reqs -> Request_]
         /\ \A p \in Reqs : p # r => pc'[p] = pc[p] /\ req'[p] = req[p]
         /\ pc[r] = "idle" /\ pc'[r] = to /\ req'[r] = Locals(op, n, old, t)
         /\ \A p \in InFlight : Uses(p) \cap {n, old} \subseteq {NoName}
         /\ UNCHANGED <<file, live, up, norm, saved, clean>>
<1> DEFINE q == Locals(op, n, old, t)
<1>1. /\ q \in Request_ /\ q.op = op /\ q.name = n /\ q.old = old /\ q.text = t
  BY DEF Locals, Request_, Tree, Text
<1>2. PICK l : l = q
  OBVIOUS
<1>3. l \in Request_ /\ l.op = op /\ l.name = n /\ l.old = old /\ l.text = t
  BY <1>1, <1>2
<1>4. /\ pc[r] = "idle" /\ pc' = [pc EXCEPT ![r] = to] /\ req' = [req EXCEPT ![r] = l]
      /\ \A p \in InFlight : Uses(p) \cap {n, old} \subseteq {NoName}
      /\ UNCHANGED <<file, live, up, norm, saved, clean>>
  <2>1. q.name = n /\ q.old = old
    BY <1>1
  <2> QED BY <2>1, <1>2 DEF Arrive, Goto
<1> HIDE DEF q
<1>5. /\ pc' \in [Reqs -> States] /\ req' \in [Reqs -> Request_]
      /\ \A p \in Reqs : p # r => pc'[p] = pc[p] /\ req'[p] = req[p]
      /\ pc'[r] = to /\ req'[r] = l
  BY <1>3, <1>4 DEF TypeOK, States
<1>6. ReqShape'
  <2> SUFFICES ASSUME NEW p \in Reqs
               PROVE  /\ pc'[p] = "idle" => req'[p] = NoReq
                      /\ pc'[p] # "idle" => req'[p].name \in Names /\ req'[p].op # "none"
                      /\ req'[p].op \in {"create", "raw"} => req'[p].old = NoName
                      /\ req'[p].op = "update" => req'[p].old # req'[p].name
                      /\ req'[p].op = "delete" => req'[p].old = req'[p].name /\ req'[p].text = Missing
                      /\ req'[p].op \in {"update", "create"} => req'[p].text # Bad
                      /\ pc'[p] # "idle" /\ req'[p].op # "delete" => req'[p].text # Missing
                      /\ pc'[p] = "unlink" => req'[p].old # NoName
                      /\ pc'[p] \in {"read", "write", "restore"} => req'[p].op # "delete"
    BY DEF ReqShape, NoReq, Locals
  <2>1. CASE p # r
    BY <2>1, <1>5 DEF ReqShape
  <2>2. CASE p = r
    BY <2>2, <1>3, <1>5, FragmentSets
  <2> QED BY <2>1, <2>2
<1>7. NamesApart'
  <2>1. /\ \A p \in Reqs : p # r => req'[p].name = req[p].name /\ req'[p].old = req[p].old
        /\ req'[r].name = n /\ req'[r].old = old
    BY <1>3, <1>5
  <2> QED BY <1>4, <1>5, <2>1 DEF NamesApart, InFlight, Uses
<1> QED BY <1>2, <1>4, <1>5, <1>6, <1>7 DEF q

----------------------------------------------------------------------------
(* The steps of a request when no write is torn.                           *)

WholeWriteFails(r) ==
  /\ pc[r] = "write"
  /\ Answer(r, FALSE)
  /\ UNCHANGED <<file, live, up, norm, saved>>

WholeRestore(r) ==
  /\ pc[r] = "restore"
  /\ file' = [file EXCEPT ![req[r].name] = req[r].prev]
  /\ Answer(r, FALSE)
  /\ UNCHANGED <<live, up, norm, saved>>

\* Unlink by whether the file is still there.
UnlinkThere(r) ==
  /\ pc[r] = "unlink"
  /\ file[req[r].old] # Missing
  /\ file' = [file EXCEPT ![req[r].old] = Missing]
  /\ Goto(r, IF req[r].op = "delete" THEN "adapt" ELSE "reload")
  /\ UNCHANGED <<live, up, req, norm, saved, clean>>

UnlinkGone(r) ==
  /\ pc[r] = "unlink"
  /\ file[req[r].old] = Missing
  /\ Answer(r, FALSE)
  /\ UNCHANGED <<file, live, up, norm, saved>>

WholeStep(r) ==
  \/ ReadPrevious(r) \/ WriteFragment(r) \/ WholeWriteFails(r)
  \/ AdaptOk(r) \/ AdaptFails(r) \/ WholeRestore(r)
  \/ UnlinkThere(r) \/ UnlinkGone(r) \/ DeleteAdaptFails(r)
  \/ ReadTree(r) \/ Load(r) \/ ReloadFails(r)

LEMMA WholeSteps ==
  ASSUME ~MayTear, NEW r \in Reqs, Step(r)
  PROVE  WholeStep(r)
<1>1. WriteFails(r) => WholeWriteFails(r)
  BY DEF WriteFails, WholeWriteFails, Torn
<1>2. Restore(r) => WholeRestore(r)
  BY DEF Restore, WholeRestore
<1>3. Unlink(r) => UnlinkThere(r) \/ UnlinkGone(r)
  BY DEF Unlink, UnlinkThere, UnlinkGone
<1> QED BY <1>1, <1>2, <1>3 DEF Step, WholeStep

----------------------------------------------------------------------------
(* The tree adapts whenever nothing is in flight.                          *)

LEMMA TreeInit == Init => TreeInv
<1> SUFFICES ASSUME Init PROVE TreeInv
  OBVIOUS
<1>1. TypeOK
  BY NoReqType, FragmentSets DEF Init, TypeOK, Tree, Text, States, Booting
<1>2. ReqShape
  BY NoReqType, FragmentSets DEF Init, ReqShape
<1>3. NamesApart /\ BadOwned /\ PrevGood
  BY FragmentSets DEF Init, NamesApart, InFlight, BadOwned, PrevGood
<1> QED BY <1>1, <1>2, <1>3 DEF TreeInv

\* What a change of one fragment leaves of the tree's type.
LEMMA FileType ==
  ASSUME TypeOK, NEW n, NEW t \in Text \cup {Missing}, file' = [file EXCEPT ![n] = t]
  PROVE  file' \in Tree
  BY DEF TypeOK, Tree

\* Requests in flight that share a name are one.
LEMMA SameName ==
  ASSUME ReqShape, NamesApart, NEW p \in Reqs, NEW q \in Reqs,
         pc[p] # "idle", pc[q] # "idle", req[p].name = req[q].name
  PROVE  p = q
<1>1. req[p].name \in Names /\ req[p].name \in Uses(p) /\ req[p].name \in Uses(q)
  BY DEF ReqShape, Uses
<1>2. p \in InFlight /\ q \in InFlight
  BY DEF InFlight
<1> QED BY <1>1, <1>2, FragmentSets DEF NamesApart

LEMMA TreeNext ==
  ASSUME Distinct, ~MayCrash, ~MayTear, TreeInv, [Next]_vars
  PROVE  TreeInv'
<1> USE DEF TreeInv
<1>q. \A r \in Reqs : req[r] \in Request_ /\ pc[r] \in States
  BY DEF TypeOK
<1>x. \A r \in Reqs : /\ req[r].text \in Text \cup {Missing} /\ req[r].prev \in Text \cup {Missing}
                      /\ req[r].snap \in Tree
  BY <1>q DEF Request_
<1>a. ASSUME NEW r \in Reqs, Request(r) PROVE TreeInv'
  <2>1. PICK op \in {"create", "update", "raw", "delete"}, n \in Names, old \in Names \cup {NoName},
             t \in Text \cup {Missing}, to \in {"read", "unlink"} :
          /\ Arrive(r, Locals(op, n, old, t), to)
          /\ op = "update" => old # n
          /\ op \in {"create", "raw"} => old = NoName
          /\ op = "delete" => old = n /\ t = Missing /\ to = "unlink"
          /\ op # "delete" => t # Missing /\ to = "read"
          /\ op \in {"update", "create"} => t # Bad
    BY <1>a, FragmentSets DEF Request, Create, UpdateStructured, UpdateRaw, Delete, Text
  <2>2. /\ ReqShape' /\ NamesApart'
        /\ pc' \in [Reqs -> States] /\ req' \in [Reqs -> Request_]
        /\ \A p \in Reqs : p # r => pc'[p] = pc[p] /\ req'[p] = req[p]
        /\ pc[r] = "idle" /\ pc'[r] = to
        /\ UNCHANGED <<file, live, up, norm, saved, clean>>
    BY <2>1, ArriveFrame
  <2>3. TypeOK'
    BY <2>2 DEF TypeOK
  <2>4. BadOwned' /\ PrevGood'
    BY <2>2 DEF BadOwned, PrevGood
  <2> QED BY <2>2, <2>3, <2>4
<1>b. ASSUME NEW r \in Reqs, Step(r) PROVE TreeInv'
  <2>1. CASE ReadPrevious(r)
    <3> USE <2>1 DEF ReadPrevious
    <3>h. file[req[r].name] \in Text \cup {Missing} /\ req[r].op # "delete"
      BY DEF ReqShape, TypeOK, Tree
    <3>f. /\ ReqShape' /\ NamesApart'
          /\ pc' \in [Reqs -> States] /\ req' \in [Reqs -> Request_]
          /\ \A p \in Reqs : p # r => pc'[p] = pc[p] /\ req'[p] = req[p]
          /\ pc'[r] = "write" /\ req'[r].prev = file[req[r].name]
      BY <3>h, SetFrame DEF TypeOK
    <3>k. file[req[r].name] # Bad
      BY SameName DEF BadOwned, ReqShape
    <3>t. TypeOK'
      BY <1>x, <3>f DEF TypeOK
    <3>b. BadOwned'
      BY <3>f DEF BadOwned
    <3>p. PrevGood'
      BY <3>f, <3>k DEF PrevGood
    <3> QED BY <3>f, <3>t, <3>b, <3>p
  <2>2. CASE WriteFragment(r)
    <3> USE <2>2 DEF WriteFragment
    <3>f. /\ ReqShape' /\ NamesApart'
          /\ pc' \in [Reqs -> States] /\ req' \in [Reqs -> Request_]
          /\ \A p \in Reqs : p # r => pc'[p] = pc[p] /\ req'[p] = req[p]
          /\ pc'[r] = "adapt" /\ req'[r] = req[r]
      BY GotoFrame DEF States
    <3>g. file' \in Tree
      BY <1>x, FileType
    <3>h. req[r].op # "delete" /\ req[r].name \in Names
      BY DEF ReqShape
    <3>k. \A n \in Names : n # req[r].name => file'[n] = file[n]
      BY DEF TypeOK, Tree
    <3>t. TypeOK'
      BY <1>x, <3>f, <3>g DEF TypeOK
    <3>b. BadOwned'
      BY <3>f, <3>h, <3>k DEF BadOwned
    <3>p. PrevGood'
      BY <3>f DEF PrevGood
    <3> QED BY <3>f, <3>t, <3>b, <3>p
  <2>3. CASE WholeWriteFails(r)
    <3> USE <2>3 DEF WholeWriteFails
    <3>f. /\ ReqShape' /\ NamesApart'
          /\ pc' \in [Reqs -> States] /\ req' \in [Reqs -> Request_]
          /\ \A p \in Reqs : p # r => pc'[p] = pc[p] /\ req'[p] = req[p]
          /\ pc'[r] = "idle"
          /\ pc[r] # "idle"
      BY AnswerFrame
    <3>c. clean' \in BOOLEAN
      BY DEF Answer
    <3>t. TypeOK'
      BY <1>x, <3>f, <3>c DEF TypeOK
    <3>b. BadOwned'
      BY <3>f DEF BadOwned
    <3>p. PrevGood'
      BY <3>f DEF PrevGood
    <3> QED BY <3>f, <3>t, <3>b, <3>p
  <2>4. CASE AdaptOk(r)
    <3> USE <2>4 DEF AdaptOk
    <3>h. PICK to \in {"unlink", "reload"} : Goto(r, to) /\ (to = "unlink" => req[r].old # NoName)
      OBVIOUS
    <3>f. /\ ReqShape' /\ NamesApart'
          /\ pc' \in [Reqs -> States] /\ req' \in [Reqs -> Request_]
          /\ \A p \in Reqs : p # r => pc'[p] = pc[p] /\ req'[p] = req[p]
          /\ pc'[r] = to /\ req'[r] = req[r]
      BY <3>h, GotoFrame DEF States
    <3>t. TypeOK'
      BY <1>x, <3>f DEF TypeOK
    <3>b. BadOwned'
      BY <3>f DEF Adapts, BadOwned
    <3>p. PrevGood'
      BY <3>f DEF PrevGood
    <3> QED BY <3>f, <3>t, <3>b, <3>p
  <2>5. CASE AdaptFails(r)
    <3> USE <2>5 DEF AdaptFails
    <3>f. /\ ReqShape' /\ NamesApart'
          /\ pc' \in [Reqs -> States] /\ req' \in [Reqs -> Request_]
          /\ \A p \in Reqs : p # r => pc'[p] = pc[p] /\ req'[p] = req[p]
          /\ pc'[r] = "restore" /\ req'[r] = req[r]
      BY GotoFrame DEF States
    <3>t. TypeOK'
      BY <1>x, <3>f DEF TypeOK
    <3>b. BadOwned'
      BY <3>f DEF BadOwned
    <3>p. PrevGood'
      BY <3>f DEF PrevGood
    <3> QED BY <3>f, <3>t, <3>b, <3>p
  <2>6. CASE WholeRestore(r)
    <3> USE <2>6 DEF WholeRestore
    <3>f. /\ ReqShape' /\ NamesApart'
          /\ pc' \in [Reqs -> States] /\ req' \in [Reqs -> Request_]
          /\ \A p \in Reqs : p # r => pc'[p] = pc[p] /\ req'[p] = req[p]
          /\ pc'[r] = "idle"
          /\ pc[r] # "idle"
      BY AnswerFrame
    <3>c. clean' \in BOOLEAN
      BY DEF Answer
    <3>g. file' \in Tree /\ req[r].name \in Names
      BY <1>x, FileType DEF ReqShape
    <3>k. /\ \A n \in Names : n # req[r].name => file'[n] = file[n]
          /\ file'[req[r].name] = req[r].prev /\ req[r].prev # Bad
      BY <3>g DEF TypeOK, Tree, PrevGood, ReqShape
    <3>t. TypeOK'
      BY <1>x, <3>f, <3>c, <3>g DEF TypeOK
    <3>b. BadOwned'
      BY <3>f, <3>g, <3>k DEF BadOwned
    <3>p. PrevGood'
      BY <3>f DEF PrevGood
    <3> QED BY <3>f, <3>t, <3>b, <3>p
  <2>7. CASE UnlinkThere(r)
    <3> USE <2>7 DEF UnlinkThere
    <3>h. PICK to \in {"adapt", "reload"} : Goto(r, to) /\ (to = "adapt" => req[r].op = "delete")
      OBVIOUS
    <3>f. /\ ReqShape' /\ NamesApart'
          /\ pc' \in [Reqs -> States] /\ req' \in [Reqs -> Request_]
          /\ \A p \in Reqs : p # r => pc'[p] = pc[p] /\ req'[p] = req[p]
          /\ pc'[r] = to /\ req'[r] = req[r]
      BY <3>h, GotoFrame DEF States
    <3>g. file' \in Tree
      BY <1>x, FileType
    <3>k. \A n \in Names : file'[n] = file[n] \/ file'[n] = Missing
      BY DEF TypeOK, Tree
    <3>t. TypeOK'
      BY <1>x, <3>f, <3>g DEF TypeOK
    <3>b. BadOwned'
      BY <3>f, <3>k, FragmentSets DEF BadOwned
    <3>p. PrevGood'
      BY <3>f, <3>h DEF PrevGood
    <3> QED BY <3>f, <3>t, <3>b, <3>p
  <2>8. CASE UnlinkGone(r)
    <3> USE <2>8 DEF UnlinkGone
    <3>f. /\ ReqShape' /\ NamesApart'
          /\ pc' \in [Reqs -> States] /\ req' \in [Reqs -> Request_]
          /\ \A p \in Reqs : p # r => pc'[p] = pc[p] /\ req'[p] = req[p]
          /\ pc'[r] = "idle"
          /\ pc[r] # "idle"
      BY AnswerFrame
    <3>c. clean' \in BOOLEAN
      BY DEF Answer
    <3>t. TypeOK'
      BY <1>x, <3>f, <3>c DEF TypeOK
    <3>b. BadOwned'
      BY <3>f DEF BadOwned
    <3>p. PrevGood'
      BY <3>f DEF PrevGood
    <3> QED BY <3>f, <3>t, <3>b, <3>p
  <2>9. CASE DeleteAdaptFails(r)
    <3> USE <2>9 DEF DeleteAdaptFails
    <3>f. /\ ReqShape' /\ NamesApart'
          /\ pc' \in [Reqs -> States] /\ req' \in [Reqs -> Request_]
          /\ \A p \in Reqs : p # r => pc'[p] = pc[p] /\ req'[p] = req[p]
          /\ pc'[r] = "idle"
          /\ pc[r] # "idle"
      BY AnswerFrame
    <3>c. clean' \in BOOLEAN
      BY DEF Answer
    <3>r. saved' \in Tree
      BY <1>x DEF Reported, Tree, TypeOK
    <3>t. TypeOK'
      BY <1>x, <3>f, <3>c, <3>r DEF TypeOK
    <3>b. BadOwned'
      BY <3>f DEF BadOwned
    <3>p. PrevGood'
      BY <3>f DEF PrevGood
    <3> QED BY <3>f, <3>t, <3>b, <3>p
  <2>10. CASE ReadTree(r)
    <3> USE <2>10 DEF ReadTree
    <3>h. file \in Tree
      BY DEF TypeOK
    <3>f. /\ ReqShape' /\ NamesApart'
          /\ pc' \in [Reqs -> States] /\ req' \in [Reqs -> Request_]
          /\ \A p \in Reqs : p # r => pc'[p] = pc[p] /\ req'[p] = req[p]
          /\ pc'[r] = "load"
      BY <3>h, SetFrame
    <3>t. TypeOK'
      BY <1>x, <3>f, <3>h DEF TypeOK
    <3>b. BadOwned'
      BY <3>f DEF BadOwned
    <3>p. PrevGood'
      BY <3>f DEF PrevGood
    <3> QED BY <3>f, <3>t, <3>b, <3>p
  <2>11. CASE Load(r)
    <3> USE <2>11 DEF Load
    <3>f. /\ ReqShape' /\ NamesApart'
          /\ pc' \in [Reqs -> States] /\ req' \in [Reqs -> Request_]
          /\ \A p \in Reqs : p # r => pc'[p] = pc[p] /\ req'[p] = req[p]
          /\ pc'[r] = "idle"
          /\ pc[r] # "idle"
      BY AnswerFrame
    <3>c. clean' \in BOOLEAN
      BY DEF Answer
    <3>r. saved' \in Tree
      BY <1>x DEF Reported, Tree, TypeOK
    <3>t. TypeOK'
      BY <1>x, <3>f, <3>c, <3>r DEF TypeOK
    <3>b. BadOwned'
      BY <3>f DEF BadOwned
    <3>p. PrevGood'
      BY <3>f DEF PrevGood
    <3> QED BY <3>f, <3>t, <3>b, <3>p
  <2>12. CASE ReloadFails(r)
    <3> USE <2>12 DEF ReloadFails
    <3>f. /\ ReqShape' /\ NamesApart'
          /\ pc' \in [Reqs -> States] /\ req' \in [Reqs -> Request_]
          /\ \A p \in Reqs : p # r => pc'[p] = pc[p] /\ req'[p] = req[p]
          /\ pc'[r] = "idle"
          /\ pc[r] # "idle"
      BY AnswerFrame
    <3>c. clean' \in BOOLEAN
      BY DEF Answer
    <3>r. saved' \in Tree
      BY <1>x DEF Reported, Tree, TypeOK
    <3>t. TypeOK'
      BY <1>x, <3>f, <3>c, <3>r DEF TypeOK
    <3>b. BadOwned'
      BY <3>f DEF BadOwned
    <3>p. PrevGood'
      BY <3>f DEF PrevGood
    <3> QED BY <3>f, <3>t, <3>b, <3>p
  <2> QED BY <1>b, WholeSteps, <2>1, <2>2, <2>3, <2>4, <2>5, <2>6, <2>7, <2>8, <2>9, <2>10, <2>11, <2>12 DEF WholeStep
<1>c. CASE \E n \in Names : NormalizeRead(n)
  <2>1. PICK n \in Names : NormalizeRead(n)
    BY <1>c
  <2>2. TypeOK'
    BY <2>1 DEF NormalizeRead, TypeOK
  <2>3. ReqShape' /\ NamesApart' /\ BadOwned' /\ PrevGood'
    BY <2>1 DEF NormalizeRead, ReqShape, NoReq, Locals, NamesApart, InFlight, Uses, BadOwned, PrevGood
  <2> QED BY <2>2, <2>3
<1>d. CASE NormalizeWrite
  <2>1. Rendered(norm.text) \in Texts
    BY FragmentSets DEF Rendered
  <2>2. /\ file' \in Tree
        /\ \A n \in Names : file'[n] = file[n] \/ file'[n] \in Texts
    BY <1>d, <2>1 DEF NormalizeWrite, TypeOK, Tree, Text
  <2>3. TypeOK'
    BY <1>d, <2>2 DEF NormalizeWrite, TypeOK
  <2>4. BadOwned'
    BY <1>d, <2>2, FragmentSets DEF NormalizeWrite, BadOwned
  <2>5. ReqShape' /\ NamesApart' /\ PrevGood'
    BY <1>d DEF NormalizeWrite, ReqShape, NoReq, Locals, NamesApart, InFlight, Uses, PrevGood
  <2> QED BY <2>3, <2>4, <2>5
<1>e. CASE NormalizeWriteFails \/ NormalizeReload \/ NormalizeGivesUp \/ handleReload \/ CaddyStops \/ CaddyStarts
  <2>1. TypeOK'
    BY <1>e DEF NormalizeWriteFails, Torn, NormalizeReload, NormalizeGivesUp, handleReload, CaddyStops, CaddyStarts, TypeOK
  <2>2. UNCHANGED <<file, pc, req>>
    BY <1>e DEF NormalizeWriteFails, Torn, NormalizeReload, NormalizeGivesUp, handleReload, CaddyStops, CaddyStarts
  <2> QED BY <2>1, <2>2 DEF ReqShape, NoReq, Locals, NamesApart, InFlight, Uses, BadOwned, PrevGood
<1>g. CASE UNCHANGED vars
  BY <1>g DEF vars, TypeOK, ReqShape, NoReq, Locals, NamesApart, InFlight, Uses, BadOwned, PrevGood
<1>h. ~Crash
  BY DEF Crash
<1> QED BY <1>a, <1>b, <1>c, <1>d, <1>e, <1>g, <1>h DEF Next

\* As long as requests in flight use distinct names and the process stays up, no
\* rejected text is ever left behind: whenever nothing is in flight, the whole
\* tree adapts (writeAndValidate, Normalize).
THEOREM TreeStaysValid ==
  ASSUME Distinct, ~MayCrash, ~MayTear
  PROVE  Spec => []TreeAdapts
<1>1. TreeInv => TreeAdapts
  BY DEF TreeInv, BadOwned, TreeAdapts, AtRest, Adapts, InFlight
<1>2. TreeInv /\ [Next]_vars => TreeInv'
  BY TreeNext
<1> QED BY <1>1, <1>2, TreeInit, PTL DEF Spec

----------------------------------------------------------------------------
(* The disk holds what the answers said it holds.                          *)

LEMMA DiskInit == ASSUME ~Boot, Init PROVE DiskInv
<1>1. TypeOK /\ ReqShape /\ NamesApart
  BY TreeInit DEF TreeInv
<1>2. InFlight = {} /\ Untouched /\ Settled
  BY DEF Init, InFlight, Untouched, Settled, Booting
<1> QED BY <1>1, <1>2 DEF DiskInv

\* A step of one request changes only the fragments it uses, so what is pending
\* for the others stays pending, and DiskInv follows from its own two cases.
LEMMA DiskStep ==
  ASSUME TreeInv, DiskInv, TreeInv', NEW r \in Reqs, pc[r] # "idle", UNCHANGED norm,
         \A p \in Reqs : p # r => pc'[p] = pc[p] /\ req'[p] = req[p],
         \A n \in Names : n \notin Uses(r) => file'[n] = file[n] /\ saved'[n] = saved[n],
         \/ /\ pc'[r] # "idle"
            /\ req'[r].name = req[r].name /\ req'[r].old = req[r].old
            /\ Pending(r)'
         \/ /\ pc'[r] = "idle"
            /\ \A n \in Names : n \in Uses(r) => file'[n] = saved'[n]
  PROVE  DiskInv'
<1>1. ASSUME NEW p \in Reqs, p # r, pc[p] # "idle" PROVE Pending(p)'
  <2>1. /\ pc'[p] = pc[p] /\ req'[p] = req[p] /\ Pending(p)
        /\ req[p].name \in Names /\ req[p].old \in Names \cup {NoName}
    BY <1>1 DEF DiskInv, InFlight, TreeInv, TypeOK, ReqShape, Request_
  <2>2. Uses(p) \cap Uses(r) \subseteq {NoName}
    BY <1>1 DEF TreeInv, NamesApart, InFlight
  <2>3. /\ req[p].name \notin Uses(r)
        /\ req[p].old # NoName => req[p].old \in Names /\ req[p].old \notin Uses(r)
    BY <2>1, <2>2, FragmentSets DEF Uses
  <2>4. /\ file'[req[p].name] = file[req[p].name] /\ saved'[req[p].name] = saved[req[p].name]
        /\ req[p].old # NoName => /\ file'[req[p].old] = file[req[p].old]
                                 /\ saved'[req[p].old] = saved[req[p].old]
    BY <2>1, <2>3
  <2> QED BY <2>1, <2>4 DEF Pending
<1>2. \A p \in InFlight' : Pending(p)'
  BY <1>1 DEF InFlight
<1>3. Untouched'
  <2> SUFFICES ASSUME NEW n \in Names, \A p \in InFlight' : n \notin Uses(p)'
               PROVE  file'[n] = saved'[n]
    BY DEF Untouched
  <2>1. \A p \in InFlight : p # r => n \notin Uses(p)
    BY DEF InFlight, Uses
  <2>2. CASE n \in Uses(r)
    BY <2>2 DEF InFlight, Uses
  <2>3. CASE n \notin Uses(r)
    BY <2>1, <2>3 DEF DiskInv, Untouched
  <2> QED BY <2>2, <2>3
<1>4. Settled'
  BY DEF DiskInv, Settled
<1> QED BY <1>2, <1>3, <1>4 DEF DiskInv, TreeInv

LEMMA DiskNext ==
  ASSUME Distinct, ~MayCrash, ~MayTear, TreeInv, DiskInv, [Next]_vars
  PROVE  DiskInv'
<1>0. TreeInv'
  BY TreeNext
<1>t. /\ TypeOK /\ ReqShape /\ NamesApart /\ Untouched /\ Settled
      /\ pc \in [Reqs -> States] /\ req \in [Reqs -> Request_]
      /\ file \in Tree /\ saved \in Tree
      /\ \A r \in InFlight : Pending(r)
  BY DEF DiskInv, TypeOK
<1>f. file \in Tree /\ saved \in Tree
  BY <1>t
<1>q. \A r \in Reqs : /\ req[r] \in Request_
                      /\ req[r].name \in Names \cup {NoName} /\ req[r].old \in Names \cup {NoName}
                      /\ req[r].text \in Text \cup {Missing}
  BY <1>t DEF Request_
<1>a. ASSUME NEW r \in Reqs, Request(r) PROVE DiskInv'
  <2>1. PICK op \in {"create", "update", "raw", "delete"}, n \in Names, old \in Names \cup {NoName},
             t \in Text \cup {Missing}, to \in {"read", "unlink"} :
          /\ Arrive(r, Locals(op, n, old, t), to)
          /\ op = "update" => old # n
          /\ op \in {"create", "raw"} => old = NoName
          /\ old # NoName => file[old] # Missing
          /\ op = "delete" => old = n /\ t = Missing /\ to = "unlink"
          /\ op # "delete" => t # Missing /\ to = "read"
          /\ op \in {"update", "create"} => t # Bad
    BY <1>a, FragmentSets DEF Request, Create, UpdateStructured, UpdateRaw, Delete, Text
  <2>2. /\ \A p \in Reqs : p # r => pc'[p] = pc[p] /\ req'[p] = req[p]
        /\ pc[r] = "idle" /\ pc'[r] = to /\ req'[r] = Locals(op, n, old, t)
        /\ \A p \in InFlight : Uses(p) \cap {n, old} \subseteq {NoName}
        /\ UNCHANGED <<file, live, up, norm, saved, clean>>
    <3>1. TypeOK /\ ReqShape /\ NamesApart
      BY <1>t
    <3> QED BY <2>1, <3>1, ArriveFrame
  <2>3. /\ req'[r].op = op /\ req'[r].name = n /\ req'[r].old = old
    BY <2>2 DEF Locals
  <2>4. \A m \in {n, old} : m # NoName => file[m] = saved[m]
    BY <1>t, <2>2 DEF Untouched
  <2>5. Pending(r)'
    <3>1. CASE op = "delete"
      BY <2>1, <2>2, <2>3, <2>4, <3>1, FragmentSets DEF Pending
    <3>2. CASE op # "delete"
      <4>1. /\ pc'[r] = "read" /\ file'[n] = saved'[n]
            /\ old # NoName => file'[old] = saved'[old] /\ file'[old] # Missing
        BY <2>1, <2>2, <2>4, <3>2, FragmentSets
      <4>2. req'[r].old \in {n, old} /\ req'[r].op # "delete" /\ req'[r].name = n
        BY <2>3, <3>2
      <4> QED BY <2>3, <4>1, <4>2 DEF Pending
    <3> QED BY <3>1, <3>2
  <2>6. \A p \in Reqs : p # r /\ pc[p] # "idle" => Pending(p)'
    BY <1>t, <2>2 DEF Pending, InFlight
  <2>7. \A p \in InFlight' : Pending(p)'
    BY <2>2, <2>5, <2>6 DEF InFlight
  <2>8. Untouched'
    <3> SUFFICES ASSUME NEW m \in Names, \A p \in InFlight' : m \notin Uses(p)'
                 PROVE  file'[m] = saved'[m]
      BY DEF Untouched
    <3>1. \A p \in InFlight : m \notin Uses(p)
      BY <2>2 DEF InFlight, Uses
    <3> QED BY <1>t, <2>2, <3>1 DEF Untouched
  <2> QED BY <1>0, <1>t, <2>2, <2>7, <2>8 DEF DiskInv, TreeInv, Settled
<1>b. ASSUME NEW r \in Reqs, Step(r) PROVE DiskInv'
  <2>0. pc[r] # "idle" =>
          /\ r \in InFlight /\ Pending(r) /\ req[r].name \in Names
          /\ req[r].op = "delete" => req[r].old = req[r].name /\ req[r].text = Missing
          /\ req[r].op = "update" => req[r].old # req[r].name
          /\ req[r].op \in {"create", "raw"} => req[r].old = NoName
          /\ req[r].op \in {"create", "raw", "update", "delete"}
          /\ pc[r] = "unlink" => req[r].old \in Names
          /\ pc[r] \in {"read", "write", "restore"} => req[r].op # "delete"
    <3> SUFFICES ASSUME pc[r] # "idle"
                 PROVE  /\ r \in InFlight /\ Pending(r) /\ req[r].name \in Names
                        /\ req[r].op = "delete" => req[r].old = req[r].name /\ req[r].text = Missing
                        /\ req[r].op = "update" => req[r].old # req[r].name
                        /\ req[r].op \in {"create", "raw"} => req[r].old = NoName
                        /\ req[r].op \in {"create", "raw", "update", "delete"}
                        /\ pc[r] = "unlink" => req[r].old \in Names
                        /\ pc[r] \in {"read", "write", "restore"} => req[r].op # "delete"
      OBVIOUS
    <3>1. req[r].op \in {"none", "create", "update", "raw", "delete"}
      BY <1>q DEF Request_
    <3> QED BY <1>t, <1>q, <3>1 DEF InFlight, ReqShape
  <2>u. Uses(r) = {req[r].name, req[r].old}
    BY DEF Uses
  <2>1. CASE ReadPrevious(r)
    <3> USE <2>1 DEF ReadPrevious, Goto
    <3>1. /\ pc[r] # "idle" /\ pc'[r] # "idle" /\ UNCHANGED <<saved, norm>>
          /\ \A p \in Reqs : p # r => pc'[p] = pc[p] /\ req'[p] = req[p]
          /\ req'[r].op = req[r].op /\ req'[r].name = req[r].name
          /\ req'[r].old = req[r].old /\ req'[r].text = req[r].text
      BY <1>t, <1>q DEF Request_
    <3>2. \A n \in Names : n \notin Uses(r) => file'[n] = file[n]
      BY <1>t, <2>u DEF Tree
    <3>4. pc'[r] = "write" /\ req'[r].prev = file[req[r].name] /\ UNCHANGED file
      BY <1>t, <1>q DEF Request_
    <3>3. Pending(r)'
      BY <2>0, <3>1, <3>4, FragmentSets DEF Pending
    <3> QED BY <1>0, <3>1, <3>2, <3>3, DiskStep
  <2>2. CASE WriteFragment(r)
    <3> USE <2>2 DEF WriteFragment, Goto
    <3>1. /\ pc[r] # "idle" /\ pc'[r] # "idle" /\ UNCHANGED <<saved, norm>>
          /\ \A p \in Reqs : p # r => pc'[p] = pc[p] /\ req'[p] = req[p]
          /\ req'[r].op = req[r].op /\ req'[r].name = req[r].name
          /\ req'[r].old = req[r].old /\ req'[r].text = req[r].text
      BY <1>t, <1>q DEF Request_
    <3>2. \A n \in Names : n \notin Uses(r) => file'[n] = file[n]
      BY <1>t, <2>u DEF Tree
    <3>4. /\ pc'[r] = "adapt" /\ req'[r] = req[r]
          /\ file'[req[r].name] = req[r].text
          /\ req[r].old # NoName => file'[req[r].old] = file[req[r].old]
      BY <1>t, <1>q, <2>0 DEF Tree, ReqShape, Request_
    <3>3. Pending(r)'
      BY <2>0, <3>1, <3>4, FragmentSets DEF Pending
    <3> QED BY <1>0, <3>1, <3>2, <3>3, DiskStep
  <2>3. CASE WholeWriteFails(r)
    <3> USE <2>3 DEF WholeWriteFails, Answer, Goto
    <3>1. /\ pc[r] # "idle" /\ pc'[r] = "idle" /\ UNCHANGED <<file, saved, norm>>
          /\ \A p \in Reqs : p # r => pc'[p] = pc[p] /\ req'[p] = req[p]
      BY <1>t
    <3>2. \A n \in Names : n \in Uses(r) => file'[n] = saved'[n]
      BY <2>0, <2>u, <3>1, FragmentSets DEF Pending
    <3> QED BY <1>0, <3>1, <3>2, DiskStep
  <2>4. CASE AdaptOk(r)
    <3> USE <2>4 DEF AdaptOk, Goto
    <3>1. /\ pc[r] # "idle" /\ pc'[r] # "idle" /\ UNCHANGED <<saved, norm>>
          /\ \A p \in Reqs : p # r => pc'[p] = pc[p] /\ req'[p] = req[p]
          /\ req'[r].op = req[r].op /\ req'[r].name = req[r].name
          /\ req'[r].old = req[r].old /\ req'[r].text = req[r].text
      BY <1>t, <1>q DEF Request_
    <3>2. \A n \in Names : n \notin Uses(r) => file'[n] = file[n]
      BY <1>t, <2>u DEF Tree
    <3>4. /\ pc'[r] = IF req[r].op = "update" /\ req[r].old # NoName THEN "unlink" ELSE "reload"
          /\ req'[r] = req[r] /\ UNCHANGED file
      BY <1>t
    <3>3. Pending(r)'
      BY <2>0, <3>1, <3>4, FragmentSets DEF Pending
    <3> QED BY <1>0, <3>1, <3>2, <3>3, DiskStep
  <2>5. CASE AdaptFails(r)
    <3> USE <2>5 DEF AdaptFails, Goto
    <3>1. /\ pc[r] # "idle" /\ pc'[r] # "idle" /\ UNCHANGED <<saved, norm>>
          /\ \A p \in Reqs : p # r => pc'[p] = pc[p] /\ req'[p] = req[p]
          /\ req'[r].op = req[r].op /\ req'[r].name = req[r].name
          /\ req'[r].old = req[r].old /\ req'[r].text = req[r].text
      BY <1>t, <1>q DEF Request_
    <3>2. \A n \in Names : n \notin Uses(r) => file'[n] = file[n]
      BY <1>t, <2>u DEF Tree
    <3>4. pc'[r] = "restore" /\ req'[r] = req[r] /\ UNCHANGED file
      BY <1>t
    <3>3. Pending(r)'
      BY <2>0, <3>1, <3>4, FragmentSets DEF Pending
    <3> QED BY <1>0, <3>1, <3>2, <3>3, DiskStep
  <2>6. CASE WholeRestore(r)
    <3> USE <2>6 DEF WholeRestore, Answer, Goto
    <3>1. /\ pc[r] # "idle" /\ pc'[r] = "idle" /\ UNCHANGED <<saved, norm>>
          /\ \A p \in Reqs : p # r => pc'[p] = pc[p] /\ req'[p] = req[p]
      BY <1>t
    <3>2. /\ \A n \in Names : n # req[r].name => file'[n] = file[n]
          /\ file'[req[r].name] = req[r].prev
      BY <1>f, <2>0, <3>1 DEF Tree
    <3>3. \A n \in Names : n \in Uses(r) => file'[n] = saved'[n]
      BY <2>0, <2>u, <3>1, <3>2, FragmentSets DEF Pending
    <3>4. \A n \in Names : n \notin Uses(r) => file'[n] = file[n]
      BY <2>u, <3>2
    <3> QED BY <1>0, <3>1, <3>3, <3>4, DiskStep
  <2>7. CASE UnlinkThere(r)
    <3> USE <2>7 DEF UnlinkThere, Goto
    <3>1. /\ pc[r] # "idle" /\ pc'[r] # "idle" /\ UNCHANGED <<saved, norm>>
          /\ \A p \in Reqs : p # r => pc'[p] = pc[p] /\ req'[p] = req[p]
          /\ req'[r].op = req[r].op /\ req'[r].name = req[r].name
          /\ req'[r].old = req[r].old /\ req'[r].text = req[r].text
      BY <1>t, <1>q DEF Request_
    <3>2. \A n \in Names : n \notin Uses(r) => file'[n] = file[n]
      BY <1>t, <2>u DEF Tree
    <3>4. /\ pc'[r] = IF req[r].op = "delete" THEN "adapt" ELSE "reload"
          /\ req'[r] = req[r] /\ file'[req[r].old] = Missing
          /\ req[r].name # req[r].old => file'[req[r].name] = file[req[r].name]
      BY <1>t, <2>0, <3>1 DEF Tree
    <3>3. Pending(r)'
      BY <2>0, <3>1, <3>4, FragmentSets DEF Pending
    <3> QED BY <1>0, <3>1, <3>2, <3>3, DiskStep
  <2>8. CASE UnlinkGone(r)
    <3> USE <2>8 DEF UnlinkGone, Answer, Goto
    <3>1. FALSE
      BY <2>0, FragmentSets DEF Pending
    <3> QED BY <3>1
  <2>9. CASE DeleteAdaptFails(r)
    <3> USE <2>9 DEF DeleteAdaptFails, Answer, Goto
    <3>1. /\ pc[r] # "idle" /\ pc'[r] = "idle" /\ UNCHANGED <<file, norm>> /\ saved' = Reported(r)
          /\ \A p \in Reqs : p # r => pc'[p] = pc[p] /\ req'[p] = req[p]
      BY <1>t
    <3>2. \A n \in Names : saved'[n] = IF n = req[r].old THEN Missing
                                       ELSE IF n = req[r].name THEN req[r].text ELSE saved[n]
      BY <3>1 DEF Reported
    <3>3. \A n \in Names : n \in Uses(r) => file'[n] = saved'[n]
      BY <2>0, <2>u, <3>1, <3>2, FragmentSets DEF Pending
    <3>4. \A n \in Names : n \notin Uses(r) => saved'[n] = saved[n]
      BY <2>u, <3>2
    <3> QED BY <1>0, <3>1, <3>3, <3>4, DiskStep
  <2>10. CASE ReadTree(r)
    <3> USE <2>10 DEF ReadTree, Goto
    <3>1. /\ pc[r] # "idle" /\ pc'[r] # "idle" /\ UNCHANGED <<saved, norm>>
          /\ \A p \in Reqs : p # r => pc'[p] = pc[p] /\ req'[p] = req[p]
          /\ req'[r].op = req[r].op /\ req'[r].name = req[r].name
          /\ req'[r].old = req[r].old /\ req'[r].text = req[r].text
      BY <1>t, <1>q DEF Request_
    <3>2. \A n \in Names : n \notin Uses(r) => file'[n] = file[n]
      BY <1>t, <2>u DEF Tree
    <3>4. pc'[r] = "load" /\ UNCHANGED file
      BY <1>t
    <3>3. Pending(r)'
      BY <2>0, <3>1, <3>4, FragmentSets DEF Pending
    <3> QED BY <1>0, <3>1, <3>2, <3>3, DiskStep
  <2>11. CASE Load(r)
    <3> USE <2>11 DEF Load, Answer, Goto
    <3>1. /\ pc[r] # "idle" /\ pc'[r] = "idle" /\ UNCHANGED <<file, norm>> /\ saved' = Reported(r)
          /\ \A p \in Reqs : p # r => pc'[p] = pc[p] /\ req'[p] = req[p]
      BY <1>t
    <3>2. \A n \in Names : saved'[n] = IF n = req[r].old THEN Missing
                                       ELSE IF n = req[r].name THEN req[r].text ELSE saved[n]
      BY <3>1 DEF Reported
    <3>3. \A n \in Names : n \in Uses(r) => file'[n] = saved'[n]
      BY <2>0, <2>u, <3>1, <3>2, FragmentSets DEF Pending
    <3>4. \A n \in Names : n \notin Uses(r) => saved'[n] = saved[n]
      BY <2>u, <3>2
    <3> QED BY <1>0, <3>1, <3>3, <3>4, DiskStep
  <2>12. CASE ReloadFails(r)
    <3> USE <2>12 DEF ReloadFails, Answer, Goto
    <3>1. /\ pc[r] # "idle" /\ pc'[r] = "idle" /\ UNCHANGED <<file, norm>> /\ saved' = Reported(r)
          /\ \A p \in Reqs : p # r => pc'[p] = pc[p] /\ req'[p] = req[p]
      BY <1>t
    <3>2. \A n \in Names : saved'[n] = IF n = req[r].old THEN Missing
                                       ELSE IF n = req[r].name THEN req[r].text ELSE saved[n]
      BY <3>1 DEF Reported
    <3>3. \A n \in Names : n \in Uses(r) => file'[n] = saved'[n]
      BY <2>0, <2>u, <3>1, <3>2, FragmentSets DEF Pending
    <3>4. \A n \in Names : n \notin Uses(r) => saved'[n] = saved[n]
      BY <2>u, <3>2
    <3> QED BY <1>0, <3>1, <3>3, <3>4, DiskStep
  <2> QED BY <1>b, WholeSteps, <2>1, <2>2, <2>3, <2>4, <2>5, <2>6, <2>7, <2>8, <2>9, <2>10, <2>11, <2>12 DEF WholeStep
<1>c. ~(\E n \in Names : NormalizeRead(n)) /\ ~NormalizeWrite /\ ~NormalizeWriteFails /\ ~Crash
  BY <1>t DEF Settled, NormalizeRead, NormalizeWrite, NormalizeWriteFails, Crash
<1>d. CASE NormalizeReload \/ NormalizeGivesUp \/ handleReload \/ CaddyStops \/ CaddyStarts \/ UNCHANGED vars
  <2>1. UNCHANGED <<file, pc, req, saved, norm.todo, norm.text>>
    BY <1>d, <1>t DEF NormalizeReload, NormalizeGivesUp, handleReload, CaddyStops, CaddyStarts, vars, TypeOK
  <2> QED BY <1>0, <1>t, <2>1 DEF DiskInv, TreeInv, Pending, Untouched, Settled, InFlight, Uses
<1> QED BY <1>a, <1>b, <1>c, <1>d DEF Next

\* As long as requests in flight use distinct names, normalizeCaddyFragments is
\* done and the process stays up, the disk holds, whenever nothing is in flight,
\* what the answers said: what was reported as saved, and nothing that was refused
\* (writeAndValidate, UpdateStructured, Delete).
THEOREM AnswersAreTrue ==
  ASSUME Distinct, ~MayCrash, ~MayTear, ~Boot
  PROVE  Spec => []AnswersMatchDisk
<1>1. TreeInv /\ DiskInv => AnswersMatchDisk
  BY DEF DiskInv, AnswersMatchDisk, AtRest, Untouched, TypeOK, Tree
<1>2. TreeInv /\ DiskInv /\ [Next]_vars => TreeInv' /\ DiskInv'
  BY TreeNext, DiskNext
<1>3. Init => TreeInv /\ DiskInv
  BY TreeInit, DiskInit
<1> QED BY <1>1, <1>2, <1>3, PTL DEF Spec

----------------------------------------------------------------------------
(* Renames, with crashes, torn writes and normalisation at any time.       *)

\* What a write that did not get to its end has done to the tree.
LEMMA TornFile ==
  ASSUME TypeOK, NEW n \in Names, Torn(n)
  PROVE  /\ file' \in Tree
         /\ \A m \in Names : m # n => file'[m] = file[m]
         /\ file[n] # Missing => file'[n] # Missing
<1>1. CASE UNCHANGED file
  BY <1>1 DEF TypeOK
<1>2. ASSUME NEW t \in Texts \cup {Bad}, file' = [file EXCEPT ![n] = t]
      PROVE  /\ file' \in Tree
             /\ \A m \in Names : m # n => file'[m] = file[m]
             /\ file'[n] # Missing
  BY <1>2, FragmentSets DEF TypeOK, Tree, Text
<1> QED BY <1>1, <1>2 DEF Torn

\* With room for one goroutine, a request arrives when nothing is at work.
LEMMA AloneArrives ==
  ASSUME OneAtWork, AtWork < MaxAtWork
  PROVE  InFlight = {} /\ ~Normalizing
<1>1. IsFiniteSet(InFlight) /\ Cardinality(InFlight) \in Nat
  BY FragmentSets, FS_Subset, FS_CardinalityType DEF InFlight
<1>2. Cardinality(InFlight) = 0 /\ ~Normalizing
  BY <1>1 DEF OneAtWork, AtWork
<1> QED BY <1>1, <1>2, FS_EmptySet

\* The arrivals, in one form.
LEMMA Arrivals ==
  ASSUME Distinct \/ OneAtWork, TypeOK, ReqShape, NamesApart,
         NEW r \in Reqs, Request(r)
  PROVE  /\ TypeOK' /\ ReqShape' /\ NamesApart'
         /\ \A p \in Reqs : p # r => pc'[p] = pc[p] /\ req'[p] = req[p]
         /\ pc[r] = "idle" /\ pc'[r] \in {"read", "unlink"}
         /\ req'[r].op = "update" => pc'[r] = "read"
         /\ req'[r].old # NoName => file[req'[r].old] # Missing
         /\ AtWork < MaxAtWork
         /\ UNCHANGED <<file, live, up, norm, saved, clean>>
<1>1. PICK op \in {"create", "update", "raw", "delete"}, n \in Names, old \in Names \cup {NoName},
           t \in Text \cup {Missing}, to \in {"read", "unlink"} :
        /\ Arrive(r, Locals(op, n, old, t), to)
        /\ op = "update" => old # n
        /\ op \in {"create", "raw"} => old = NoName
        /\ old # NoName => file[old] # Missing
        /\ op = "delete" => old = n /\ t = Missing /\ to = "unlink"
        /\ op # "delete" => t # Missing /\ to = "read"
        /\ op \in {"update", "create"} => t # Bad
  BY FragmentSets DEF Request, Create, UpdateStructured, UpdateRaw, Delete, Text
<1>2. AtWork < MaxAtWork
  BY <1>1 DEF Arrive
<1>3. Distinct \/ InFlight = {}
  BY <1>2, AloneArrives
<1>4. /\ ReqShape' /\ NamesApart'
      /\ pc' \in [Reqs -> States] /\ req' \in [Reqs -> Request_]
      /\ \A p \in Reqs : p # r => pc'[p] = pc[p] /\ req'[p] = req[p]
      /\ pc[r] = "idle" /\ pc'[r] = to /\ req'[r] = Locals(op, n, old, t)
      /\ UNCHANGED <<file, live, up, norm, saved, clean>>
  BY <1>1, <1>3, ArriveFrame
<1>5. req'[r].op = op /\ req'[r].old = old
  BY <1>4 DEF Locals
<1>6. TypeOK'
  BY <1>4 DEF TypeOK
<1> QED BY <1>1, <1>2, <1>4, <1>5, <1>6

\* A step of r keeps the renames of the others, and its own when it ends or has the
\* fragments that its next point needs.
LEMMA RenameStep ==
  ASSUME RenameInv, NEW r \in Reqs, pc[r] # "idle", TypeOK', ReqShape', NamesApart',
         \A p \in Reqs : p # r => pc'[p] = pc[p] /\ req'[p] = req[p],
         \A n \in Names : n \notin Uses(r) => file'[n] = file[n],
         \/ pc'[r] = "idle"
         \/ req[r].op = "update" /\ req[r].old # NoName =>
              /\ req'[r].old = req[r].old /\ req'[r].name = req[r].name
              /\ pc'[r] \in {"read", "write", "adapt", "restore", "unlink"}
                   => file'[req[r].old] # Missing
              /\ pc'[r] \in {"adapt", "unlink", "reload", "load"} => file'[req[r].name] # Missing,
         pc'[r] # "idle" => req'[r].op = req[r].op /\ req'[r].old = req[r].old
  PROVE  RenameInv'
<1>1. ASSUME NEW p \in Reqs, p # r, req'[p].op = "update", req'[p].old # NoName
      PROVE  /\ pc'[p] \in {"read", "write", "adapt", "restore", "unlink"} => file'[req'[p].old] # Missing
             /\ pc'[p] \in {"adapt", "unlink", "reload", "load"} => file'[req'[p].name] # Missing
  <2>1. pc'[p] = pc[p] /\ req'[p] = req[p] /\ req[p] \in Request_
    BY <1>1 DEF RenameInv, TypeOK
  <2>2. CASE pc[p] = "idle"
    BY <2>1, <2>2
  <2>3. CASE pc[p] # "idle"
    <3>1. req[p].name \in Names /\ req[p].old \in Names
      BY <1>1, <2>1, <2>3 DEF RenameInv, ReqShape, Request_
    <3>2. Uses(p) \cap Uses(r) \subseteq {NoName} /\ {req[p].name, req[p].old} = Uses(p)
      BY <1>1, <2>3 DEF RenameInv, NamesApart, InFlight, Uses
    <3>3. req[p].name \notin Uses(r) /\ req[p].old \notin Uses(r)
      BY <3>1, <3>2, FragmentSets
    <3>4. file'[req[p].name] = file[req[p].name] /\ file'[req[p].old] = file[req[p].old]
      BY <3>1, <3>3
    <3> QED BY <1>1, <2>1, <3>4 DEF RenameInv, RenameSteps
  <2> QED BY <2>2, <2>3
<1>2. ASSUME req'[r].op = "update", req'[r].old # NoName
      PROVE  /\ pc'[r] \in {"read", "write", "adapt", "restore", "unlink"} => file'[req'[r].old] # Missing
             /\ pc'[r] \in {"adapt", "unlink", "reload", "load"} => file'[req'[r].name] # Missing
  BY <1>2
<1>3. RenameSteps'
  BY <1>1, <1>2 DEF RenameSteps
<1> QED BY <1>3 DEF RenameInv

\* Every step of a request keeps types, shapes and names, whether or not it gets to
\* its end, and ends the request or keeps its arguments.
LEMMA StepFrame ==
  ASSUME TypeOK, ReqShape, NamesApart, NEW r \in Reqs, Step(r)
  PROVE  /\ TypeOK' /\ ReqShape' /\ NamesApart'
         /\ pc[r] # "idle" /\ req[r].name \in Names /\ UNCHANGED <<norm, up>>
         /\ \A p \in Reqs : p # r => pc'[p] = pc[p] /\ req'[p] = req[p]
         /\ \A n \in Names : n \notin Uses(r) => file'[n] = file[n]
         /\ \/ pc'[r] = "idle"
            \/ /\ pc'[r] # "idle" /\ UNCHANGED <<live, clean>>
               /\ req'[r].op = req[r].op /\ req'[r].name = req[r].name
               /\ req'[r].old = req[r].old /\ req'[r].text = req[r].text
<1> DEFINE Shapes == /\ ReqShape' /\ NamesApart'
                     /\ pc' \in [Reqs -> States] /\ req' \in [Reqs -> Request_]
                     /\ \A p \in Reqs : p # r => pc'[p] = pc[p] /\ req'[p] = req[p]
           Kept == /\ pc'[r] # "idle" /\ UNCHANGED <<live, clean>>
                   /\ req'[r].op = req[r].op /\ req'[r].name = req[r].name
                   /\ req'[r].old = req[r].old /\ req'[r].text = req[r].text
           Local == \A n \in Names : n \notin Uses(r) => file'[n] = file[n]
<1>t. /\ file \in Tree /\ live \in Tree /\ up \in BOOLEAN /\ saved \in Tree /\ clean \in BOOLEAN
      /\ norm \in [todo : SUBSET Names, name : Names \cup {NoName},
                   text : {Stale, Missing}, changed : BOOLEAN]
      /\ req[r] \in Request_
  BY DEF TypeOK
<1>x. /\ req[r].text \in Text \cup {Missing} /\ req[r].prev \in Text \cup {Missing}
      /\ req[r].snap \in Tree
  BY <1>t DEF Request_
<1>w. Reported(r) \in Tree
  BY <1>t, <1>x DEF Reported, Tree
<1>s. pc[r] # "idle"
  BY DEF Step, ReadPrevious, WriteFragment, WriteFails, AdaptOk, AdaptFails, Restore, Unlink,
         DeleteAdaptFails, ReadTree, Load, ReloadFails
<1>n. req[r].name \in Names /\ req[r].name \in Uses(r) /\ req[r].old \in Uses(r)
  BY <1>s DEF ReqShape, Uses
<1>e. ASSUME NEW n \in Uses(r), NEW t \in Text \cup {Missing}, file' = [file EXCEPT ![n] = t]
      PROVE  file' \in Tree /\ Local
  BY <1>e, <1>t, FileType DEF Tree
<1>r. ASSUME Torn(req[r].name) PROVE file' \in Tree /\ Local
  BY <1>r, <1>n, TornFile
<1>u. ASSUME UNCHANGED file PROVE file' \in Tree /\ Local
  BY <1>u, <1>t
<1>1. CASE ReadPrevious(r)
  <2> USE <1>1 DEF ReadPrevious
  <2>1. file[req[r].name] \in Text \cup {Missing} /\ req[r].op # "delete"
    BY <1>t, <1>n DEF ReqShape, Tree
  <2>2. Shapes /\ Kept
    BY <1>s, <1>x, <2>1, SetFrame
  <2> QED BY <1>t, <1>u, <1>s, <1>n, <2>2 DEF TypeOK
<1>2. CASE WriteFragment(r)
  <2> USE <1>2 DEF WriteFragment
  <2>1. Shapes /\ Kept
    BY <1>s, GotoFrame DEF States
  <2>2. file' \in Tree /\ Local
    BY <1>e, <1>n, <1>x
  <2> QED BY <1>t, <1>s, <1>n, <2>1, <2>2 DEF TypeOK
<1>3. CASE WriteFails(r)
  <2> USE <1>3 DEF WriteFails
  <2>1. Shapes /\ pc'[r] = "idle"
    BY <1>s, AnswerFrame
  <2>2. clean' \in BOOLEAN
    BY DEF Answer
  <2>3. file' \in Tree /\ Local
    BY <1>r
  <2> QED BY <1>t, <1>s, <1>n, <2>1, <2>2, <2>3 DEF TypeOK
<1>4. CASE AdaptOk(r)
  <2> USE <1>4 DEF AdaptOk
  <2>1. PICK to \in {"unlink", "reload"} : Goto(r, to) /\ (to = "unlink" => req[r].old # NoName)
    OBVIOUS
  <2>2. Shapes /\ Kept
    BY <1>s, <2>1, GotoFrame DEF States
  <2> QED BY <1>t, <1>u, <1>s, <1>n, <2>2 DEF TypeOK
<1>5. CASE AdaptFails(r)
  <2> USE <1>5 DEF AdaptFails
  <2>1. Shapes /\ Kept
    BY <1>s, GotoFrame DEF States
  <2> QED BY <1>t, <1>u, <1>s, <1>n, <2>1 DEF TypeOK
<1>6. CASE Restore(r)
  <2> USE <1>6 DEF Restore
  <2>1. Shapes /\ pc'[r] = "idle"
    BY <1>s, AnswerFrame
  <2>2. clean' \in BOOLEAN
    BY DEF Answer
  <2>3. file' \in Tree /\ Local
    BY <1>r, <1>e, <1>n, <1>x
  <2> QED BY <1>t, <1>s, <1>n, <2>1, <2>2, <2>3 DEF TypeOK
<1>7. CASE UnlinkThere(r)
  <2> USE <1>7 DEF UnlinkThere
  <2>1. PICK to \in {"adapt", "reload"} : Goto(r, to)
    OBVIOUS
  <2>2. Shapes /\ Kept
    BY <1>s, <2>1, GotoFrame DEF States
  <2>3. file' \in Tree /\ Local
    BY <1>e, <1>n
  <2> QED BY <1>t, <1>s, <1>n, <2>2, <2>3 DEF TypeOK
<1>8. CASE UnlinkGone(r)
  <2> USE <1>8 DEF UnlinkGone
  <2>1. Shapes /\ pc'[r] = "idle"
    BY <1>s, AnswerFrame
  <2>2. clean' \in BOOLEAN
    BY DEF Answer
  <2> QED BY <1>t, <1>u, <1>s, <1>n, <2>1, <2>2 DEF TypeOK
<1>9. CASE DeleteAdaptFails(r)
  <2> USE <1>9 DEF DeleteAdaptFails
  <2>1. Shapes /\ pc'[r] = "idle"
    BY <1>s, AnswerFrame
  <2>2. clean' \in BOOLEAN
    BY DEF Answer
  <2> QED BY <1>t, <1>u, <1>w, <1>s, <1>n, <2>1, <2>2 DEF TypeOK
<1>10. CASE ReadTree(r)
  <2> USE <1>10 DEF ReadTree
  <2>1. Shapes /\ Kept
    BY <1>s, <1>t, <1>x, SetFrame
  <2> QED BY <1>t, <1>u, <1>s, <1>n, <2>1 DEF TypeOK
<1>11. CASE Load(r)
  <2> USE <1>11 DEF Load
  <2>1. Shapes /\ pc'[r] = "idle"
    BY <1>s, AnswerFrame
  <2>2. clean' \in BOOLEAN
    BY DEF Answer
  <2> QED BY <1>t, <1>u, <1>w, <1>x, <1>s, <1>n, <2>1, <2>2 DEF TypeOK
<1>12. CASE ReloadFails(r)
  <2> USE <1>12 DEF ReloadFails
  <2>1. Shapes /\ pc'[r] = "idle"
    BY <1>s, AnswerFrame
  <2>2. clean' \in BOOLEAN
    BY DEF Answer
  <2> QED BY <1>t, <1>u, <1>w, <1>s, <1>n, <2>1, <2>2 DEF TypeOK
<1>13. Unlink(r) => UnlinkThere(r) \/ UnlinkGone(r)
  BY DEF Unlink, UnlinkThere, UnlinkGone
<1> QED BY <1>1, <1>2, <1>3, <1>4, <1>5, <1>6, <1>7, <1>8, <1>9, <1>10, <1>11, <1>12, <1>13 DEF Step

\* Normalisation rewrites a fragment that is there, or changes nothing.
LEMMA NormalizeFrame ==
  ASSUME RenameInv,
         (\E n \in Names : NormalizeRead(n)) \/ NormalizeWrite \/ NormalizeWriteFails
           \/ NormalizeReload \/ NormalizeGivesUp
  PROVE  /\ RenameInv' /\ UNCHANGED <<pc, req, saved, up>> /\ Normalizing
         /\ \A n \in Names : file[n] # Missing => file'[n] # Missing
<1> DEFINE Norms == [todo : SUBSET Names, name : Names \cup {NoName},
                     text : {Stale, Missing}, changed : BOOLEAN]
<1>t. file \in Tree /\ live \in Tree /\ norm \in Norms /\ clean \in BOOLEAN
  BY DEF RenameInv, TypeOK
<1>r. Rendered(norm.text) \in Texts
  BY FragmentSets DEF Rendered
<1>z. UNCHANGED <<pc, req, saved, up>> /\ Normalizing
  BY DEF NormalizeRead, NormalizeWrite, NormalizeWriteFails, NormalizeReload, NormalizeGivesUp,
         Normalizing
<1>0. ASSUME file' \in Tree, live' \in Tree, norm' \in Norms, clean' \in BOOLEAN,
             \A n \in Names : file[n] # Missing => file'[n] # Missing
      PROVE  RenameInv'
  <2>1. TypeOK'
    BY <1>0, <1>z DEF RenameInv, TypeOK
  <2>2. ReqShape' /\ NamesApart'
    BY <1>z DEF RenameInv, ReqShape, NamesApart, InFlight, Uses
  <2>3. \A r \in Reqs : req[r].op = "update" /\ req[r].old # NoName /\ pc[r] # "idle"
                          => req[r].name \in Names /\ req[r].old \in Names
    BY DEF RenameInv, TypeOK, ReqShape, Request_
  <2>4. RenameSteps'
    BY <1>0, <1>z, <2>3 DEF RenameInv, RenameSteps
  <2> QED BY <2>1, <2>2, <2>4 DEF RenameInv
<1>1. ASSUME NEW n \in Names, NormalizeRead(n) PROVE norm' \in Norms /\ UNCHANGED <<file, live, clean>>
  BY <1>1, <1>t DEF NormalizeRead
<1>2. CASE NormalizeWrite
  <2>1. norm' \in Norms /\ UNCHANGED <<live, clean>>
    BY <1>2, <1>t DEF NormalizeWrite
  <2>2. file' = [file EXCEPT ![norm.name] = Rendered(norm.text)]
    BY <1>2 DEF NormalizeWrite
  <2>3. file' \in Tree /\ \A n \in Names : file[n] # Missing => file'[n] # Missing
    BY <1>r, <1>t, <2>2, FragmentSets DEF Tree, Text
  <2> QED BY <1>0, <1>t, <1>z, <2>1, <2>3
<1>3. CASE NormalizeWriteFails
  <2>1. norm' \in Norms /\ UNCHANGED live /\ clean' \in BOOLEAN
    BY <1>3, <1>t DEF NormalizeWriteFails
  <2>2. file' \in Tree /\ \A n \in Names : file[n] # Missing => file'[n] # Missing
    <3>1. CASE norm.name \in Names
      BY <1>3, <3>1, TornFile DEF NormalizeWriteFails, RenameInv
    <3>2. CASE norm.name \notin Names
      BY <1>3, <1>t, <3>2 DEF NormalizeWriteFails, Torn, Tree
    <3> QED BY <3>1, <3>2
  <2> QED BY <1>0, <1>t, <1>z, <2>1, <2>2
<1>4. CASE NormalizeReload \/ NormalizeGivesUp
  <2>1. norm' \in Norms /\ live' \in Tree /\ clean' \in BOOLEAN /\ UNCHANGED file
    BY <1>4, <1>t DEF NormalizeReload, NormalizeGivesUp
  <2> QED BY <1>0, <1>t, <1>z, <2>1
<1> QED BY <1>0, <1>1, <1>2, <1>3, <1>4, <1>t, <1>z

\* After a crash every request is gone.
LEMMA CrashFrame ==
  ASSUME RenameInv, Crash
  PROVE  RenameInv' /\ InFlight' = {} /\ clean' = FALSE
<1>1. /\ \A r \in Reqs : pc'[r] = "idle" /\ req'[r] = NoReq
      /\ pc' \in [Reqs -> States] /\ req' \in [Reqs -> Request_] /\ clean' = FALSE
  BY NoReqType DEF Crash, States
<1>2. file' \in Tree
  <2>1. CASE UNCHANGED file
    BY <2>1 DEF RenameInv, TypeOK
  <2>2. ASSUME NEW r \in Reqs, pc[r] = "write", Torn(req[r].name) PROVE file' \in Tree
    <3>1. req[r].name \in Names /\ TypeOK
      BY <2>2 DEF RenameInv, ReqShape
    <3> QED BY <2>2, <3>1, TornFile
  <2> QED BY <2>1, <2>2 DEF Crash
<1>3. saved' \in Tree /\ live' \in Tree /\ up' \in BOOLEAN
  BY <1>2 DEF Crash, RenameInv, TypeOK
<1>4. norm' \in [todo : SUBSET Names, name : Names \cup {NoName},
                 text : {Stale, Missing}, changed : BOOLEAN]
  BY DEF Crash, Booting
<1>5. TypeOK'
  BY <1>1, <1>2, <1>3, <1>4 DEF TypeOK
<1>6. ReqShape' /\ RenameSteps'
  BY <1>1, NoReqType DEF ReqShape, RenameSteps
<1>7. InFlight' = {} /\ NamesApart'
  BY <1>1 DEF InFlight, NamesApart
<1> QED BY <1>1, <1>5, <1>6, <1>7 DEF RenameInv

\* The reload button, and caddy's own stops and starts.
LEMMA CaddyFrame ==
  ASSUME RenameInv, handleReload \/ CaddyStops \/ CaddyStarts \/ UNCHANGED vars
  PROVE  RenameInv' /\ UNCHANGED <<file, pc, req, norm, saved>>
<1>1. UNCHANGED <<file, pc, req, norm, saved>>
  BY DEF handleReload, CaddyStops, CaddyStarts, vars
<1>2. live' \in Tree /\ up' \in BOOLEAN /\ clean' \in BOOLEAN
  BY DEF handleReload, CaddyStops, CaddyStarts, vars, RenameInv, TypeOK
<1>3. TypeOK'
  BY <1>1, <1>2 DEF RenameInv, TypeOK
<1> QED BY <1>1, <1>3 DEF RenameInv, ReqShape, NamesApart, InFlight, Uses, RenameSteps

\* Every step of a request keeps the renames in flight safe.
LEMMA RenameStepNext ==
  ASSUME RenameInv, NEW r \in Reqs, Step(r)
  PROVE  RenameInv'
<1> DEFINE Renames == req[r].op = "update" /\ req[r].old # NoName
           Old == file[req[r].old] # Missing
           New == file[req[r].name] # Missing
<1>1. /\ TypeOK' /\ ReqShape' /\ NamesApart'
      /\ pc[r] # "idle" /\ req[r].name \in Names
      /\ \A p \in Reqs : p # r => pc'[p] = pc[p] /\ req'[p] = req[p]
      /\ \A n \in Names : n \notin Uses(r) => file'[n] = file[n]
      /\ \/ pc'[r] = "idle"
         \/ /\ pc'[r] # "idle" /\ req'[r].op = req[r].op /\ req'[r].name = req[r].name
            /\ req'[r].old = req[r].old /\ req'[r].text = req[r].text
  BY StepFrame DEF RenameInv
<1>2. Renames => /\ req[r].old \in Names /\ req[r].old # req[r].name /\ req[r].text # Missing
                 /\ pc[r] \in {"read", "write", "adapt", "restore", "unlink"} => Old
                 /\ pc[r] \in {"adapt", "unlink", "reload", "load"} => New
  BY <1>1 DEF RenameInv, RenameSteps, ReqShape, TypeOK, Request_
<1>f. file \in Tree /\ pc \in [Reqs -> States]
  BY DEF RenameInv, TypeOK
<1>3. pc'[r] # "idle" /\ Renames =>
        /\ pc'[r] \in {"read", "write", "adapt", "restore", "unlink"} => file'[req[r].old] # Missing
        /\ pc'[r] \in {"adapt", "unlink", "reload", "load"} => file'[req[r].name] # Missing
  <2> SUFFICES ASSUME pc'[r] # "idle", Renames
               PROVE  /\ pc'[r] \in {"read", "write", "adapt", "restore", "unlink"}
                           => file'[req[r].old] # Missing
                      /\ pc'[r] \in {"adapt", "unlink", "reload", "load"} => file'[req[r].name] # Missing
    OBVIOUS
  <2>1. CASE ReadPrevious(r) \/ AdaptOk(r) \/ AdaptFails(r) \/ ReadTree(r)
    <3>1. UNCHANGED file
      BY <2>1 DEF ReadPrevious, AdaptOk, AdaptFails, ReadTree
    <3>2. \/ pc[r] = "read" /\ pc'[r] = "write"
          \/ pc[r] = "adapt" /\ pc'[r] \in {"unlink", "restore"}
          \/ pc[r] = "reload" /\ pc'[r] = "load"
      BY <1>f, <2>1 DEF ReadPrevious, AdaptOk, AdaptFails, ReadTree, Goto
    <3> QED BY <1>2, <3>1, <3>2
  <2>2. CASE WriteFragment(r)
    <3>1. pc[r] = "write" /\ pc'[r] = "adapt"
      BY <1>f, <2>2 DEF WriteFragment, Goto
    <3>2. file'[req[r].name] = req[r].text /\ file'[req[r].old] = file[req[r].old]
      BY <1>f, <1>1, <1>2, <2>2 DEF WriteFragment, Tree
    <3> QED BY <1>2, <3>1, <3>2
  <2>3. CASE Unlink(r)
    <3>1. pc[r] = "unlink" /\ Old /\ New /\ req[r].op # "delete"
      BY <1>2, <2>3 DEF Unlink
    <3>2. pc'[r] = "reload" /\ file'[req[r].name] = file[req[r].name]
      BY <1>f, <1>1, <1>2, <2>3, <3>1 DEF Unlink, Goto, Tree
    <3> QED BY <3>1, <3>2
  <2>4. CASE WriteFails(r) \/ Restore(r) \/ DeleteAdaptFails(r) \/ Load(r) \/ ReloadFails(r)
    BY <1>f, <2>4 DEF WriteFails, Restore, DeleteAdaptFails, Load, ReloadFails, Answer, Goto
  <2> QED BY <2>1, <2>2, <2>3, <2>4 DEF Step
<1> QED BY <1>1, <1>3, RenameStep

LEMMA RenameNext ==
  ASSUME Distinct \/ OneAtWork, RenameInv, [Next]_vars
  PROVE  RenameInv'
<1>1. ASSUME NEW r \in Reqs, Request(r) PROVE RenameInv'
  <2>1. /\ TypeOK' /\ ReqShape' /\ NamesApart'
        /\ \A p \in Reqs : p # r => pc'[p] = pc[p] /\ req'[p] = req[p]
        /\ pc'[r] \in {"read", "unlink"}
        /\ req'[r].op = "update" => pc'[r] = "read"
        /\ req'[r].old # NoName => file[req'[r].old] # Missing
        /\ UNCHANGED file
    BY <1>1, Arrivals DEF RenameInv
  <2>2. RenameSteps'
    BY <2>1 DEF RenameInv, RenameSteps
  <2> QED BY <2>1, <2>2 DEF RenameInv
<1>2. ASSUME NEW r \in Reqs, Step(r) PROVE RenameInv'
  BY <1>2, RenameStepNext
<1>3. CASE (\E n \in Names : NormalizeRead(n)) \/ NormalizeWrite \/ NormalizeWriteFails
             \/ NormalizeReload \/ NormalizeGivesUp
  BY <1>3, NormalizeFrame
<1>4. CASE Crash
  BY <1>4, CrashFrame
<1>5. CASE handleReload \/ CaddyStops \/ CaddyStarts \/ UNCHANGED vars
  BY <1>5, CaddyFrame
<1> QED BY <1>1, <1>2, <1>3, <1>4, <1>5 DEF Next

LEMMA RenameInit == Init => RenameInv
<1> SUFFICES ASSUME Init PROVE RenameInv
  OBVIOUS
<1>1. TreeInv
  BY TreeInit
<1>2. RenameSteps
  BY NoReqType DEF Init, RenameSteps
<1> QED BY <1>1, <1>2 DEF TreeInv, RenameInv

\* At every moment of a rename the app exists under the old or the new name, for any
\* number of requests and fragments, through crashes, torn writes and normalisation,
\* as long as requests in flight use distinct names or come one at a time
\* (UpdateStructured: "a bad rename never leaves the app missing").
THEOREM RenameHolds ==
  ASSUME Distinct \/ OneAtWork
  PROVE  Spec => []RenameKeepsApp
<1>1. RenameInv => RenameKeepsApp
  <2> SUFFICES ASSUME RenameInv, NEW r \in Reqs, req[r].op = "update", req[r].old # NoName
               PROVE  file[req[r].old] # Missing \/ file[req[r].name] # Missing
    BY DEF RenameKeepsApp
  <2>1. pc[r] \in States /\ pc[r] # "idle"
    BY NoReqType DEF RenameInv, TypeOK, ReqShape
  <2> QED BY <2>1 DEF RenameInv, RenameSteps, States
<1>2. RenameInv /\ [Next]_vars => RenameInv'
  BY RenameNext
<1> QED BY <1>1, <1>2, RenameInit, PTL DEF Spec

----------------------------------------------------------------------------
(* What caddy serves, when requests come one at a time.                    *)

LEMMA ServedStepNext ==
  ASSUME ServedInv, NEW r \in Reqs, Step(r)
  PROVE  ServedInv'
<1>1. RenameInv'
  BY RenameStepNext DEF ServedInv
<1>2. /\ pc[r] # "idle" /\ UNCHANGED <<norm, up>>
      /\ \A p \in Reqs : p # r => pc'[p] = pc[p] /\ req'[p] = req[p]
  BY StepFrame DEF ServedInv, RenameInv
<1>t. file \in Tree /\ pc \in [Reqs -> States] /\ req \in [Reqs -> Request_]
  BY DEF ServedInv, RenameInv, TypeOK
<1>3. \A p \in Reqs : p # r => pc[p] = "idle"
  BY <1>2 DEF ServedInv, Alone, InFlight
<1>4. Alone'
  BY <1>2, <1>3 DEF ServedInv, Alone, InFlight, Normalizing
<1>5. SnapCurrent'
  <2>1. ASSUME pc'[r] = "load" PROVE req'[r].snap = file'
    <3>1. ReadTree(r)
      <4>1. ~ReadPrevious(r) /\ ~WriteFragment(r) /\ ~AdaptOk(r) /\ ~AdaptFails(r) /\ ~Unlink(r)
        BY <1>t, <2>1 DEF ReadPrevious, WriteFragment, AdaptOk, AdaptFails, Unlink, Answer, Goto
      <4>2. ~WriteFails(r) /\ ~Restore(r) /\ ~DeleteAdaptFails(r) /\ ~Load(r) /\ ~ReloadFails(r)
        BY <1>t, <2>1 DEF WriteFails, Restore, DeleteAdaptFails, Load, ReloadFails, Answer, Goto
      <4> QED BY <4>1, <4>2 DEF Step
    <3>2. UNCHANGED file /\ req' = [req EXCEPT ![r].snap = file] /\ req[r] \in Request_
      BY <1>t, <3>1 DEF ReadTree
    <3> QED BY <1>t, <3>2 DEF Request_
  <2> QED BY <1>2, <1>3, <2>1 DEF SnapCurrent
<1>6. ServedSettled'
  <2> SUFFICES ASSUME pc'[r] = "idle", clean' PROVE live' = file'
    BY DEF ServedSettled, InFlight
  <2>1. Load(r)
    <3>1. ~ReadPrevious(r) /\ ~WriteFragment(r) /\ ~AdaptOk(r) /\ ~AdaptFails(r) /\ ~Unlink(r) /\ ~ReadTree(r)
      BY <1>t DEF ReadPrevious, WriteFragment, AdaptOk, AdaptFails, Unlink, ReadTree, Answer, Goto
    <3>2. ~WriteFails(r) /\ ~Restore(r) /\ ~DeleteAdaptFails(r) /\ ~ReloadFails(r)
      BY DEF WriteFails, Restore, DeleteAdaptFails, ReloadFails, Answer
    <3> QED BY <3>1, <3>2 DEF Step
  <2> QED BY <2>1 DEF Load, ServedInv, SnapCurrent
<1> QED BY <1>1, <1>4, <1>5, <1>6 DEF ServedInv

LEMMA ServedNext ==
  ASSUME OneAtWork, ServedInv, [Next]_vars
  PROVE  ServedInv'
<1>0. RenameInv'
  BY RenameNext DEF ServedInv
<1>1. ASSUME NEW r \in Reqs, Request(r) PROVE ServedInv'
  <2>1. /\ \A p \in Reqs : p # r => pc'[p] = pc[p] /\ req'[p] = req[p]
        /\ pc'[r] \in {"read", "unlink"} /\ AtWork < MaxAtWork
        /\ UNCHANGED <<file, live, up, norm, saved, clean>>
    BY <1>1, Arrivals DEF ServedInv, RenameInv
  <2>2. InFlight = {} /\ ~Normalizing
    BY <2>1, AloneArrives
  <2>3. Alone' /\ r \in InFlight'
    BY <2>1, <2>2 DEF Alone, InFlight, Normalizing
  <2>4. SnapCurrent' /\ ServedSettled'
    BY <2>1, <2>3 DEF ServedInv, SnapCurrent, ServedSettled
  <2> QED BY <1>0, <2>3, <2>4 DEF ServedInv
<1>2. ASSUME NEW r \in Reqs, Step(r) PROVE ServedInv'
  BY <1>2, ServedStepNext
<1>3. CASE (\E n \in Names : NormalizeRead(n)) \/ NormalizeWrite \/ NormalizeWriteFails
             \/ NormalizeReload \/ NormalizeGivesUp
  <2>1. UNCHANGED <<pc, req, saved, up>> /\ Normalizing
    BY <1>3, NormalizeFrame DEF ServedInv
  <2>2. InFlight = {} /\ InFlight' = {}
    BY <2>1 DEF ServedInv, Alone, InFlight
  <2>3. Alone' /\ SnapCurrent'
    BY <2>2 DEF Alone, SnapCurrent, InFlight
  <2>n. norm.changed \in BOOLEAN /\ norm \in [todo : SUBSET Names, name : Names \cup {NoName},
                                              text : {Stale, Missing}, changed : BOOLEAN]
    BY DEF ServedInv, RenameInv, TypeOK
  <2>4. ServedSettled'
    <3> SUFFICES ASSUME ~norm'.changed, up', clean' PROVE live' = file'
      BY DEF ServedSettled
    <3>1. ASSUME NEW n \in Names, NormalizeRead(n) PROVE live' = file'
      <4>1. norm'.changed = norm.changed /\ UNCHANGED <<file, live, up, clean>>
        BY <2>n, <3>1 DEF NormalizeRead
      <4> QED BY <2>2, <4>1 DEF ServedInv, ServedSettled
    <3>2. ~NormalizeWrite
      BY <2>n DEF NormalizeWrite
    <3>3. ~NormalizeWriteFails /\ ~NormalizeGivesUp
      BY DEF NormalizeWriteFails, NormalizeGivesUp
    <3>4. NormalizeReload => live' = file'
      BY DEF NormalizeReload
    <3> QED BY <1>3, <3>1, <3>2, <3>3, <3>4
  <2> QED BY <1>0, <2>3, <2>4 DEF ServedInv
<1>4. CASE Crash
  <2>1. InFlight' = {} /\ clean' = FALSE
    BY <1>4, CrashFrame DEF ServedInv
  <2>2. Alone' /\ SnapCurrent' /\ ServedSettled'
    BY <2>1 DEF Alone, SnapCurrent, ServedSettled, InFlight
  <2> QED BY <1>0, <2>2 DEF ServedInv
<1>5. CASE handleReload \/ CaddyStops \/ CaddyStarts \/ UNCHANGED vars
  <2>1. UNCHANGED <<file, pc, req, norm>>
    BY <1>5, CaddyFrame DEF ServedInv
  <2>2. Alone' /\ SnapCurrent'
    BY <2>1 DEF ServedInv, Alone, SnapCurrent, InFlight, Normalizing
  <2>3. ServedSettled'
    BY <1>5, <2>1 DEF ServedInv, ServedSettled, InFlight, handleReload, CaddyStops, CaddyStarts, vars
  <2> QED BY <1>0, <2>2, <2>3 DEF ServedInv
<1> QED BY <1>1, <1>2, <1>3, <1>4, <1>5 DEF Next

\* When requests come one at a time, the last answer was a success and nothing is at
\* work, the running caddy serves the tree on disk, through crashes, torn writes,
\* failing reloads and stops of caddy, for any fragments and texts
\* (reloadAfterWrite).
THEOREM ServedHolds ==
  ASSUME OneAtWork
  PROVE  Spec => []ServedIsSaved
<1>1. Init => ServedInv
  <2> SUFFICES ASSUME Init PROVE ServedInv
    OBVIOUS
  <2>1. RenameInv
    BY RenameInit
  <2>2. Alone /\ SnapCurrent /\ ServedSettled
    BY DEF Init, Alone, SnapCurrent, ServedSettled, InFlight
  <2> QED BY <2>1, <2>2 DEF ServedInv
<1>2. ServedInv => ServedIsSaved
  BY DEF ServedInv, ServedSettled, ServedIsSaved, AtRest, Normalizing
<1>3. ServedInv /\ [Next]_vars => ServedInv'
  BY ServedNext
<1> QED BY <1>1, <1>2, <1>3, PTL DEF Spec
=============================================================================
