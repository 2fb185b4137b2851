--------------------------- MODULE CaddyFragments ---------------------------
(***************************************************************************)
(* Managed Caddy fragments (backend/internal/approutes, internal/devproxy  *)
(* and normalizeCaddyFragments in backend/main.go): create, update, rename *)
(* and delete requests that write a fragment in place, have `caddy adapt`  *)
(* judge the whole tree, put the old text back when it objects, and        *)
(* `caddy reload` the running instance.  Nothing serialises the requests.  *)
(* The two packages run the same code over two directories of one tree; a  *)
(* name here is a fragment of either.                                      *)
(*                                                                         *)
(* A fragment's text is Bad (caddy rejects it), Stale (an older template's *)
(* output: valid, and rewritten at start) or anything else (valid).  caddy *)
(* is external: adapt and reload fail on a tree with a bad fragment, and   *)
(* may fail besides (no caddy, or the client is gone and its context with  *)
(* it).  A reload reads the tree first and hands it to caddy afterwards.   *)
(***************************************************************************)
EXTENDS Naturals, FiniteSets

CONSTANTS
  Reqs,        \* request goroutines
  Names,       \* fragment names
  Texts,       \* texts a structured form renders to
  Bad, Stale, Missing, NoName,
  Ops,         \* which operations are requested
  MaxAtWork,   \* bound on goroutines at work at once, normalisation included
  Boot,        \* whether Init is a start of router-manager, with fragments to visit
  Distinct,    \* whether requests in flight are known to use distinct names
  MayCrash,    \* whether router-manager may die in mid-request
  MayTear      \* whether a write may fail, or end with the process, half way

ASSUME FragmentSets ==
  /\ IsFiniteSet(Reqs)
  /\ Texts # {}
  /\ Bad \notin Texts /\ Stale \notin Texts /\ Missing \notin Texts
  /\ Bad # Stale /\ Bad # Missing /\ Stale # Missing
  /\ NoName \notin Names
  /\ Ops \subseteq {"create", "update", "raw", "delete"}
  /\ MaxAtWork \in Nat
  /\ Boot \in BOOLEAN
  /\ Distinct \in BOOLEAN
  /\ MayCrash \in BOOLEAN
  /\ MayTear \in BOOLEAN

VARIABLES
  file,   \* the tree on disk
  live,   \* the tree the running caddy serves
  up,     \* whether caddy runs
  pc,     \* where each request is
  req,    \* its arguments and locals
  norm,   \* normalizeCaddyFragments: names still to visit and the text it read
  saved,  \* history: the tree according to the answers given since the start
  clean   \* history: the last answer, or log line, reported success

vars == <<file, live, up, pc, req, norm, saved, clean>>

Text == Texts \cup {Bad, Stale}
Tree == [Names -> Text \cup {Missing}]

\* `caddy adapt` on a tree: every fragment in it is valid.
Adapts(tree) == \A n \in Names : tree[n] # Bad

Locals(op, name, old, text) ==
  [op |-> op, name |-> name, old |-> old, text |-> text, prev |-> Missing,
   snap |-> [n \in Names |-> Missing]]
NoReq == Locals("none", NoName, NoName, Missing)

InFlight == {r \in Reqs : pc[r] # "idle"}
Normalizing == norm.todo # {} \/ norm.text # Missing \/ norm.changed
AtWork == Cardinality(InFlight) + (IF Normalizing THEN 1 ELSE 0)
Uses(r) == {req[r].name, req[r].old}

Goto(r, to) == pc' = [pc EXCEPT ![r] = to]

\* The handler answers; ok tells whether it reported success.
Answer(r, ok) ==
  /\ Goto(r, "idle")
  /\ req' = [req EXCEPT ![r] = NoReq]
  /\ clean' = ok

Arrive(r, fields, to) ==
  /\ fields.op \in Ops
  /\ pc[r] = "idle"
  /\ AtWork < MaxAtWork
  /\ Distinct => \A q \in InFlight : Uses(q) \cap {fields.name, fields.old} \subseteq {NoName}
  /\ Goto(r, to)
  /\ req' = [req EXCEPT ![r] = fields]
  /\ UNCHANGED <<file, live, up, norm, saved, clean>>

----------------------------------------------------------------------------
(* The entry checks.  A request they refuse changes nothing.               *)

Create(r, n, t) ==
  /\ file[n] = Missing
  /\ Arrive(r, Locals("create", n, NoName, t), "read")

\* UpdateStructured, under the same name or renaming old to n.
UpdateStructured(r, old, n, t) ==
  /\ file[old] # Missing
  /\ old # n => file[n] = Missing
  /\ Arrive(r, Locals("update", n, IF old = n THEN NoName ELSE old, t), "read")

\* UpdateRaw takes any text.
UpdateRaw(r, n, t) ==
  /\ file[n] # Missing
  /\ Arrive(r, Locals("raw", n, NoName, t), "read")

Delete(r, n) ==
  /\ file[n] # Missing
  /\ Arrive(r, Locals("delete", n, n, Missing), "unlink")

----------------------------------------------------------------------------
(* writeAndValidate.                                                       *)

\* Mutant of ReadPrevious: a rename takes the old fragment away first.
ReadPreviousUnlinks(r) ==
  /\ pc[r] = "read"
  /\ req' = [req EXCEPT ![r].prev = file[req[r].name]]
  /\ file' = [n \in Names |-> IF n = req[r].old THEN Missing ELSE file[n]]
  /\ Goto(r, "write")
  /\ UNCHANGED <<live, up, norm, saved, clean>>

ReadPrevious(r) ==
  /\ pc[r] = "read"
  /\ req' = [req EXCEPT ![r].prev = file[req[r].name]]
  /\ Goto(r, "write")
  /\ UNCHANGED <<file, live, up, norm, saved, clean>>

\* What os.WriteFile leaves when it does not get to its end: the old file, or a
\* truncated one that caddy may or may not accept.
Torn(n) ==
  \/ UNCHANGED file
  \/ MayTear /\ \E t \in Texts \cup {Bad} : file' = [file EXCEPT ![n] = t]

WriteFragment(r) ==
  /\ pc[r] = "write"
  /\ file' = [file EXCEPT ![req[r].name] = req[r].text]
  /\ Goto(r, "adapt")
  /\ UNCHANGED <<live, up, req, norm, saved, clean>>

WriteFails(r) ==
  /\ pc[r] = "write"
  /\ Torn(req[r].name)
  /\ Answer(r, FALSE)
  /\ UNCHANGED <<live, up, norm, saved>>

\* adapt succeeds: on to the rename's removal, or to the reload.
AdaptOk(r) ==
  /\ pc[r] = "adapt"
  /\ Adapts(file)
  /\ Goto(r, IF req[r].op = "update" /\ req[r].old # NoName THEN "unlink" ELSE "reload")
  /\ UNCHANGED <<file, live, up, req, norm, saved, clean>>

\* adapt fails in writeAndValidate: the previous content is restored.
AdaptFails(r) ==
  /\ pc[r] = "adapt"
  /\ req[r].op # "delete"
  /\ Goto(r, "restore")
  /\ UNCHANGED <<file, live, up, req, norm, saved, clean>>

\* Mutants of Restore: a rejected text stays; or it is removed, although there was
\* a fragment before.
RestoreRemoves(r) ==
  /\ pc[r] = "restore"
  /\ file' = [file EXCEPT ![req[r].name] = Missing]
  /\ Answer(r, FALSE)
  /\ UNCHANGED <<live, up, norm, saved>>

RestoreSkipped(r) ==
  /\ pc[r] = "restore"
  /\ Answer(r, FALSE)
  /\ UNCHANGED <<file, live, up, norm, saved>>

\* A failure of the restoring write itself is ignored.
Restore(r) ==
  /\ pc[r] = "restore"
  /\ \/ file' = [file EXCEPT ![req[r].name] = req[r].prev]
     \/ MayTear /\ Torn(req[r].name)
  /\ Answer(r, FALSE)
  /\ UNCHANGED <<live, up, norm, saved>>

\* os.Remove: of the old name in a rename, of the name itself in Delete, which
\* has adapt look at the remaining tree afterwards.  When somebody else has taken
\* the file away meanwhile, the answer is an error, and there is no reload.
Unlink(r) ==
  /\ pc[r] = "unlink"
  /\ IF file[req[r].old] # Missing
     THEN /\ file' = [file EXCEPT ![req[r].old] = Missing]
          /\ Goto(r, IF req[r].op = "delete" THEN "adapt" ELSE "reload")
          /\ UNCHANGED <<req, clean>>
     ELSE Answer(r, FALSE) /\ UNCHANGED file
  /\ UNCHANGED <<live, up, norm, saved>>

\* What the answers say is on disk once r's change has been reported as saved.
Reported(r) ==
  [n \in Names |-> IF n = req[r].old THEN Missing
                   ELSE IF n = req[r].name THEN req[r].text ELSE saved[n]]

\* "remaining Caddyfile invalid after delete": the fragment is gone all the same.
DeleteAdaptFails(r) ==
  /\ pc[r] = "adapt"
  /\ req[r].op = "delete"
  /\ saved' = Reported(r)
  /\ Answer(r, FALSE)
  /\ UNCHANGED <<file, live, up, norm>>

----------------------------------------------------------------------------
(* reloadAfterWrite.                                                       *)

ReadTree(r) ==
  /\ pc[r] = "reload"
  /\ Adapts(file)
  /\ up
  /\ req' = [req EXCEPT ![r].snap = file]
  /\ Goto(r, "load")
  /\ UNCHANGED <<file, live, up, norm, saved, clean>>

Load(r) ==
  /\ pc[r] = "load"
  /\ up
  /\ live' = req[r].snap
  /\ saved' = Reported(r)
  /\ Answer(r, TRUE)
  /\ UNCHANGED <<file, up, norm>>

\* Mutant of ReloadFails: the error of caddy reload is dropped.
ReloadFailsSilently(r) ==
  /\ pc[r] \in {"reload", "load"}
  /\ saved' = Reported(r)
  /\ Answer(r, TRUE)
  /\ UNCHANGED <<file, live, up, norm>>

\* ErrReloadFailed: saved, but caddy may still serve the old tree.
ReloadFails(r) ==
  /\ pc[r] \in {"reload", "load"}
  /\ saved' = Reported(r)
  /\ Answer(r, FALSE)
  /\ UNCHANGED <<file, live, up, norm>>

\* The reload button: one caddy reload, of whatever is on disk.
handleReload ==
  \E ok \in BOOLEAN :
    /\ ok => up /\ Adapts(file)
    /\ live' = IF ok THEN file ELSE live
    /\ clean' = ok
    /\ UNCHANGED <<file, up, pc, req, norm, saved>>

----------------------------------------------------------------------------
(* normalizeCaddyFragments: a goroutine that main() starts.                *)

Rendered(t) == CHOOSE u \in Texts : TRUE

\* Normalize reads one of the fragments it listed.
NormalizeRead(n) ==
  /\ norm.text = Missing
  /\ n \in norm.todo
  /\ norm' = [norm EXCEPT !.todo = @ \ {n}, !.name = n,
                          !.text = IF file[n] = Stale THEN Stale ELSE Missing]
  /\ UNCHANGED <<file, live, up, pc, req, saved, clean>>

\* It writes the re-rendered text back, unvalidated.
NormalizeWrite ==
  /\ norm.text # Missing
  /\ file' = [file EXCEPT ![norm.name] = Rendered(norm.text)]
  /\ norm' = [norm EXCEPT !.text = Missing, !.changed = TRUE]
  /\ UNCHANGED <<live, up, pc, req, saved, clean>>

\* The write fails: that package's pass ends there, with what it has changed.
NormalizeWriteFails ==
  /\ norm.text # Missing
  /\ \E rest \in SUBSET norm.todo :
       norm' = [norm EXCEPT !.text = Missing, !.todo = rest]
  /\ clean' = FALSE
  /\ Torn(norm.name)
  /\ UNCHANGED <<live, up, pc, req, saved>>

\* Then up to five reloads: one gets through, or they are given up with a line in
\* the log.
NormalizeReload ==
  /\ norm.changed /\ norm.todo = {} /\ norm.text = Missing
  /\ up
  /\ Adapts(file)
  /\ live' = file
  /\ clean' = TRUE
  /\ norm' = [norm EXCEPT !.changed = FALSE]
  /\ UNCHANGED <<file, up, pc, req, saved>>

NormalizeGivesUp ==
  /\ norm.changed /\ norm.todo = {} /\ norm.text = Missing
  /\ clean' = FALSE
  /\ norm' = [norm EXCEPT !.changed = FALSE]
  /\ UNCHANGED <<file, live, up, pc, req, saved>>

----------------------------------------------------------------------------
(* caddy, and router-manager's own end.                                    *)

CaddyStops ==
  /\ up
  /\ up' = FALSE
  /\ UNCHANGED <<file, live, pc, req, norm, saved, clean>>

CaddyStarts ==
  /\ ~up
  /\ Adapts(file)
  /\ up' = TRUE
  /\ live' = file
  /\ UNCHANGED <<file, pc, req, norm, saved, clean>>

Booting(todo) == [todo |-> todo, name |-> NoName, text |-> Missing, changed |-> FALSE]

Crash ==
  /\ MayCrash
  /\ pc' = [r \in Reqs |-> "idle"]
  /\ req' = [r \in Reqs |-> NoReq]
  /\ \/ UNCHANGED file
     \/ \E r \in Reqs : pc[r] = "write" /\ Torn(req[r].name)
  /\ norm' = Booting({n \in Names : file'[n] # Missing})
  /\ saved' = file'
  /\ clean' = FALSE
  /\ UNCHANGED <<live, up>>

Init ==
  /\ file \in [Names -> Texts \cup {Stale, Missing}]
  /\ live = file
  /\ up = TRUE
  /\ pc = [r \in Reqs |-> "idle"]
  /\ req = [r \in Reqs |-> NoReq]
  /\ norm = Booting({n \in Names : Boot /\ file[n] # Missing})
  /\ saved = file
  /\ clean = TRUE

Request(r) ==
  \/ \E n \in Names, t \in Texts : Create(r, n, t)
  \/ \E old, n \in Names, t \in Texts : UpdateStructured(r, old, n, t)
  \/ \E n \in Names, t \in Text : UpdateRaw(r, n, t)
  \/ \E n \in Names : Delete(r, n)

Step(r) ==
  \/ ReadPrevious(r) \/ WriteFragment(r) \/ WriteFails(r)
  \/ AdaptOk(r) \/ AdaptFails(r) \/ Restore(r)
  \/ Unlink(r) \/ DeleteAdaptFails(r)
  \/ ReadTree(r) \/ Load(r) \/ ReloadFails(r)

Next ==
  \/ \E r \in Reqs : Request(r) \/ Step(r)
  \/ (\E n \in Names : NormalizeRead(n)) \/ NormalizeWrite \/ NormalizeWriteFails
  \/ NormalizeReload \/ NormalizeGivesUp \/ handleReload
  \/ CaddyStops \/ CaddyStarts \/ Crash

Spec == Init /\ [][Next]_vars

----------------------------------------------------------------------------
(* Properties.                                                             *)

States == {"idle", "read", "write", "adapt", "restore", "unlink", "reload", "load"}
Request_ == [op : {"none", "create", "update", "raw", "delete"},
             name : Names \cup {NoName}, old : Names \cup {NoName},
             text : Text \cup {Missing}, prev : Text \cup {Missing}, snap : Tree]

\* Every variable holds a value of its kind.
TypeOK ==
  /\ file \in Tree
  /\ live \in Tree
  /\ up \in BOOLEAN
  /\ pc \in [Reqs -> States]
  /\ req \in [Reqs -> Request_]
  /\ norm \in [todo : SUBSET Names, name : Names \cup {NoName},
               text : {Stale, Missing}, changed : BOOLEAN]
  /\ saved \in Tree
  /\ clean \in BOOLEAN

AtRest == InFlight = {} /\ ~Normalizing

\* With nothing at work the whole tree adapts: a rejected text is never left
\* behind to fail every later save and the next start of caddy
\* (writeAndValidate).
TreeAdapts == AtRest => Adapts(file)

\* With nothing at work the disk holds what the answers said it holds: what
\* was reported as saved is there, and what was refused left no trace
\* (writeAndValidate, UpdateStructured, Delete).
AnswersMatchDisk == AtRest => file = saved

\* At every moment of a rename, a crash included, the app exists under the old or
\* under the new name (UpdateStructured: "a bad rename never leaves the app
\* missing").
RenameKeepsApp ==
  \A r \in Reqs :
    req[r].op = "update" /\ req[r].old # NoName
      => file[req[r].old] # Missing \/ file[req[r].name] # Missing

\* When the last answer was a success and nothing is at work, the running caddy
\* serves the tree on disk (reloadAfterWrite).
ServedIsSaved == AtRest /\ up /\ clean => live = file

----------------------------------------------------------------------------
(* The inductive invariants behind the theorems of CaddyFragmentsProofs.   *)

\* The arguments a request has at each point of its handler.
ReqShape ==
  \A r \in Reqs :
    /\ pc[r] = "idle" => req[r] = NoReq
    /\ pc[r] # "idle" => req[r].name \in Names /\ req[r].op # "none"
    /\ req[r].op \in {"create", "raw"} => req[r].old = NoName
    /\ req[r].op = "update" => req[r].old # req[r].name
    /\ req[r].op = "delete" => req[r].old = req[r].name /\ req[r].text = Missing
    /\ req[r].op \in {"update", "create"} => req[r].text # Bad
    /\ pc[r] # "idle" /\ req[r].op # "delete" => req[r].text # Missing
    /\ pc[r] = "unlink" => req[r].old # NoName
    /\ pc[r] \in {"read", "write", "restore"} => req[r].op # "delete"

\* Requests in flight have no name in common.
NamesApart ==
  \A p, q \in InFlight : p # q => Uses(p) \cap Uses(q) \subseteq {NoName}

\* A bad text is on disk only until the request that wrote it takes it back, and
\* what that request will put back is not bad.
BadOwned ==
  \A n \in Names : file[n] = Bad =>
    \E r \in Reqs : /\ req[r].name = n
                   /\ pc[r] \in {"adapt", "restore"}
                   /\ req[r].op # "delete"
PrevGood ==
  \A r \in Reqs : pc[r] \in {"write", "adapt", "restore"} /\ req[r].op # "delete"
                   => req[r].prev # Bad

TreeInv == TypeOK /\ ReqShape /\ NamesApart /\ BadOwned /\ PrevGood

\* How the disk differs from what the answers said, for a request in flight.
Pending(r) ==
  LET q == req[r] IN
    /\ pc[r] = "write" => q.prev = saved[q.name]
    /\ pc[r] \in {"adapt", "restore"} /\ q.op # "delete" => q.prev = saved[q.name]
    /\ pc[r] \in {"read", "write"} => file[q.name] = saved[q.name]
    /\ pc[r] \in {"read", "write", "adapt", "restore", "unlink"}
         /\ q.old # NoName => file[q.old] # Missing \/ (pc[r] = "adapt" /\ q.op = "delete")
    /\ pc[r] \in {"read", "write", "adapt", "restore", "unlink"}
         /\ q.op # "delete" /\ q.old # NoName => file[q.old] = saved[q.old]
    /\ pc[r] = "adapt" => file[q.name] = q.text
    /\ pc[r] = "unlink" => file[q.name] = IF q.op = "delete" THEN saved[q.name] ELSE q.text
    /\ pc[r] \in {"reload", "load"} =>
         file[q.name] = q.text /\ (q.old # NoName => file[q.old] = Missing)

Untouched ==
  \A n \in Names : (\A r \in InFlight : n \notin Uses(r)) => file[n] = saved[n]

\* normalizeCaddyFragments has nothing left to do.
Settled == norm.todo = {} /\ norm.text = Missing

DiskInv ==
  /\ TypeOK /\ ReqShape /\ NamesApart
  /\ (\A r \in InFlight : Pending(r)) /\ Untouched /\ Settled

\* A rename removes the old fragment only once the new one is there, whatever
\* crashes, torn writes and normalisation do meanwhile.
RenameSteps ==
  \A r \in Reqs :
    req[r].op = "update" /\ req[r].old # NoName =>
      /\ pc[r] \in {"read", "write", "adapt", "restore", "unlink"} => file[req[r].old] # Missing
      /\ pc[r] \in {"adapt", "unlink", "reload", "load"} => file[req[r].name] # Missing

RenameInv == TypeOK /\ ReqShape /\ NamesApart /\ RenameSteps

\* Requests come one at a time, and normalisation is over first.
OneAtWork == MaxAtWork = 1

Alone ==
  /\ \A p, q \in InFlight : p = q
  /\ InFlight # {} => ~Normalizing

\* Then what a request hands to caddy is still the tree on disk, and between
\* requests caddy serves that tree unless a failure was reported.
SnapCurrent == \A r \in Reqs : pc[r] = "load" => req[r].snap = file
ServedSettled == InFlight = {} /\ ~norm.changed /\ up /\ clean => live = file

ServedInv == RenameInv /\ Alone /\ SnapCurrent /\ ServedSettled
=============================================================================
