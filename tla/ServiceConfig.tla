--------------------------- MODULE ServiceConfig ---------------------------
(***************************************************************************)
(* The tabs that edit a program's configuration and restart the program:   *)
(* Tailscale (forwards, publish, global settings), DNS (blocklist sources) *)
(* and tinyauth (users).  A request reads the file, writes it with one     *)
(* entry changed and has supervisord stop and start the program, which     *)
(* reads its configuration some time after its start.  The Tailscale and   *)
(* DNS packages hold a mutex from the read to the write; tinyauthusers has *)
(* none, and renders the file that tinyauth reads in a step of its own.    *)
(***************************************************************************)
EXTENDS Naturals, FiniteSets

CONSTANTS
  Reqs,     \* handler goroutines
  Names,    \* names of forwards, publishes, sources and users
  Vals,     \* contents of an entry
  Lists,    \* the lists in use, of AllLists
  Apart,    \* packages that no two requests of a run use at the same time
  MayFail,  \* whether writes and calls may fail and router-manager may die
  Absent, Legacy, Whole, Unread, Nobody

AllLists == {"global", "forwards", "publish", "sources", "users"}
Pkg == [global |-> "tailscale", forwards |-> "tailscale", publish |-> "tailscale",
        sources |-> "dns", users |-> "tinyauth"]
Prog == [global |-> "tailscale-forward", forwards |-> "tailscale-forward",
         publish |-> "tailscale-publish", sources |-> "dns", users |-> "tinyauth"]

ASSUME ServiceConstants ==
  /\ Lists # {} /\ Lists \subseteq AllLists
  /\ Absent \notin Vals /\ Legacy \notin Vals /\ Absent # Legacy
  /\ Whole \notin Names
  /\ Nobody \notin Reqs

Pkgs == {Pkg[l] : l \in Lists}
Progs == {Prog[l] : l \in Lists}

\* An entry is named by its list and its name; the global settings are a single one.
Slots == {s \in Lists \X (Names \cup {Whole}) : (s[1] = "global") <=> (s[2] = Whole)}
Entry == Vals \cup {Absent, Legacy}
Kinds == {"add", "update", "delete"}

VARIABLES
  doc,    \* the stored entries
  env,    \* tinyauth's env file: the users it lets in
  mu,     \* the holder of each package's mutex
  pc,     \* where each request is
  req,    \* its edit
  loaded, \* what it has read of its file
  up,     \* the programs that run
  read,   \* what each program has read since its start
  told    \* history: programs with an error answered, or lost, since their last start

vars == <<doc, env, mu, pc, req, loaded, up, read, told>>
files == <<doc, env>>

InFlight == {r \in Reqs : pc[r] # "idle"}
list(r) == req[r].slot[1]
prog(r) == Prog[list(r)]
pkg(r) == Pkg[list(r)]

FileOf(k) == [s \in {t \in Slots : Pkg[t[1]] = k} |-> doc[s]]

\* What a program reads at its start: its lists, or the rendered env file.
View(p) == IF p = "tinyauth" THEN env ELSE [s \in {t \in Slots : Prog[t[1]] = p} |-> doc[s]]

\* The users of the env file: one whose hash never reached the disk is left out, since
\* tinyauth would reject the whole list for it.
Rendered(d) ==
  [n \in Names |-> LET e == d[<<"users", n>>] IN IF e = Legacy THEN Absent ELSE e]

NoEdit(l) == [kind |-> "none", slot |-> <<l, Whole>>, val |-> Absent]
Idle == NoEdit(CHOOSE l \in Lists : TRUE)

\* The request is answered, and its locals are gone.
Answer(r) ==
  /\ pc' = [pc EXCEPT ![r] = "idle"]
  /\ req' = [req EXCEPT ![r] = Idle]
  /\ loaded' = [loaded EXCEPT ![r] = Unread]

Unlock(r) == mu' = [p \in Pkgs |-> IF mu[p] = r THEN Nobody ELSE mu[p]]

----------------------------------------------------------------------------
(* The package: load, check, save.                                         *)

\* A request has passed its validation.
Arrive(r, kind, s, v) ==
  /\ pc[r] = "idle"
  /\ Pkg[s[1]] \in Apart => \A t \in InFlight : pkg(t) # Pkg[s[1]]
  /\ s[1] = "global" => kind = "update"
  /\ pc' = [pc EXCEPT ![r] = "load"]
  /\ req' = [req EXCEPT ![r] = [kind |-> kind, slot |-> s,
                                 val |-> IF kind = "delete" THEN Absent ELSE v]]
  /\ UNCHANGED <<files, mu, loaded, up, read, told>>

\* Adding needs the name to be free, everything else an entry of that name; the global
\* settings have their defaults when they are absent.
Fits(r) ==
  list(r) = "global" \/ ((req[r].kind = "add") <=> (doc[req[r].slot] = Absent))

\* The file is read and found to fit the edit.
Read(r) ==
  /\ pc[r] = "load"
  /\ Fits(r)
  /\ pc' = [pc EXCEPT ![r] = "save"]
  /\ loaded' = [loaded EXCEPT ![r] = FileOf(pkg(r))]
  /\ UNCHANGED <<files, req, up, read, told>>

\* Mutant of Load: the mutex is not waited for.
LoadUnlocked(r) ==
  /\ pkg(r) # "tinyauth"
  /\ Read(r)
  /\ mu' = [mu EXCEPT ![pkg(r)] = r]

\* Tailscale and DNS: under the package's mutex.
Load(r) ==
  /\ pkg(r) # "tinyauth"
  /\ mu[pkg(r)] = Nobody
  /\ Read(r)
  /\ mu' = [mu EXCEPT ![pkg(r)] = r]

\* tinyauthusers has no mutex.
LoadUsers(r) ==
  /\ pkg(r) = "tinyauth"
  /\ Read(r)
  /\ UNCHANGED mu

\* The name is taken, or there is no such entry.
LoadRefuses(r) ==
  /\ pc[r] = "load"
  /\ mu[pkg(r)] = Nobody
  /\ ~Fits(r)
  /\ Answer(r)
  /\ UNCHANGED <<files, mu, up, read, told>>

\* The whole file is replaced, in one rename.
Write(r) ==
  /\ pc[r] = "save"
  /\ doc' = [s \in Slots |-> CASE s = req[r].slot -> req[r].val
                               [] s # req[r].slot /\ Pkg[s[1]] = pkg(r) -> loaded[r][s]
                               [] OTHER -> doc[s]]
  /\ Unlock(r)
  /\ UNCHANGED <<env, up, read, told>>

\* On to a later step, with nothing kept of the edit but its list.
Proceed(r, at) ==
  /\ pc' = [pc EXCEPT ![r] = at]
  /\ req' = [req EXCEPT ![r] = NoEdit(list(r))]
  /\ loaded' = [loaded EXCEPT ![r] = Unread]

\* Mutant of Save: the program is not restarted for an entry that is gone.
SaveWithoutRestart(r) ==
  /\ pkg(r) # "tinyauth"
  /\ Write(r)
  /\ IF req[r].kind = "delete" THEN Answer(r) ELSE Proceed(r, "stop")

Save(r) ==
  /\ pkg(r) # "tinyauth"
  /\ Write(r)
  /\ Proceed(r, "stop")

\* Mutant of SaveUsers: tinyauth is restarted on the env file as it was.
SaveUsersUnrendered(r) ==
  /\ pkg(r) = "tinyauth"
  /\ Write(r)
  /\ Proceed(r, "stop")

SaveUsers(r) ==
  /\ pkg(r) = "tinyauth"
  /\ Write(r)
  /\ Proceed(r, "list")

SaveFails(r) ==
  /\ MayFail /\ pc[r] = "save"
  /\ Unlock(r)
  /\ Answer(r)
  /\ UNCHANGED <<files, up, read, told>>

----------------------------------------------------------------------------
(* applyTinyauthUsers: the stored users are read again and rendered.       *)

ListUsers(r) ==
  /\ pc[r] = "list"
  /\ pc' = [pc EXCEPT ![r] = "render"]
  /\ loaded' = [loaded EXCEPT ![r] = FileOf("tinyauth")]
  /\ UNCHANGED <<files, mu, req, up, read, told>>

RenderEnvFile(r) ==
  /\ pc[r] = "render"
  /\ env' = Rendered(loaded[r])
  /\ pc' = [pc EXCEPT ![r] = "stop"]
  /\ loaded' = [loaded EXCEPT ![r] = Unread]
  /\ UNCHANGED <<doc, mu, req, up, read, told>>

\* An error, after the store has been changed.
RenderFails(r) ==
  /\ MayFail /\ pc[r] \in {"list", "render"}
  /\ told' = told \cup {prog(r)}
  /\ Answer(r)
  /\ UNCHANGED <<files, mu, up, read>>

----------------------------------------------------------------------------
(* restartSupervisorProgram, with the request's context.                   *)

Stopped(p) == up' = up \ {p} /\ read' = [read EXCEPT ![p] = Unread]
Started(p) == p \notin up /\ up' = up \cup {p} /\ UNCHANGED read

\* NOT_RUNNING is as good as stopped.
StopProcess(r) ==
  /\ pc[r] = "stop"
  /\ Stopped(prog(r))
  /\ pc' = [pc EXCEPT ![r] = "start"]
  /\ UNCHANGED <<files, mu, req, loaded, told>>

\* The call is lost, or the client goes away; supervisord may have done it all the same.
StopFails(r) ==
  /\ MayFail /\ pc[r] = "stop"
  /\ Stopped(prog(r)) \/ UNCHANGED <<up, read>>
  /\ told' = told \cup {prog(r)}
  /\ Answer(r)
  /\ UNCHANGED <<files, mu>>

StartProcess(r) ==
  /\ pc[r] = "start"
  /\ Started(prog(r))
  /\ told' = told \ {prog(r)}
  /\ Answer(r)
  /\ UNCHANGED <<files, mu>>

\* ALREADY_STARTED, after another request's start.
AlreadyStarted(r) ==
  /\ pc[r] = "start"
  /\ prog(r) \in up
  /\ told' = told \cup {prog(r)}
  /\ Answer(r)
  /\ UNCHANGED <<files, mu, up, read>>

\* SPAWN_ERROR, or the call or its answer is lost.
StartFails(r) ==
  /\ MayFail /\ pc[r] = "start"
  /\ prog(r) \notin up
  /\ Started(prog(r)) \/ UNCHANGED <<up, read>>
  /\ told' = told \cup {prog(r)}
  /\ Answer(r)
  /\ UNCHANGED <<files, mu>>

----------------------------------------------------------------------------
(* The programs and supervisord, and the death of router-manager.          *)

ReadConfig(p) ==
  /\ p \in up /\ read[p] = Unread
  /\ read' = [read EXCEPT ![p] = View(p)]
  /\ UNCHANGED <<files, mu, pc, req, loaded, up, told>>

\* A program exits, and supervisord starts it again.
Respawn(p) ==
  /\ p \in up
  /\ read' = [read EXCEPT ![p] = Unread]
  /\ UNCHANGED <<files, mu, pc, req, loaded, up, told>>

Crash ==
  /\ MayFail /\ InFlight # {}
  /\ told' = told \cup {prog(r) : r \in {s \in InFlight : pc[s] \notin {"load", "save"}}}
  /\ pc' = [r \in Reqs |-> "idle"]
  /\ req' = [r \in Reqs |-> Idle]
  /\ loaded' = [r \in Reqs |-> Unread]
  /\ mu' = [p \in Pkgs |-> Nobody]
  /\ UNCHANGED <<files, up, read>>

----------------------------------------------------------------------------

\* A users file of an older release may hold users without a hash; none is rendered.
Init ==
  /\ doc \in {d \in [Slots -> {Absent, Legacy}] :
               \A s \in Slots : d[s] = Legacy => s[1] = "users"}
  /\ env = [n \in Names |-> Absent]
  /\ mu = [p \in Pkgs |-> Nobody]
  /\ pc = [r \in Reqs |-> "idle"]
  /\ req = [r \in Reqs |-> Idle]
  /\ loaded = [r \in Reqs |-> Unread]
  /\ up = Progs
  /\ read = [p \in Progs |-> Unread]
  /\ told = {}

Step(r) ==
  \/ Load(r) \/ LoadUsers(r) \/ LoadRefuses(r)
  \/ Save(r) \/ SaveUsers(r) \/ SaveFails(r)
  \/ ListUsers(r) \/ RenderEnvFile(r) \/ RenderFails(r)
  \/ StopProcess(r) \/ StopFails(r)
  \/ StartProcess(r) \/ AlreadyStarted(r) \/ StartFails(r)

Next ==
  \/ \E r \in Reqs, kind \in Kinds, s \in Slots, v \in Vals : Arrive(r, kind, s, v)
  \/ \E r \in Reqs : Step(r)
  \/ \E p \in Progs : ReadConfig(p) \/ Respawn(p)
  \/ Crash

Spec == Init /\ [][Next]_vars

----------------------------------------------------------------------------
(* Properties.                                                             *)

Edit == [kind : Kinds \cup {"none"}, slot : Lists \X (Names \cup {Whole}), val : Entry]
Files == UNION {[{t \in Slots : Pkg[t[1]] = k} -> Entry] : k \in Pkgs}
Views == [Names -> Entry] \cup UNION {[{t \in Slots : Prog[t[1]] = p} -> Entry] : p \in Progs}

\* Every variable holds a value of its kind.
TypeOK ==
  /\ doc \in [Slots -> Entry]
  /\ env \in [Names -> Entry]
  /\ mu \in [Pkgs -> Reqs \cup {Nobody}]
  /\ pc \in [Reqs -> {"idle", "load", "save", "list", "render", "stop", "start"}]
  /\ req \in [Reqs -> Edit]
  /\ loaded \in [Reqs -> {Unread} \cup Files]
  /\ up \subseteq Progs /\ told \subseteq Progs
  /\ read \in [Progs -> {Unread} \cup Views]

\* A request at its package has an entry to edit; only users are listed and rendered.
EditFits ==
  \A r \in Reqs : /\ pc[r] \in {"load", "save"} => req[r].slot \in Slots
                  /\ pc[r] \in {"list", "render"} => list(r) = "users"

\* A mutex is held by the request that is about to save, and by no other; requests of
\* a package without one have been kept apart.
MutexHeld ==
  /\ \A p \in Pkgs, r \in Reqs : mu[p] = r => pc[r] = "save" /\ pkg(r) = p
  /\ \A r \in Reqs : pc[r] = "save" /\ pkg(r) # "tinyauth" => mu[pkg(r)] = r
  /\ \A r, s \in Reqs : r # s /\ pc[r] # "idle" /\ pc[s] # "idle" /\ pkg(r) = pkg(s)
                        => pkg(r) \notin Apart

\* What a request is about to write, or to render, was read from the file as it is.
LoadedIsStored ==
  \A r \in Reqs : pc[r] \in {"save", "render"} => loaded[r] = FileOf(pkg(r))

\* A program that is down has read nothing since its last start.
DownUnread == \A p \in Progs \ up : read[p] = Unread

\* From the rendering to the answer the env file is the stored users'.
EnvFresh ==
  \A r \in Reqs : pc[r] \in {"stop", "start"} /\ list(r) = "users" => env = Rendered(doc)

\* The inductive invariant, when Apart has the package without a mutex.
ServiceInv == TypeOK /\ EditFits /\ MutexHeld /\ LoadedIsStored /\ DownUnread /\ EnvFresh

\* A write changes its own entry and no other: no request writes a file that it read
\* before another request's change (the packages' mutexes, from load to save).
EditsKept ==
  [][\E r \in Reqs : /\ pc[r] = "save"
                    /\ \A s \in Slots \ {req[r].slot} : doc'[s] = doc[s]]_doc

\* No request is between the save and the answer of an edit of the program's lists.
Settled(p) == \A r \in InFlight : prog(r) = p => pc[r] \in {"load", "save"}

\* Success means live: unless an error was answered or router-manager died since, a
\* program whose requests are done runs, and on the stored configuration or about
\* to read it (every mutating handler restarts its program after its save).
SuccessIsLive ==
  \A p \in Progs \ told :
    Settled(p) => p \in up /\ (read[p] # Unread => read[p] = View(p))

\* The users that tinyauth reads are the stored ones that have a hash (the handlers
\* render them after every change).
EnvIsStored ==
  "users" \in Lists /\ "tinyauth" \notin told /\ Settled("tinyauth") => env = Rendered(doc)
=============================================================================
