------------------------------ MODULE Netgate ------------------------------
(***************************************************************************)
(* Netgate's outbound policy, port forwards and shaping: the package that  *)
(* edits the live configuration (backend/internal/netgate and              *)
(* backend/handlers_netgate.go) and the two scripts that read it over and  *)
(* over and apply it (config/netgate/firewall.default.sh and               *)
(* shaping.default.sh).  The scripts take no lock and share nothing with   *)
(* the package but the file.                                               *)
(*                                                                         *)
(* A network is the set of IPv4 addresses in it.  An IPv6 network has none *)
(* of them, so that the package's IPv4 checks and the IPv4 chain pass over *)
(* it as the code does.  The IPv6 chain is left out.                       *)
(***************************************************************************)
EXTENDS Naturals, Sequences

CONSTANTS
  Reqs,          \* mutating requests, each made once
  Nets,          \* the networks that outbound rules name
  privateV4,     \* networks that are to stay blocked
  fixedBlockV4,  \* networks that the script always blocks
  MaxRules,      \* bound on the length of an outbound list
  Ports,         \* host ports
  Targets,       \* forward targets that validateHost and targetguard let through
  Bandwidths,    \* bandwidth documents that SetBandwidth lets through
  Defaults,      \* what config.default.yaml holds, in one image or another
  Overrides,     \* what config.override.yaml holds, or NoFile
  CutFiles,      \* what a seeding that fails may leave at LiveConfigPath
  MaxFaults,     \* bound on reboots, programs that die and rejected commits
  NoBandwidth, NoTarget, NoFile, Empty, Garbled, NoChain, Nobody

Rule == [action : {"allow", "block"}, net : Nets]
Lists == UNION {[1 .. n -> Rule] : n \in 0 .. MaxRules}
fileConfig == [outbound  : Lists,
               forwards  : [Ports -> Targets \cup {NoTarget}],
               bandwidth : Bandwidths \cup {NoBandwidth}]
Chain == [accepts : [Ports -> Targets \cup {NoTarget}], rules : Lists]
NoForwards == [p \in Ports |-> NoTarget]
Zero == [outbound |-> << >>, forwards |-> NoForwards, bandwidth |-> NoBandwidth]

----------------------------------------------------------------------------
(* The package's check of an outbound list.                                *)

covers(outer, inner) == inner \subseteq outer

overlaps(a, b) == a \cap b # {}

\* Refuses a list that would stop blocking a private range, or that allows what the
\* script always blocks.  Two networks are nested or apart, so that containment of
\* the other's first address is what covers and overlaps say.
checkV4Backstop(rules) ==
  /\ \A priv \in privateV4 :
       /\ \E i \in DOMAIN rules : covers(rules[i].net, priv)
       /\ \A i \in DOMAIN rules : covers(rules[i].net, priv) => rules[i].action = "block"
  /\ \A i \in DOMAIN rules, fixed \in fixedBlockV4 :
       rules[i].action = "allow" => ~overlaps(rules[i].net, fixed)

ASSUME NetgateConstants ==
  /\ \A priv \in privateV4 : priv # {}
  /\ MaxRules \in Nat /\ MaxFaults \in Nat
  /\ NoTarget \notin Targets /\ NoBandwidth \notin Bandwidths
  /\ Nobody \notin Reqs
  /\ {NoFile, Empty, Garbled} \cap fileConfig = {} /\ NoChain \notin Chain
  /\ NoFile # Empty /\ NoFile # Garbled /\ Empty # Garbled
  /\ CutFiles \subseteq {NoFile, Empty, Garbled}

\* The file that is shipped, and the operator's own, have the package's blocks.
ASSUME SeedConstants ==
  /\ Defaults \subseteq fileConfig /\ Overrides \subseteq fileConfig \cup {NoFile}
  /\ \A s \in Defaults \cup (Overrides \ {NoFile}) : checkV4Backstop(s.outbound)

VARIABLES
  file,     \* what is at LiveConfigPath
  seed,     \* what is at DefaultConfigPath and at OverrideConfigPath
  manager,  \* router-manager: before, in and after EnsureSeeded
  pc, req,  \* each request, and its operation and arguments
  mu, cfg,  \* the package's mutex, and what its holder has loaded
  route,    \* whether there is a default route yet
  fw, snap, \* where firewall.default.sh is in its cycle, and its config_snapshot
  filter,   \* the chain NETGATE-FORWARD: the forwards it accepts, then its rules
  nat,      \* the chain NETGATE-PREROUTING: the forwards in it
  hooked,   \* whether FORWARD and PREROUTING jump to the chains
  shaper, shape, \* where shaping.default.sh is, and the document it has read
  qdisc,    \* the bandwidth document that shapes the traffic
  faults

manages == <<manager, pc, req, mu, cfg>>
chains == <<fw, snap, filter, nat, hooked>>
shapes == <<shaper, shape, qdisc>>
vars == <<file, seed, manages, route, chains, shapes, faults>>

Seed == IF seed.override = NoFile THEN seed.default ELSE seed.override

----------------------------------------------------------------------------
(* EnsureSeeded, which main calls before it serves.                        *)

StatLive ==
  /\ manager = "start"
  /\ manager' = IF file = NoFile THEN "create" ELSE "serve"
  /\ UNCHANGED <<file, seed, pc, req, mu, cfg, route, chains, shapes, faults>>

\* os.WriteFile first makes an empty file ...
SeedCreate ==
  /\ manager = "create"
  /\ file' = Empty
  /\ manager' = "write"
  /\ UNCHANGED <<seed, pc, req, mu, cfg, route, chains, shapes, faults>>

\* ... and then writes what was read from the seed.
SeedWrite ==
  /\ manager = "write"
  /\ file' = Seed
  /\ manager' = "serve"
  /\ UNCHANGED <<seed, pc, req, mu, cfg, route, chains, shapes, faults>>

\* The seed cannot be read, or not all of it can be written: main logs the error.
SeedFails ==
  /\ manager \in {"create", "write"}
  /\ \E f \in CutFiles :
       /\ manager = "create" <=> f = NoFile
       /\ file' = f
  /\ manager' = "serve"
  /\ UNCHANGED <<seed, pc, req, mu, cfg, route, chains, shapes, faults>>

----------------------------------------------------------------------------
(* The mutating requests.                                                  *)

\* Bodies that have passed the handlers' and the package's checks.
Bodies ==
  [op : {"outbound"}, list : {l \in Lists : checkV4Backstop(l)}]
    \cup [op : {"add"}, port : Ports, target : Targets]
    \cup [op : {"delete"}, port : Ports]
    \cup [op : {"bandwidth"}, doc : Bandwidths \cup {NoBandwidth}]
NoBody == [op |-> "none"]

\* A missing file is no error, and an empty one parses.
load(f) == IF f \in {NoFile, Empty} THEN Zero ELSE f

\* What an edit makes of a configuration.
Edited(c, b) ==
  CASE b.op = "outbound"  -> [c EXCEPT !.outbound = b.list]
    [] b.op = "add"       -> [c EXCEPT !.forwards[b.port] = b.target]
    [] b.op = "delete"    -> [c EXCEPT !.forwards[b.port] = NoTarget]
    [] b.op = "bandwidth" -> [c EXCEPT !.bandwidth = b.doc]

\* ErrForwardExists and ErrForwardNotFound.
Fits(c, b) ==
  /\ b.op = "add" => c.forwards[b.port] = NoTarget
  /\ b.op = "delete" => c.forwards[b.port] # NoTarget

Arrive(r) ==
  /\ manager = "serve" /\ pc[r] = "new"
  /\ \E b \in Bodies : req' = [req EXCEPT ![r] = b]
  /\ pc' = [pc EXCEPT ![r] = "lock"]
  /\ UNCHANGED <<file, seed, manager, mu, cfg, route, chains, shapes, faults>>

\* A request is answered, and what it knew is gone.
Answered(r) ==
  /\ pc' = [pc EXCEPT ![r] = "done"]
  /\ req' = [req EXCEPT ![r] = NoBody]
  /\ cfg' = [cfg EXCEPT ![r] = Zero]

\* Mutant of Load: without mu.
LoadUnlocked(r) ==
  /\ pc[r] = "lock"
  /\ load(file) \in fileConfig /\ Fits(load(file), req[r])
  /\ cfg' = [cfg EXCEPT ![r] = load(file)]
  /\ pc' = [pc EXCEPT ![r] = "save"]
  /\ UNCHANGED <<file, seed, manager, req, mu, route, chains, shapes, faults>>

Load(r) ==
  /\ pc[r] = "lock" /\ mu = Nobody
  /\ load(file) \in fileConfig /\ Fits(load(file), req[r])
  /\ mu' = r
  /\ cfg' = [cfg EXCEPT ![r] = load(file)]
  /\ pc' = [pc EXCEPT ![r] = "save"]
  /\ UNCHANGED <<file, seed, manager, req, route, chains, shapes, faults>>

\* The file does not parse, or the forward is there already or is not there.
LoadRefuses(r) ==
  /\ pc[r] = "lock" /\ mu = Nobody
  /\ load(file) \in fileConfig => ~Fits(load(file), req[r])
  /\ Answered(r)
  /\ UNCHANGED <<file, seed, manager, mu, route, chains, shapes, faults>>

\* The document is renamed into place, and the request answered ...
Save(r) ==
  /\ pc[r] = "save"
  /\ file' = Edited(cfg[r], req[r])
  /\ mu' = Nobody
  /\ Answered(r)
  /\ UNCHANGED <<seed, manager, route, chains, shapes, faults>>

\* ... or it cannot be written.
SaveFails(r) ==
  /\ pc[r] = "save"
  /\ mu' = Nobody
  /\ Answered(r)
  /\ UNCHANGED <<file, seed, manager, route, chains, shapes, faults>>

----------------------------------------------------------------------------
(* One cycle of firewall.default.sh.  Without a default route it does not  *)
(* start.  Finding the path and reading it are one step: a live copy that  *)
(* is made in between is the seed that is read.                            *)

Resolved == IF file = NoFile THEN Seed ELSE file

\* config_is_usable.
Usable(doc) == doc \in fileConfig

\* Mutant of ReadConfig: the configuration is read only until there is a chain.
ReadOnce ==
  /\ fw = "sleep" /\ route
  /\ Usable(Resolved) /\ filter = NoChain
  /\ snap' = Resolved
  /\ fw' = "filter"
  /\ UNCHANGED <<file, seed, manages, route, filter, nat, hooked, shapes, faults>>

\* Mutant of ReadConfig: a document that is not usable reads as one without rules.
ReadUnchecked ==
  /\ fw = "sleep" /\ route
  /\ snap' = IF Usable(Resolved) THEN Resolved ELSE Zero
  /\ fw' = "filter"
  /\ UNCHANGED <<file, seed, manages, route, filter, nat, hooked, shapes, faults>>

ReadConfig ==
  /\ fw = "sleep" /\ route
  /\ Usable(Resolved)
  /\ snap' = Resolved
  /\ fw' = "filter"
  /\ UNCHANGED <<file, seed, manages, route, filter, nat, hooked, shapes, faults>>

\* The document is not usable: with a chain in place the cycle ends here, and
\* without one the shipped default is applied.
ReadDefault ==
  /\ fw = "sleep" /\ route
  /\ ~Usable(Resolved) /\ filter = NoChain
  /\ snap' = seed.default
  /\ fw' = "filter"
  /\ UNCHANGED <<file, seed, manages, route, filter, nat, hooked, shapes, faults>>

\* iptables-restore commits the filter table, with the forwards whose targets
\* resolve just now ...
CommitFilter ==
  /\ fw = "filter"
  /\ \E up \in SUBSET Targets :
       filter' = [accepts |-> [p \in Ports |->
                    IF snap.forwards[p] \in up THEN snap.forwards[p] ELSE NoTarget],
                  rules |-> snap.outbound]
  /\ fw' = "nat" /\ snap' = NoFile
  /\ UNCHANGED <<file, seed, manages, route, nat, hooked, shapes, faults>>

\* ... and then the nat table, with the same forwards.
CommitNat ==
  /\ fw = "nat"
  /\ nat' = filter.accepts
  /\ fw' = "hook"
  /\ UNCHANGED <<file, seed, manages, route, snap, filter, hooked, shapes, faults>>

\* Either may be rejected, which ends the cycle.
Rejected ==
  /\ fw \in {"filter", "nat"} /\ faults < MaxFaults
  /\ fw' = "sleep" /\ snap' = NoFile
  /\ faults' = faults + 1
  /\ UNCHANGED <<file, seed, manages, route, filter, nat, hooked, shapes>>

ensure_jump ==
  /\ fw = "hook"
  /\ hooked' = TRUE
  /\ fw' = "sleep"
  /\ UNCHANGED <<file, seed, manages, route, snap, filter, nat, shapes, faults>>

----------------------------------------------------------------------------
(* One cycle of shaping.default.sh.  A document that it cannot read has no *)
(* limits in it.                                                           *)

ReadBandwidth ==
  /\ shaper = "sleep" /\ route
  /\ shape' = IF Usable(Resolved) THEN Resolved.bandwidth ELSE NoBandwidth
  /\ shaper' = "clear"
  /\ UNCHANGED <<file, seed, manages, route, chains, qdisc, faults>>

ClearQdisc ==
  /\ shaper = "clear"
  /\ qdisc' = NoBandwidth
  /\ shaper' = IF shape = NoBandwidth THEN "sleep" ELSE "build"
  /\ UNCHANGED <<file, seed, manages, route, chains, shape, faults>>

\* Mutant of BuildQdisc: the tree is added without the limits.
BuildNothing ==
  /\ shaper = "build"
  /\ shaper' = "sleep" /\ shape' = NoBandwidth
  /\ UNCHANGED <<file, seed, manages, route, chains, qdisc, faults>>

BuildQdisc ==
  /\ shaper = "build"
  /\ qdisc' = shape
  /\ shaper' = "sleep" /\ shape' = NoBandwidth
  /\ UNCHANGED <<file, seed, manages, route, chains, faults>>

----------------------------------------------------------------------------
(* What goes wrong around them.                                            *)

RouteUp ==
  /\ ~route
  /\ route' = TRUE
  /\ UNCHANGED <<file, seed, manages, chains, shapes, faults>>

\* supervisord starts a script that dies again; the kernel keeps its chains.
FirewallDies ==
  /\ fw # "sleep" /\ faults < MaxFaults
  /\ fw' = "sleep" /\ snap' = NoFile
  /\ faults' = faults + 1
  /\ UNCHANGED <<file, seed, manages, route, filter, nat, hooked, shapes>>

ShaperDies ==
  /\ shaper # "sleep" /\ faults < MaxFaults
  /\ shaper' = "sleep" /\ shape' = NoBandwidth
  /\ faults' = faults + 1
  /\ UNCHANGED <<file, seed, manages, route, chains, qdisc>>

\* router-manager is gone, and its requests with it.  A seeding is cut short only
\* where CutFiles says that it may be.
ManagerGone ==
  /\ manager = "write" => Empty \in CutFiles
  /\ manager' = "start"
  /\ mu' = Nobody
  /\ pc' = [r \in Reqs |-> IF pc[r] = "new" THEN "new" ELSE "done"]
  /\ req' = [r \in Reqs |-> NoBody]
  /\ cfg' = [r \in Reqs |-> Zero]

ManagerDies ==
  /\ manager # "start" /\ faults < MaxFaults
  /\ ManagerGone
  /\ faults' = faults + 1
  /\ UNCHANGED <<file, seed, route, chains, shapes>>

\* The container is started again, perhaps from another image: the kernel's chains
\* and queues go with its network namespace, and the volume with the file stays.
Reboot ==
  /\ faults < MaxFaults
  /\ ManagerGone
  /\ seed' \in [default : Defaults, override : Overrides]
  /\ route' = FALSE /\ hooked' = FALSE
  /\ fw' = "sleep" /\ snap' = NoFile /\ filter' = NoChain /\ nat' = NoForwards
  /\ shaper' = "sleep" /\ shape' = NoBandwidth /\ qdisc' = NoBandwidth
  /\ faults' = faults + 1
  /\ UNCHANGED file

----------------------------------------------------------------------------
Init ==
  /\ file = NoFile
  /\ seed \in [default : Defaults, override : Overrides]
  /\ manager = "start" /\ mu = Nobody
  /\ pc = [r \in Reqs |-> "new"]
  /\ req = [r \in Reqs |-> NoBody]
  /\ cfg = [r \in Reqs |-> Zero]
  /\ route = FALSE /\ hooked = FALSE
  /\ fw = "sleep" /\ snap = NoFile /\ filter = NoChain /\ nat = NoForwards
  /\ shaper = "sleep" /\ shape = NoBandwidth /\ qdisc = NoBandwidth
  /\ faults = 0

Seeding == StatLive \/ SeedCreate \/ SeedWrite \/ SeedFails
Request(r) == Arrive(r) \/ Load(r) \/ LoadRefuses(r) \/ Save(r) \/ SaveFails(r)
Firewall == ReadConfig \/ ReadDefault \/ CommitFilter \/ CommitNat \/ ensure_jump
Shaping == ReadBandwidth \/ ClearQdisc \/ BuildQdisc
Fault == Rejected \/ FirewallDies \/ ShaperDies \/ ManagerDies \/ Reboot

Next ==
  \/ Seeding
  \/ \E r \in Reqs : Request(r)
  \/ RouteUp
  \/ Firewall
  \/ Shaping
  \/ Fault

Spec == Init /\ [][Next]_vars

\* Both scripts run for ever, router-manager is started, and the network comes up.
FairSpec ==
  /\ Spec
  /\ WF_vars(Seeding) /\ WF_vars(RouteUp) /\ WF_vars(Firewall) /\ WF_vars(Shaping)

----------------------------------------------------------------------------
(* Properties.                                                             *)

\* Type correctness: the file, the chains and the programs' places in their cycles.
TypeOK ==
  /\ file \in fileConfig \cup {NoFile, Empty, Garbled}
  /\ seed \in [default : Defaults, override : Overrides]
  /\ manager \in {"start", "create", "write", "serve"}
  /\ pc \in [Reqs -> {"new", "lock", "save", "done"}]
  /\ req \in [Reqs -> Bodies \cup {NoBody}]
  /\ mu \in Reqs \cup {Nobody} /\ cfg \in [Reqs -> fileConfig]
  /\ route \in BOOLEAN /\ hooked \in BOOLEAN
  /\ fw \in {"sleep", "filter", "nat", "hook"}
  /\ snap \in fileConfig \cup {NoFile}
  /\ filter \in Chain \cup {NoChain}
  /\ nat \in [Ports -> Targets \cup {NoTarget}]
  /\ shaper \in {"sleep", "clear", "build"}
  /\ shape \in Bandwidths \cup {NoBandwidth} /\ qdisc \in Bandwidths \cup {NoBandwidth}
  /\ faults \in 0 .. MaxFaults

\* Whether the chain lets a new connection to an address through: the fixed blocks
\* come first, then the rules in their order, and at the end FORWARD accepts.
Passes(rules, a) ==
  /\ a \notin UNION fixedBlockV4
  /\ \A i \in DOMAIN rules : a \in rules[i].net /\ rules[i].action = "block" =>
       \E j \in 1 .. i - 1 : a \in rules[j].net /\ rules[j].action = "allow"

\* An address of a private range passes only by an allow that is narrower than the
\* range, whatever the requests, the scripts' cycles, the programs' deaths and reboots
\* and the image updates in between: a chain that the kernel runs was never made from
\* a document without the blocks (firewall.default.sh:209, config.go:226).
PrivateBlocked ==
  hooked =>
    /\ filter # NoChain
    /\ \A priv \in privateV4 : \A a \in priv : Passes(filter.rules, a) =>
         \E j \in DOMAIN filter.rules :
           /\ filter.rules[j].action = "allow" /\ a \in filter.rules[j].net
           /\ ~covers(filter.rules[j].net, priv)

\* A live copy only ever changes by one accepted request's edit of what is in it at
\* that moment: no edit is lost to a concurrent one, and no seeding, image update or
\* restart touches a live copy again (config.go:41 and config.go:189).
EditKept ==
  [][(file \in fileConfig /\ file' # file) =>
       \E r \in Reqs : /\ pc[r] = "save" /\ pc'[r] = "done"
                       /\ Fits(file, req[r])
                       /\ file' = Edited(file, req[r])]_vars

\* Once the edits are over the firewall settles on the live copy, also when it began
\* with the seed or the shipped default because router-manager came later, and no
\* forward of an earlier copy stays (firewall.default.sh:14).
SettlesOnFile ==
  <>[](file \in fileConfig =>
         /\ hooked /\ filter.rules = file.outbound
         /\ \A p \in Ports : {nat[p], filter.accepts[p]} \subseteq {file.forwards[p], NoTarget})

\* The limits are in force again and again, although every cycle takes them away.
ShapingReturns == []<>(file \in fileConfig => qdisc = file.bandwidth)

\* What the proofs rest on: the mutex is held from load to save and its holder's copy
\* is what the file holds; the seeding writes only where there was no live copy; and
\* the script has read a document when it commits, and has a chain when it hooks it.
LockHolds ==
  \A r \in Reqs :
    /\ pc[r] = "save" => mu = r /\ cfg[r] = load(file) /\ Fits(cfg[r], req[r])
    /\ pc[r] \in {"lock", "save"} => manager = "serve" /\ req[r] # NoBody
SeedingFirst ==
  /\ manager = "create" => file = NoFile
  /\ manager = "write" => file = Empty
Cycle ==
  /\ fw = "filter" => snap # NoFile
  /\ hooked \/ fw \in {"nat", "hook"} => filter # NoChain
EditInv == TypeOK /\ LockHolds /\ SeedingFirst /\ Cycle

\* When no seeding is cut short, there is a live copy to serve, and every document on
\* the way from the seed to the chain has the package's blocks.
SeedingOver ==
  /\ file = Empty => manager = "write"
  /\ manager = "serve" => file # NoFile
BlocksCarried ==
  /\ file \in fileConfig => checkV4Backstop(file.outbound)
  /\ snap \in fileConfig => checkV4Backstop(snap.outbound)
  /\ filter # NoChain => checkV4Backstop(filter.rules)
NetgateInv == EditInv /\ SeedingOver /\ BlocksCarried
=============================================================================
