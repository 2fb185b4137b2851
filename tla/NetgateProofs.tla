--------------------------- MODULE NetgateProofs ---------------------------
(***************************************************************************)
(* Proofs about Netgate.  That no edit is lost needs nothing; that the     *)
(* private ranges stay blocked needs a seeding that is never left cut      *)
(* short as an empty file or as no file: Whole says so.                    *)
(***************************************************************************)
EXTENDS Netgate, TLAPS

Whole == CutFiles \subseteq {Garbled}

\* The special values of the file are not documents.
LEMMA Specials ==
  /\ NoFile \notin fileConfig /\ Empty \notin fileConfig /\ Garbled \notin fileConfig
  /\ NoFile # Empty /\ NoFile # Garbled /\ Empty # Garbled
  BY NetgateConstants

\* The zero document is one.
LEMMA ZeroType == Zero \in fileConfig
<1>1. << >> \in Lists
  <2>1. [1 .. 0 -> Rule] \in {[1 .. n -> Rule] : n \in 0 .. MaxRules}
    BY NetgateConstants
  <2>2. << >> \in [1 .. 0 -> Rule]
    OBVIOUS
  <2> QED BY <2>1, <2>2 DEF Lists
<1>2. NoForwards \in [Ports -> Targets \cup {NoTarget}]
  BY DEF NoForwards
<1> QED BY <1>1, <1>2 DEF Zero, fileConfig

\* The document that seeds the live copy has the blocks.
LEMMA SeedFacts ==
  ASSUME TypeOK
  PROVE  /\ Seed \in fileConfig /\ checkV4Backstop(Seed.outbound)
         /\ seed.default \in fileConfig /\ checkV4Backstop(seed.default.outbound)
<1>1. seed.default \in Defaults /\ seed.override \in Overrides
  BY DEF TypeOK
<1> QED BY <1>1, SeedConstants DEF Seed

\* An edit of a document is a document, and keeps the blocks.
LEMMA EditFacts ==
  ASSUME NEW c \in fileConfig, NEW b \in Bodies
  PROVE  /\ Edited(c, b) \in fileConfig
         /\ checkV4Backstop(c.outbound) => checkV4Backstop(Edited(c, b).outbound)
<1>1. CASE b \in [op : {"outbound"}, list : {l \in Lists : checkV4Backstop(l)}]
  <2>1. b.op = "outbound" /\ b.list \in Lists /\ checkV4Backstop(b.list)
    BY <1>1
  <2>2. Edited(c, b) = [c EXCEPT !.outbound = b.list]
    BY <2>1 DEF Edited
  <2> QED BY <2>1, <2>2 DEF fileConfig
<1>2. CASE b \in [op : {"add"}, port : Ports, target : Targets]
  <2>1. b.op = "add" /\ b.port \in Ports /\ b.target \in Targets
    BY <1>2
  <2>2. Edited(c, b) = [c EXCEPT !.forwards[b.port] = b.target]
    BY <2>1 DEF Edited
  <2> QED BY <2>1, <2>2 DEF fileConfig
<1>3. CASE b \in [op : {"delete"}, port : Ports]
  <2>1. b.op = "delete" /\ b.port \in Ports
    BY <1>3
  <2>2. Edited(c, b) = [c EXCEPT !.forwards[b.port] = NoTarget]
    BY <2>1 DEF Edited
  <2> QED BY <2>1, <2>2 DEF fileConfig
<1>4. CASE b \in [op : {"bandwidth"}, doc : Bandwidths \cup {NoBandwidth}]
  <2>1. b.op = "bandwidth" /\ b.doc \in Bandwidths \cup {NoBandwidth}
    BY <1>4
  <2>2. Edited(c, b) = [c EXCEPT !.bandwidth = b.doc]
    BY <2>1 DEF Edited
  <2> QED BY <2>1, <2>2 DEF fileConfig
<1> QED BY <1>1, <1>2, <1>3, <1>4 DEF Bodies

\* A chain is not the one that stands for none.
LEMMA ChainApart == NoChain \notin Chain
  BY NetgateConstants

\* No body is the one that stands for none.
LEMMA NoBodyApart == NoBody \notin Bodies
<1>1. \A b \in Bodies : b.op # "none"
  BY DEF Bodies
<1> QED BY <1>1 DEF NoBody

PCs == {"new", "lock", "save", "done"}

\* A move of one request: what it has afterwards, and that the others keep theirs.
LEMMA Moves ==
  ASSUME TypeOK, NEW r \in Reqs, NEW at \in PCs, NEW b \in Bodies \cup {NoBody}, NEW c \in fileConfig,
         pc' = [pc EXCEPT ![r] = at], req' = [req EXCEPT ![r] = b], cfg' = [cfg EXCEPT ![r] = c]
  PROVE  /\ pc' \in [Reqs -> PCs] /\ req' \in [Reqs -> Bodies \cup {NoBody}]
         /\ cfg' \in [Reqs -> fileConfig]
         /\ pc'[r] = at /\ req'[r] = b /\ cfg'[r] = c
         /\ \A s \in Reqs \ {r} : pc'[s] = pc[s] /\ req'[s] = req[s] /\ cfg'[s] = cfg[s]
  BY DEF TypeOK, PCs

\* The request that has loaded is alone in that.
LEMMA Alone ==
  ASSUME LockHolds, NEW r \in Reqs, pc[r] = "save" \/ mu = Nobody
  PROVE  \A s \in Reqs \ {r} : pc[s] # "save"
  BY NetgateConstants DEF LockHolds

----------------------------------------------------------------------------
(* Each action preserves the invariant.                                    *)

\* What has to do with requests and the seeding stays when their state stays.
LEMMA Frame ==
  ASSUME LockHolds, SeedingFirst, UNCHANGED <<file, manager, pc, req, mu, cfg>>
  PROVE  LockHolds' /\ SeedingFirst'
  BY DEF LockHolds, SeedingFirst, Fits, load

LEMMA SeedingKeeps ==
  ASSUME EditInv, Seeding
  PROVE  EditInv'
<1> USE DEF EditInv
<1>0. UNCHANGED <<seed, pc, req, mu, cfg, route, fw, snap, filter, nat, hooked, shaper, shape, qdisc, faults>>
  BY DEF Seeding, StatLive, SeedCreate, SeedWrite, SeedFails, chains, shapes
<1>1. \A r \in Reqs : pc[r] \notin {"lock", "save"}
  BY DEF LockHolds, Seeding, StatLive, SeedCreate, SeedWrite, SeedFails
<1>2. LockHolds' /\ Cycle'
  BY <1>0, <1>1 DEF LockHolds, Cycle
<1>3. /\ file' \in fileConfig \cup {NoFile, Empty, Garbled}
      /\ manager' \in {"start", "create", "write", "serve"}
      /\ SeedingFirst'
  <2>1. CASE StatLive
    BY <2>1 DEF StatLive, TypeOK, SeedingFirst
  <2>2. CASE SeedCreate
    BY <2>2 DEF SeedCreate, SeedingFirst
  <2>3. CASE SeedWrite
    BY <2>3, SeedFacts DEF SeedWrite, SeedingFirst
  <2>4. CASE SeedFails
    BY <2>4, NetgateConstants DEF SeedFails, SeedingFirst
  <2> QED BY <2>1, <2>2, <2>3, <2>4 DEF Seeding
<1>4. TypeOK'
  BY <1>0, <1>3 DEF TypeOK
<1> QED BY <1>2, <1>3, <1>4

\* The parts that no request touches.
Rest == <<seed, manager, route, fw, snap, filter, nat, hooked, shaper, shape, qdisc, faults>>

LEMMA RequestKeeps ==
  ASSUME EditInv, NEW r \in Reqs, Request(r)
  PROVE  EditInv'
<1> USE DEF EditInv
<1>0. UNCHANGED Rest
  BY DEF Request, Arrive, Load, LoadRefuses, Save, SaveFails, Rest, chains, shapes
<1>1. manager = "serve"
  BY DEF Request, Arrive, Load, LoadRefuses, Save, SaveFails, LockHolds
<1>2. /\ pc' \in [Reqs -> PCs] /\ req' \in [Reqs -> Bodies \cup {NoBody}]
      /\ cfg' \in [Reqs -> fileConfig] /\ mu' \in Reqs \cup {Nobody}
      /\ file' \in fileConfig \cup {NoFile, Empty, Garbled}
      /\ LockHolds'
  <2>1. CASE Arrive(r)
    <3>1. PICK b \in Bodies : req' = [req EXCEPT ![r] = b]
      BY <2>1 DEF Arrive
    <3>2. pc' = [pc EXCEPT ![r] = "lock"] /\ cfg' = [cfg EXCEPT ![r] = cfg[r]] /\ UNCHANGED <<mu, file>>
      BY <2>1 DEF Arrive, TypeOK
    <3>3. cfg[r] \in fileConfig /\ "lock" \in PCs
      BY DEF TypeOK, PCs
    <3>4. /\ pc' \in [Reqs -> PCs] /\ req' \in [Reqs -> Bodies \cup {NoBody}] /\ cfg' \in [Reqs -> fileConfig]
          /\ pc'[r] = "lock" /\ req'[r] = b /\ cfg'[r] = cfg[r]
          /\ \A s \in Reqs \ {r} : pc'[s] = pc[s] /\ req'[s] = req[s] /\ cfg'[s] = cfg[s]
      BY <3>1, <3>2, <3>3, Moves
    <3>5. LockHolds'
      BY <1>0, <1>1, <3>2, <3>4, NoBodyApart DEF LockHolds, Rest, Fits, load
    <3> QED BY <3>2, <3>4, <3>5 DEF TypeOK
  <2>2. CASE Load(r)
    <3>1. /\ pc' = [pc EXCEPT ![r] = "save"] /\ cfg' = [cfg EXCEPT ![r] = load(file)]
          /\ req' = [req EXCEPT ![r] = req[r]] /\ mu' = r /\ file' = file
          /\ load(file) \in fileConfig /\ Fits(load(file), req[r]) /\ mu = Nobody /\ pc[r] = "lock"
      BY <2>2 DEF Load, TypeOK
    <3>2. req[r] \in Bodies \cup {NoBody} /\ "save" \in PCs
      BY DEF TypeOK, PCs
    <3>3. /\ pc' \in [Reqs -> PCs] /\ req' \in [Reqs -> Bodies \cup {NoBody}] /\ cfg' \in [Reqs -> fileConfig]
          /\ pc'[r] = "save" /\ req'[r] = req[r] /\ cfg'[r] = load(file)
          /\ \A s \in Reqs \ {r} : pc'[s] = pc[s] /\ req'[s] = req[s] /\ cfg'[s] = cfg[s]
      BY <3>1, <3>2, Moves
    <3>4. \A s \in Reqs \ {r} : pc[s] # "save"
      BY <3>1, Alone
    <3>5. LockHolds'
      BY <1>0, <1>1, <3>1, <3>3, <3>4 DEF LockHolds, Rest, Fits, load
    <3> QED BY <3>1, <3>3, <3>5 DEF TypeOK
  <2>3. CASE LoadRefuses(r) \/ SaveFails(r)
    <3>1. /\ pc' = [pc EXCEPT ![r] = "done"] /\ req' = [req EXCEPT ![r] = NoBody]
          /\ cfg' = [cfg EXCEPT ![r] = Zero] /\ mu' = Nobody /\ file' = file
          /\ pc[r] = "save" \/ mu = Nobody
      BY <2>3 DEF LoadRefuses, SaveFails, Answered
    <3>2. /\ pc' \in [Reqs -> PCs] /\ req' \in [Reqs -> Bodies \cup {NoBody}] /\ cfg' \in [Reqs -> fileConfig]
          /\ pc'[r] = "done"
          /\ \A s \in Reqs \ {r} : pc'[s] = pc[s] /\ req'[s] = req[s] /\ cfg'[s] = cfg[s]
      BY <3>1, Moves, ZeroType DEF PCs
    <3>3. \A s \in Reqs \ {r} : pc[s] # "save"
      BY <3>1, Alone
    <3>4. LockHolds'
      BY <1>0, <3>1, <3>2, <3>3 DEF LockHolds, Rest, Fits
    <3> QED BY <3>1, <3>2, <3>4 DEF TypeOK
  <2>4. CASE Save(r)
    <3>1. /\ pc' = [pc EXCEPT ![r] = "done"] /\ req' = [req EXCEPT ![r] = NoBody]
          /\ cfg' = [cfg EXCEPT ![r] = Zero] /\ mu' = Nobody
          /\ pc[r] = "save" /\ file' = Edited(cfg[r], req[r])
      BY <2>4 DEF Save, Answered
    <3>2. /\ pc' \in [Reqs -> PCs] /\ req' \in [Reqs -> Bodies \cup {NoBody}] /\ cfg' \in [Reqs -> fileConfig]
          /\ pc'[r] = "done"
          /\ \A s \in Reqs \ {r} : pc'[s] = pc[s] /\ req'[s] = req[s] /\ cfg'[s] = cfg[s]
      BY <3>1, Moves, ZeroType DEF PCs
    <3>3. \A s \in Reqs \ {r} : pc[s] # "save"
      BY <3>1, Alone
    <3>4. LockHolds'
      BY <1>0, <3>1, <3>2, <3>3 DEF LockHolds, Rest, Fits
    <3>5. cfg[r] \in fileConfig /\ req[r] \in Bodies
      BY <3>1 DEF LockHolds, TypeOK
    <3>6. file' \in fileConfig
      BY <3>1, <3>5, EditFacts
    <3> QED BY <3>1, <3>2, <3>4, <3>6
  <2> QED BY <2>1, <2>2, <2>3, <2>4 DEF Request
<1>3. TypeOK'
  BY <1>0, <1>2 DEF TypeOK, Rest, PCs
<1>4. SeedingFirst' /\ Cycle'
  BY <1>0, <1>1 DEF SeedingFirst, Cycle, Rest
<1> QED BY <1>2, <1>3, <1>4

LEMMA FirewallKeeps ==
  ASSUME EditInv, Firewall
  PROVE  EditInv'
<1> USE DEF EditInv
<1>0. UNCHANGED <<file, seed, manager, pc, req, mu, cfg, route, shaper, shape, qdisc, faults>>
  BY DEF Firewall, ReadConfig, ReadDefault, CommitFilter, CommitNat, ensure_jump, manages, shapes
<1>1. LockHolds' /\ SeedingFirst'
  BY <1>0, Frame
<1>2. /\ fw' \in {"sleep", "filter", "nat", "hook"} /\ snap' \in fileConfig \cup {NoFile}
      /\ filter' \in Chain \cup {NoChain} /\ nat' \in [Ports -> Targets \cup {NoTarget}]
      /\ hooked' \in BOOLEAN
      /\ fw' = "filter" => snap' # NoFile
      /\ hooked' \/ fw' \in {"nat", "hook"} => filter' # NoChain
  <2>1. CASE ReadConfig
    <3>1. Resolved \in fileConfig
      BY <2>1 DEF ReadConfig, Usable
    <3> QED BY <2>1, <3>1, Specials DEF ReadConfig, TypeOK, Cycle
  <2>2. CASE ReadDefault
    BY <2>2, SeedFacts, Specials DEF ReadDefault, TypeOK, Cycle
  <2>3. CASE CommitFilter
    <3>1. snap \in fileConfig
      BY <2>3 DEF CommitFilter, TypeOK, Cycle
    <3>2. PICK up \in SUBSET Targets :
            filter' = [accepts |-> [p \in Ports |->
                         IF snap.forwards[p] \in up THEN snap.forwards[p] ELSE NoTarget],
                       rules |-> snap.outbound]
      BY <2>3 DEF CommitFilter
    <3>3. filter' \in Chain
      BY <3>1, <3>2 DEF Chain, fileConfig
    <3>4. filter' # NoChain
      BY <3>3, ChainApart
    <3> QED BY <2>3, <3>1, <3>3, <3>4, Specials DEF CommitFilter, TypeOK
  <2>4. CASE CommitNat
    <3>1. filter \in Chain
      BY <2>4 DEF CommitNat, TypeOK, Cycle
    <3>2. filter.accepts \in [Ports -> Targets \cup {NoTarget}]
      BY <3>1 DEF Chain
    <3> QED BY <2>4, <3>2 DEF CommitNat, TypeOK, Cycle
  <2>5. CASE ensure_jump
    BY <2>5 DEF ensure_jump, TypeOK, Cycle
  <2> QED BY <2>1, <2>2, <2>3, <2>4, <2>5 DEF Firewall
<1>3. TypeOK'
  BY <1>0, <1>2 DEF TypeOK
<1>4. Cycle'
  BY <1>2 DEF Cycle
<1> QED BY <1>1, <1>3, <1>4

LEMMA ShapingKeeps ==
  ASSUME EditInv, Shaping \/ RouteUp
  PROVE  EditInv'
<1> USE DEF EditInv
<1>0. UNCHANGED <<file, seed, manager, pc, req, mu, cfg, fw, snap, filter, nat, hooked, faults>>
  BY DEF Shaping, ReadBandwidth, ClearQdisc, BuildQdisc, RouteUp, manages, chains
<1>1. LockHolds' /\ SeedingFirst'
  BY <1>0, Frame
<1>2. Cycle'
  BY <1>0 DEF Cycle
<1>3. /\ route' \in BOOLEAN /\ shaper' \in {"sleep", "clear", "build"}
      /\ shape' \in Bandwidths \cup {NoBandwidth} /\ qdisc' \in Bandwidths \cup {NoBandwidth}
  <2>1. CASE ReadBandwidth
    <3>1. Usable(Resolved) => Resolved.bandwidth \in Bandwidths \cup {NoBandwidth}
      BY DEF Usable, fileConfig
    <3> QED BY <2>1, <3>1 DEF ReadBandwidth, TypeOK
  <2>2. CASE ClearQdisc \/ BuildQdisc
    BY <2>2 DEF ClearQdisc, BuildQdisc, TypeOK
  <2>3. CASE RouteUp
    BY <2>3 DEF RouteUp, TypeOK, shapes
  <2> QED BY <2>1, <2>2, <2>3 DEF Shaping
<1>4. TypeOK'
  BY <1>0, <1>3 DEF TypeOK
<1> QED BY <1>1, <1>2, <1>4

\* When router-manager is gone nobody is served.
LEMMA GoneKeeps ==
  ASSUME EditInv, ManagerGone, file' = file
  PROVE  /\ pc' \in [Reqs -> PCs] /\ req' \in [Reqs -> Bodies \cup {NoBody}]
         /\ cfg' \in [Reqs -> fileConfig] /\ mu' = Nobody /\ manager' = "start"
         /\ LockHolds' /\ SeedingFirst'
<1> USE DEF EditInv
<1>2. SeedingFirst'
  BY DEF ManagerGone, SeedingFirst
<1>3. \A r \in Reqs : pc'[r] \in {"new", "done"}
  BY DEF ManagerGone
<1>4. LockHolds'
  BY <1>3 DEF LockHolds
<1>5. pc' \in [Reqs -> PCs] /\ req' \in [Reqs -> Bodies \cup {NoBody}] /\ cfg' \in [Reqs -> fileConfig]
  BY ZeroType DEF ManagerGone, PCs
<1> QED BY <1>2, <1>4, <1>5 DEF ManagerGone

LEMMA FaultKeeps ==
  ASSUME EditInv, Fault
  PROVE  EditInv'
<1> USE DEF EditInv
<1>0. file' = file /\ faults' \in 0 .. MaxFaults
  BY NetgateConstants DEF Fault, Rejected, FirewallDies, ShaperDies, ManagerDies, Reboot, TypeOK
<1>1. CASE Rejected \/ FirewallDies \/ ShaperDies
  <2>1. UNCHANGED <<seed, manager, pc, req, mu, cfg, route, filter, nat, hooked, qdisc>>
    BY <1>1 DEF Rejected, FirewallDies, ShaperDies, manages, chains, shapes
  <2>2. LockHolds' /\ SeedingFirst'
    BY <1>0, <2>1, Frame
  <2>3. /\ fw' \in {"sleep", fw} /\ snap' \in {NoFile, snap}
        /\ fw' # "sleep" => fw' = fw /\ snap' = snap
        /\ shaper' \in {"sleep", shaper} /\ shape' \in {NoBandwidth, shape}
    BY <1>1 DEF Rejected, FirewallDies, ShaperDies, chains, shapes
  <2>4. TypeOK'
    BY <1>0, <2>1, <2>3 DEF TypeOK
  <2>5. Cycle'
    BY <1>0, <2>1, <2>3, Specials DEF Cycle
  <2> QED BY <2>2, <2>4, <2>5
<1>2. CASE ManagerDies
  <2>1. UNCHANGED <<seed, route, fw, snap, filter, nat, hooked, shaper, shape, qdisc>> /\ ManagerGone
    BY <1>2 DEF ManagerDies, chains, shapes
  <2>2. /\ pc' \in [Reqs -> PCs] /\ req' \in [Reqs -> Bodies \cup {NoBody}]
        /\ cfg' \in [Reqs -> fileConfig] /\ mu' = Nobody /\ manager' = "start"
        /\ LockHolds' /\ SeedingFirst'
    BY <1>0, <2>1, GoneKeeps
  <2>3. TypeOK'
    BY <1>0, <2>1, <2>2 DEF TypeOK, PCs
  <2>4. Cycle'
    BY <1>0, <2>1 DEF Cycle
  <2> QED BY <2>2, <2>3, <2>4
<1>3. CASE Reboot
  <2>1. /\ ManagerGone
        /\ seed' \in [default : Defaults, override : Overrides]
        /\ route' = FALSE /\ hooked' = FALSE
        /\ fw' = "sleep" /\ snap' = NoFile /\ filter' = NoChain /\ nat' = NoForwards
        /\ shaper' = "sleep" /\ shape' = NoBandwidth /\ qdisc' = NoBandwidth
    BY <1>3 DEF Reboot
  <2>2. /\ pc' \in [Reqs -> PCs] /\ req' \in [Reqs -> Bodies \cup {NoBody}]
        /\ cfg' \in [Reqs -> fileConfig] /\ mu' = Nobody /\ manager' = "start"
        /\ LockHolds' /\ SeedingFirst'
    BY <1>0, <2>1, GoneKeeps
  <2>3. NoForwards \in [Ports -> Targets \cup {NoTarget}]
    BY DEF NoForwards
  <2>4. TypeOK'
    BY <1>0, <2>1, <2>2, <2>3 DEF TypeOK, PCs
  <2>5. Cycle'
    BY <1>0, <2>1, Specials DEF Cycle
  <2> QED BY <2>2, <2>4, <2>5
<1> QED BY <1>1, <1>2, <1>3 DEF Fault

LEMMA EditInit == Init => EditInv
<1> SUFFICES ASSUME Init PROVE EditInv
  OBVIOUS
<1>1. NoForwards \in [Ports -> Targets \cup {NoTarget}]
  BY DEF NoForwards
<1>2. TypeOK
  <2>1. faults \in 0 .. MaxFaults
    BY NetgateConstants DEF Init
  <2>2. /\ pc \in [Reqs -> PCs] /\ req \in [Reqs -> Bodies \cup {NoBody}]
        /\ cfg \in [Reqs -> fileConfig]
    BY ZeroType DEF Init, PCs
  <2> QED BY <1>1, <2>1, <2>2 DEF Init, TypeOK, PCs
<1>3. LockHolds /\ SeedingFirst /\ Cycle
  BY DEF Init, LockHolds, SeedingFirst, Cycle
<1> QED BY <1>2, <1>3 DEF EditInv

LEMMA EditNext ==
  ASSUME EditInv, [Next]_vars
  PROVE  EditInv'
<1>1. CASE UNCHANGED vars
  BY <1>1 DEF vars, manages, chains, shapes, EditInv, TypeOK, LockHolds, load, SeedingFirst, Cycle
<1>2. CASE \E r \in Reqs : Request(r)
  BY <1>2, RequestKeeps
<1> QED BY <1>1, <1>2, SeedingKeeps, FirewallKeeps, ShapingKeeps, FaultKeeps DEF Next

----------------------------------------------------------------------------
(* What a whole seeding adds.                                              *)

\* The file, by who changes it.
LEMMA FileKeeps ==
  ASSUME Whole, NetgateInv, [Next]_vars
  PROVE  SeedingOver' /\ (file' \in fileConfig => checkV4Backstop(file'.outbound))
<1> USE DEF NetgateInv, EditInv
<1>1. CASE Seeding
  <2>1. CASE StatLive
    BY <2>1, Specials DEF StatLive, SeedingOver, BlocksCarried
  <2>2. CASE SeedCreate
    BY <2>2, Specials DEF SeedCreate, SeedingOver
  <2>3. CASE SeedWrite
    BY <2>3, Specials, SeedFacts DEF SeedWrite, SeedingOver
  <2>4. CASE SeedFails
    BY <2>4, Specials DEF SeedFails, SeedingOver, Whole
  <2> QED BY <1>1, <2>1, <2>2, <2>3, <2>4 DEF Seeding
<1>2. ASSUME NEW r \in Reqs, Request(r)
      PROVE  SeedingOver' /\ (file' \in fileConfig => checkV4Backstop(file'.outbound))
  <2>1. manager = "serve" /\ manager' = manager /\ file \notin {NoFile, Empty}
    BY <1>2 DEF Request, Arrive, Load, LoadRefuses, Save, SaveFails, LockHolds, SeedingOver
  <2>2. CASE Save(r)
    <3>1. cfg[r] = file /\ cfg[r] \in fileConfig /\ req[r] \in Bodies
      BY <2>1, <2>2 DEF Save, LockHolds, TypeOK, load
    <3>2. file' \in fileConfig /\ checkV4Backstop(file'.outbound)
      BY <2>2, <3>1, EditFacts DEF Save, BlocksCarried
    <3> QED BY <2>1, <3>2, Specials DEF SeedingOver
  <2>3. CASE ~Save(r)
    <3>1. file' = file
      BY <1>2, <2>3 DEF Request, Arrive, Load, LoadRefuses, SaveFails
    <3> QED BY <2>1, <3>1 DEF SeedingOver, BlocksCarried
  <2> QED BY <2>2, <2>3
<1>3. CASE Fault
  <2>1. file' = file /\ (manager' = manager \/ ManagerGone)
    BY <1>3 DEF Fault, Rejected, FirewallDies, ShaperDies, ManagerDies, Reboot, manages
  <2>2. ManagerGone => manager' = "start" /\ manager # "write"
    BY Specials DEF ManagerGone, Whole
  <2> QED BY <2>1, <2>2 DEF SeedingOver, BlocksCarried
<1>4. CASE RouteUp \/ Firewall \/ Shaping \/ UNCHANGED vars
  <2>1. UNCHANGED <<file, manager>>
    BY <1>4 DEF RouteUp, Firewall, ReadConfig, ReadDefault, CommitFilter, CommitNat, ensure_jump,
                Shaping, ReadBandwidth, ClearQdisc, BuildQdisc, vars, manages
  <2> QED BY <2>1 DEF SeedingOver, BlocksCarried
<1> QED BY <1>1, <1>2, <1>3, <1>4 DEF Next

\* The blocks go from the file into the snapshot and from there into the chain.
LEMMA BlocksKeep ==
  ASSUME Whole, NetgateInv, [Next]_vars
  PROVE  BlocksCarried'
<1> USE DEF NetgateInv, EditInv
<1>1. /\ snap' \in fileConfig => checkV4Backstop(snap'.outbound)
      /\ filter' # NoChain => checkV4Backstop(filter'.rules)
  <2>1. CASE ReadConfig
    <3>1. checkV4Backstop(Resolved.outbound)
      BY <2>1, SeedFacts DEF ReadConfig, Usable, Resolved, BlocksCarried
    <3> QED BY <2>1, <3>1 DEF ReadConfig, BlocksCarried
  <2>2. CASE ReadDefault
    BY <2>2, SeedFacts DEF ReadDefault, BlocksCarried
  <2>3. CASE CommitFilter
    <3>1. snap \in fileConfig /\ checkV4Backstop(snap.outbound)
      BY <2>3 DEF CommitFilter, TypeOK, Cycle, BlocksCarried
    <3>2. filter'.rules = snap.outbound /\ snap' \in {snap, NoFile}
      BY <2>3 DEF CommitFilter
    <3> QED BY <3>1, <3>2, Specials
  <2>4. CASE CommitNat \/ ensure_jump \/ Shaping \/ RouteUp \/ Seeding \/ (\E r \in Reqs : Request(r))
              \/ UNCHANGED vars
    <3>1. snap' \in {snap, NoFile} /\ filter' = filter
      BY <2>4 DEF CommitNat, ensure_jump, Shaping, ReadBandwidth, ClearQdisc, BuildQdisc, RouteUp,
                  Seeding, StatLive, SeedCreate, SeedWrite, SeedFails,
                  Request, Arrive, Load, LoadRefuses, Save, SaveFails, chains, vars
    <3> QED BY <3>1, Specials DEF BlocksCarried
  <2>5. CASE Fault
    <3>1. snap' \in {snap, NoFile} /\ filter' \in {filter, NoChain}
      BY <2>5 DEF Fault, Rejected, FirewallDies, ShaperDies, ManagerDies, Reboot, chains
    <3> QED BY <3>1, Specials DEF BlocksCarried
  <2> QED BY <2>1, <2>2, <2>3, <2>4, <2>5 DEF Next, Firewall
<1> QED BY <1>1, FileKeeps DEF BlocksCarried

----------------------------------------------------------------------------
(* The theorems.                                                           *)

\* The mutex's holder has what the file holds, and the seeding writes only where there
\* was no live copy, for any number of requests, networks and faults.
THEOREM EditInvariant == Spec => []EditInv
BY EditInit, EditNext, PTL DEF Spec

\* The documents on their way from the seed and the requests to the chain all have the
\* blocks, for any number of requests, networks and faults.
THEOREM NetgateInvariant == Whole => (Spec => []NetgateInv)
<1> SUFFICES ASSUME Whole PROVE Spec => []NetgateInv
  OBVIOUS
<1>1. Init => NetgateInv
  <2>1. Init => SeedingOver /\ BlocksCarried
    BY Specials DEF Init, SeedingOver, BlocksCarried
  <2> QED BY <2>1, EditInit DEF NetgateInv
<1>2. NetgateInv /\ [Next]_vars => NetgateInv'
  BY EditNext, FileKeeps, BlocksKeep DEF NetgateInv
<1> QED BY <1>1, <1>2, PTL DEF Spec

\* A list that the package lets through keeps the private ranges shut.
LEMMA BackstopBlocks ==
  ASSUME NEW rules \in Lists, checkV4Backstop(rules),
         NEW priv \in privateV4, NEW a \in priv, Passes(rules, a)
  PROVE  \E j \in DOMAIN rules :
           rules[j].action = "allow" /\ a \in rules[j].net /\ ~covers(rules[j].net, priv)
<1>1. PICK i \in DOMAIN rules : covers(rules[i].net, priv) /\ rules[i].action = "block"
  BY DEF checkV4Backstop
<1>2. a \in rules[i].net
  BY <1>1 DEF covers
<1>3. PICK j \in 1 .. i - 1 : a \in rules[j].net /\ rules[j].action = "allow"
  BY <1>1, <1>2 DEF Passes
<1>4. PICK n \in 0 .. MaxRules : rules \in [1 .. n -> Rule]
  BY DEF Lists
<1>5. j \in DOMAIN rules
  BY <1>1, <1>3, <1>4, NetgateConstants
<1>6. ~covers(rules[j].net, priv)
  BY <1>3, <1>5 DEF checkV4Backstop
<1> QED BY <1>3, <1>5, <1>6

\* Once the chains are in place, an address of a private range passes only by an allow
\* narrower than the range.
THEOREM PrivateStaysBlocked == Whole => (Spec => []PrivateBlocked)
<1> SUFFICES ASSUME Whole PROVE Spec => []PrivateBlocked
  OBVIOUS
<1>1. NetgateInv => PrivateBlocked
  <2> SUFFICES ASSUME NetgateInv, hooked PROVE PrivateBlocked
    BY DEF PrivateBlocked
  <2>1. filter # NoChain /\ filter \in Chain /\ checkV4Backstop(filter.rules)
    BY DEF NetgateInv, EditInv, Cycle, TypeOK, BlocksCarried
  <2>2. filter.rules \in Lists
    BY <2>1 DEF Chain
  <2> QED BY <2>1, <2>2, BackstopBlocks DEF PrivateBlocked
<1> QED BY <1>1, NetgateInvariant, PTL

\* No edit is lost, and nothing but an edit changes a live copy, whatever a cut seeding
\* has left behind.
THEOREM EditsKept == Spec => EditKept
<1>1. EditInv /\ [Next]_vars =>
        [(file \in fileConfig /\ file' # file) =>
           \E r \in Reqs : /\ pc[r] = "save" /\ pc'[r] = "done"
                           /\ Fits(file, req[r])
                           /\ file' = Edited(file, req[r])]_vars
  <2> SUFFICES ASSUME EditInv, Next, file \in fileConfig, file' # file
               PROVE  \E r \in Reqs : /\ pc[r] = "save" /\ pc'[r] = "done"
                                      /\ Fits(file, req[r])
                                      /\ file' = Edited(file, req[r])
    OBVIOUS
  <2>1. ~Seeding
    BY Specials DEF Seeding, StatLive, SeedCreate, SeedWrite, SeedFails, EditInv, SeedingFirst
  <2>2. ~RouteUp /\ ~Firewall /\ ~Shaping /\ ~Fault
    BY DEF RouteUp, Firewall, ReadConfig, ReadDefault, CommitFilter, CommitNat, ensure_jump,
           Shaping, ReadBandwidth, ClearQdisc, BuildQdisc,
           Fault, Rejected, FirewallDies, ShaperDies, ManagerDies, Reboot
  <2>3. PICK r \in Reqs : Request(r)
    BY <2>1, <2>2 DEF Next
  <2>4. Save(r)
    BY <2>3 DEF Request, Arrive, Load, LoadRefuses, SaveFails
  <2>5. pc[r] = "save" /\ file' = Edited(cfg[r], req[r]) /\ pc' = [pc EXCEPT ![r] = "done"]
    BY <2>4 DEF Save, Answered
  <2>6. cfg[r] = file /\ Fits(cfg[r], req[r]) /\ pc'[r] = "done"
    BY <2>5, Specials DEF EditInv, LockHolds, TypeOK, load
  <2> QED BY <2>5, <2>6
<1> QED BY <1>1, EditInvariant, PTL DEF Spec, EditKept
=============================================================================
