----------------------------- MODULE DnsBuiltin -----------------------------
(***************************************************************************)
(* The DNS program's managed state: the builtin blocklist source, which    *)
(* follows the file that the image ships (backend/internal/dns/            *)
(* blocklist.go, reconcile.go and config/dns/dns.default.sh), and the      *)
(* custom hosts and the resolver (customhosts.go, resolver.go).            *)
(*                                                                         *)
(* A hosts file is its content, and a hash is the content that it is of.   *)
(* The package's requests hold its mutex; the start script shares the      *)
(* files with them and takes no lock, and is stopped wherever it is when a *)
(* request has supervisord restart dns.                                    *)
(***************************************************************************)
EXTENDS Naturals

CONSTANTS
  Reqs,        \* mutating requests, each made once
  Releases,    \* contents of the shipped file, in one image or another
  Edits,       \* contents that only an edit by hand gives the live copy
  Vals,        \* custom host lists, and resolver configurations
  Default,     \* no custom hosts, and the resolver's "auto"
  MaxFaults,   \* bound on reboots, deaths, failed calls and edits by hand
  NoFile, Torn, \* no live copy, and one that cp has not finished
  NoHash,      \* a manifest without an entry for the builtin source
  Nobody

ASSUME DnsConstants ==
  /\ Releases \cap Edits = {}
  /\ {NoFile, Torn} \cap (Releases \cup Edits) = {} /\ NoFile # Torn
  /\ NoHash \notin Releases \cup Edits \cup {NoFile, Torn}
  /\ Default \notin Vals /\ Nobody \notin Reqs
  /\ MaxFaults \in Nat

VARIABLES
  shipped,   \* the content at ShippedDefaultPath
  enabled,   \* DNS_BUILTIN_BLOCKLIST_ENABLED
  live,      \* the content at BuiltinPath
  manifest,  \* the builtin source's entry at ManifestPath
  hosts,     \* custom-hosts.yaml
  rendered,  \* custom-hosts.hosts
  resolver,  \* config.yaml
  pc, req,   \* each request, and its operation and argument
  mu,        \* the package's mutex
  script,    \* where dns.default.sh is; at "serve" it is dnsmasq
  prev_hash, live_hash, \* the script's
  served,    \* what dnsmasq has read
  faults,
  ignored,   \* history: the release that the user last chose to ignore
  apart,     \* history: the live copy and the manifest were last left half way
  half,      \* history: the stored hosts were last left without being rendered
  missed     \* history: a request was given up before its restart

files == <<hosts, rendered, resolver>>
builtin == <<shipped, enabled, live, manifest>>
requests == <<pc, req, mu>>
scripts == <<script, prev_hash, live_hash, served>>
history == <<ignored, apart, half, missed>>
vars == <<builtin, files, requests, scripts, faults, history>>

Bodies ==
  [op : {"pull", "ignore"}] \cup [op : {"hosts", "resolver"}, val : Vals \cup {Default}]
NoBody == [op |-> "none"]

----------------------------------------------------------------------------
(* The requests.                                                           *)

Goto(r, at) == pc' = [pc EXCEPT ![r] = at]

\* A request is answered, and what it knew is gone.
Answer(r) == Goto(r, "done") /\ req' = [req EXCEPT ![r] = NoBody]

\* Requests end with an error, or with router-manager, and the script where it cuts.
GivenUp(S, cut) ==
  /\ apart' = (apart \/ cut \/ \E r \in S : pc[r] = "manifest" /\ req[r].op = "pull")
  /\ half' = (half \/ \E r \in S : pc[r] = "render")
  /\ missed' = (missed \/ \E r \in S : pc[r] = "stop")
  /\ UNCHANGED ignored

Arrive(r) ==
  /\ pc[r] = "new"
  /\ \E b \in Bodies :
       /\ req' = [req EXCEPT ![r] = b]
       /\ pc' = [pc EXCEPT ![r] = "lock"]
  /\ UNCHANGED <<builtin, files, mu, scripts, faults, history>>

Lock(r) ==
  /\ pc[r] = "lock" /\ mu = Nobody
  /\ mu' = r
  /\ Goto(r, IF req[r].op = "ignore" THEN "manifest" ELSE "write")
  /\ UNCHANGED <<builtin, files, req, scripts, faults, history>>

\* BuiltinPull's first write.
WriteLive(r) ==
  /\ pc[r] = "write" /\ req[r].op = "pull"
  /\ live' = shipped
  /\ Goto(r, "manifest")
  /\ UNCHANGED <<shipped, enabled, manifest, files, req, mu, scripts, faults, history>>

\* Mutant of WriteManifest: the baseline that is recorded is the one that was there.
WriteManifestOld(r) ==
  /\ pc[r] = "manifest"
  /\ mu' = Nobody
  /\ IF req[r].op = "ignore" THEN Answer(r) ELSE Goto(r, "stop") /\ UNCHANGED req
  /\ ignored' = IF req[r].op = "ignore" THEN shipped ELSE ignored
  /\ apart' = (apart /\ live # shipped)
  /\ UNCHANGED <<builtin, files, scripts, faults, half, missed>>

\* Mutant of WriteManifest: the hash of the live copy is recorded.
WriteManifestLive(r) ==
  /\ pc[r] = "manifest"
  /\ manifest' = live
  /\ mu' = Nobody
  /\ IF req[r].op = "ignore" THEN Answer(r) ELSE Goto(r, "stop") /\ UNCHANGED req
  /\ ignored' = IF req[r].op = "ignore" THEN shipped ELSE ignored
  /\ apart' = (apart /\ live # shipped)
  /\ UNCHANGED <<shipped, enabled, live, files, scripts, faults, half, missed>>

\* BuiltinPull's second write, and BuiltinIgnore's only one, which needs no restart.
WriteManifest(r) ==
  /\ pc[r] = "manifest"
  /\ manifest' = shipped
  /\ mu' = Nobody
  /\ IF req[r].op = "ignore" THEN Answer(r) ELSE Goto(r, "stop") /\ UNCHANGED req
  /\ ignored' = IF req[r].op = "ignore" THEN shipped ELSE ignored
  /\ apart' = (apart /\ live # shipped)
  /\ UNCHANGED <<shipped, enabled, live, files, scripts, faults, half, missed>>

\* SetCustomHosts stores the list ...
WriteHosts(r) ==
  /\ pc[r] = "write" /\ req[r].op = "hosts"
  /\ hosts' = req[r].val
  /\ Goto(r, "render")
  /\ UNCHANGED <<builtin, rendered, resolver, req, mu, scripts, faults, history>>

\* Mutant of RenderHosts: an emptied list is not removed.
RenderKeeps(r) ==
  /\ pc[r] = "render"
  /\ rendered' = IF req[r].val = Default THEN rendered ELSE req[r].val
  /\ mu' = Nobody /\ half' = FALSE
  /\ Goto(r, "stop")
  /\ UNCHANGED <<builtin, hosts, resolver, req, scripts, faults, ignored, apart, missed>>

\* ... and then writes or removes the file that dnsmasq reads.
RenderHosts(r) ==
  /\ pc[r] = "render"
  /\ rendered' = req[r].val
  /\ mu' = Nobody /\ half' = FALSE
  /\ Goto(r, "stop")
  /\ UNCHANGED <<builtin, hosts, resolver, req, scripts, faults, ignored, apart, missed>>

SetResolverConfig(r) ==
  /\ pc[r] = "write" /\ req[r].op = "resolver"
  /\ resolver' = req[r].val
  /\ mu' = Nobody
  /\ Goto(r, "stop")
  /\ UNCHANGED <<builtin, hosts, rendered, req, scripts, faults, history>>

\* One of the writes fails.
WriteFails(r) ==
  /\ pc[r] \in {"write", "manifest", "render"} /\ faults < MaxFaults
  /\ mu' = Nobody
  /\ Answer(r) /\ GivenUp({r}, FALSE)
  /\ faults' = faults + 1
  /\ UNCHANGED <<builtin, files, scripts>>

\* The script, or the dnsmasq that it became, ends where it is.  Between the start of
\* its copy and the end of its record it leaves them half way.
Ended(at) == script' = at /\ prev_hash' = NoHash /\ live_hash' = NoFile /\ UNCHANGED served
Cut == script \in {"copying", "record", "recording"}

Stop(r) ==
  /\ pc[r] = "stop"
  /\ Ended("down")
  /\ GivenUp({}, Cut)
  /\ Goto(r, "start")
  /\ UNCHANGED <<builtin, files, req, mu, faults>>

\* Mutant of Start: what runs is left as it was.
StartAgain(r) ==
  /\ pc[r] = "start"
  /\ script = "down"
  /\ script' = "serve"
  /\ Answer(r)
  /\ UNCHANGED <<builtin, files, mu, prev_hash, live_hash, served, faults, history>>

Start(r) ==
  /\ pc[r] = "start"
  /\ script = "down"
  /\ script' = "begin"
  /\ Answer(r)
  /\ UNCHANGED <<builtin, files, mu, prev_hash, live_hash, served, faults, history>>

\* Another request has started it already, which is an error, ...
StartLate(r) ==
  /\ pc[r] = "start" /\ script # "down"
  /\ Answer(r)
  /\ UNCHANGED <<builtin, files, mu, scripts, faults, history>>

\* ... or a call to supervisord is lost.
RestartFails(r) ==
  /\ pc[r] \in {"stop", "start"} /\ faults < MaxFaults
  /\ Answer(r) /\ GivenUp({r}, FALSE)
  /\ faults' = faults + 1
  /\ UNCHANGED <<builtin, files, mu, scripts>>

----------------------------------------------------------------------------
(* dns.default.sh.  It runs with set -e, one command after the other.      *)

\* A source that is switched off is removed, and so is its manifest entry.
Remove ==
  /\ script = "begin" /\ ~enabled
  /\ live' = NoFile
  /\ script' = "unlist"
  /\ UNCHANGED <<shipped, enabled, manifest, files, requests, prev_hash, live_hash, served, faults, history>>

Unlist ==
  /\ script = "unlist"
  /\ manifest' = NoHash
  /\ apart' = (apart \/ live # NoFile)
  /\ script' = "assemble"
  /\ UNCHANGED <<shipped, enabled, live, files, requests, prev_hash, live_hash, served, faults, ignored, half, missed>>

\* seed_builtin_blocklist reads the manifest, ...
ReadManifest ==
  /\ script = "begin" /\ enabled
  /\ prev_hash' = manifest
  /\ script' = "hash"
  /\ UNCHANGED <<builtin, files, requests, live_hash, served, faults, history>>

\* Mutant of HashLive: the live copy is compared with the shipped file.
HashShipped ==
  /\ script = "hash"
  /\ live_hash' = live
  /\ script' = IF live = NoFile \/ live # shipped THEN "copy" ELSE "assemble"
  /\ UNCHANGED <<builtin, files, requests, prev_hash, served, faults, history>>

\* ... and copies when there is no live copy, or one that is as it was last seeded,
\* whether or not the shipped file has changed.
HashLive ==
  /\ script = "hash"
  /\ live_hash' = live
  /\ script' = IF live = NoFile \/ (prev_hash # NoHash /\ live = prev_hash)
               THEN "copy" ELSE "assemble"
  /\ UNCHANGED <<builtin, files, requests, prev_hash, served, faults, history>>

\* cp truncates the target and then fills it.
CopyBegins ==
  /\ script = "copy"
  /\ live' = Torn
  /\ script' = "copying"
  /\ UNCHANGED <<shipped, enabled, manifest, files, requests, prev_hash, live_hash, served, faults, history>>

CopyEnds ==
  /\ script = "copying"
  /\ live' = shipped
  /\ script' = "record"
  /\ UNCHANGED <<shipped, enabled, manifest, files, requests, prev_hash, live_hash, served, faults, history>>

\* The redirection truncates the manifest before printf fills it.
RecordBegins ==
  /\ script = "record"
  /\ manifest' = NoHash
  /\ script' = "recording"
  /\ UNCHANGED <<shipped, enabled, live, files, requests, prev_hash, live_hash, served, faults, history>>

RecordEnds ==
  /\ script = "recording"
  /\ manifest' = shipped
  /\ apart' = (apart /\ live # shipped)
  /\ script' = "assemble"
  /\ UNCHANGED <<shipped, enabled, live, files, requests, prev_hash, live_hash, served, faults, ignored, half, missed>>

\* The flags are put together from the files that there are, ...
Assemble ==
  /\ script = "assemble"
  /\ served' = [builtin |-> live, hosts |-> rendered, resolver |-> resolver]
  /\ missed' = FALSE
  /\ prev_hash' = NoHash /\ live_hash' = NoFile
  /\ script' = "exec"
  /\ UNCHANGED <<builtin, files, requests, faults, ignored, apart, half>>

\* ... and dnsmasq reads the ones that it is given.
Exec ==
  /\ script = "exec"
  /\ served' = [served EXCEPT !.builtin = IF @ = NoFile THEN @ ELSE live,
                              !.hosts = IF @ = Default THEN @ ELSE rendered]
  /\ script' = "serve"
  /\ UNCHANGED <<builtin, files, requests, prev_hash, live_hash, faults, history>>

----------------------------------------------------------------------------
(* What goes wrong around them.                                            *)

\* supervisord starts a script or a dnsmasq that dies again.
ScriptDies ==
  /\ script # "down" /\ faults < MaxFaults
  /\ Ended("begin")
  /\ GivenUp({}, Cut)
  /\ faults' = faults + 1
  /\ UNCHANGED <<builtin, files, requests>>

Abandoned ==
  /\ pc' = [r \in Reqs |-> IF pc[r] = "new" THEN "new" ELSE "done"]
  /\ req' = [r \in Reqs |-> NoBody]
  /\ mu' = Nobody

ManagerDies ==
  /\ \E r \in Reqs : pc[r] \notin {"new", "done"}
  /\ faults < MaxFaults
  /\ Abandoned
  /\ GivenUp(Reqs, FALSE)
  /\ faults' = faults + 1
  /\ UNCHANGED <<builtin, files, scripts>>

\* The container starts again, perhaps from another image and with other settings.
Reboot ==
  /\ faults < MaxFaults
  /\ shipped' \in Releases /\ enabled' \in BOOLEAN
  /\ Abandoned
  /\ Ended("begin")
  /\ GivenUp(Reqs, Cut)
  /\ faults' = faults + 1
  /\ UNCHANGED <<live, manifest, files>>

HandEdit ==
  /\ live # NoFile /\ faults < MaxFaults
  /\ live' \in Edits
  /\ faults' = faults + 1
  /\ UNCHANGED <<shipped, enabled, manifest, files, requests, scripts, history>>

----------------------------------------------------------------------------
Init ==
  /\ shipped \in Releases /\ enabled \in BOOLEAN
  /\ live = NoFile /\ manifest = NoHash
  /\ hosts = Default /\ rendered = Default /\ resolver = Default
  /\ pc = [r \in Reqs |-> "new"] /\ req = [r \in Reqs |-> NoBody] /\ mu = Nobody
  /\ script = "begin" /\ prev_hash = NoHash /\ live_hash = NoFile
  /\ served = [builtin |-> NoFile, hosts |-> Default, resolver |-> Default]
  /\ faults = 0
  /\ ignored = NoHash /\ apart = FALSE /\ half = FALSE /\ missed = FALSE

Request(r) ==
  \/ Lock(r) \/ WriteLive(r) \/ WriteManifest(r)
  \/ WriteHosts(r) \/ RenderHosts(r) \/ SetResolverConfig(r)
  \/ Stop(r) \/ Start(r) \/ StartLate(r)
Script ==
  \/ Remove \/ Unlist
  \/ ReadManifest \/ HashLive \/ CopyBegins \/ CopyEnds \/ RecordBegins \/ RecordEnds
  \/ Assemble \/ Exec
Fault ==
  \/ \E r \in Reqs : WriteFails(r) \/ RestartFails(r)
  \/ ScriptDies \/ ManagerDies \/ Reboot \/ HandEdit

Next ==
  \/ \E r \in Reqs : Arrive(r) \/ Request(r)
  \/ Script
  \/ Fault

Spec == Init /\ [][Next]_vars

\* A request that has arrived is carried on, and the script runs to its end.
FairSpec == Spec /\ WF_vars(Script) /\ \A r \in Reqs : WF_vars(Request(r))

----------------------------------------------------------------------------
(* Properties.                                                             *)

\* Type correctness.
TypeOK ==
  /\ shipped \in Releases /\ enabled \in BOOLEAN
  /\ live \in Releases \cup Edits \cup {NoFile, Torn}
  /\ manifest \in Releases \cup {NoHash}
  /\ {hosts, rendered, resolver} \subseteq Vals \cup {Default}
  /\ pc \in [Reqs -> {"new", "lock", "write", "manifest", "render", "stop", "start", "done"}]
  /\ req \in [Reqs -> Bodies \cup {NoBody}]
  /\ mu \in Reqs \cup {Nobody}
  /\ script \in {"begin", "unlist", "hash", "copy", "copying", "record", "recording",
                 "assemble", "exec", "serve", "down"}
  /\ prev_hash \in Releases \cup {NoHash}
  /\ live_hash \in Releases \cup Edits \cup {NoFile, Torn}
  /\ served \in [builtin : Releases \cup Edits \cup {NoFile, Torn},
                 hosts : Vals \cup {Default}, resolver : Vals \cup {Default}]
  /\ apart \in BOOLEAN /\ half \in BOOLEAN /\ missed \in BOOLEAN
  /\ ignored \in Releases \cup {NoHash}
  /\ faults \in 0 .. MaxFaults

\* GetBuiltinStatus.
UpdateAvailable == manifest # NoHash /\ shipped # manifest

\* Whether the builtin source is the deployment's to follow: it is on, nobody edited the
\* live copy or ignored this release, and no copy was cut before it was recorded.
Followed == enabled /\ live \notin Edits /\ ignored # shipped /\ ~apart

\* While dnsmasq runs, a live copy that is not what the image ships is reported as an
\* available update, however pulls, ignores, restarts, failures, image updates and
\* rollbacks were interleaved with the script's reads and writes
\* (dns.default.sh:36, blocklist.go:299).
NoSilentStale ==
  script \in {"exec", "serve"} /\ Followed => live = shipped \/ UpdateAvailable

\* A copy that was edited by hand before the script looked at it is overwritten only by
\* a pull, or removed when the source is switched off (dns.default.sh:39).
EditsSurvive ==
  [][(live \in Edits /\ live' \notin Edits) =>
       \/ ~enabled
       \/ \E r \in Reqs : pc[r] = "write" /\ req[r].op = "pull"
       \/ live_hash # live]_live

\* When no request is between its write and its restart, dnsmasq runs on the stored hosts
\* and resolver, unless an error was answered at the step that would have done it: also
\* when a request finds that another one has already started the program
\* (handlers_dns.go:154, customhosts.go:68).
HostsServed ==
  script = "serve" /\ (\A r \in Reqs : pc[r] \notin {"render", "stop", "start"}) =>
    /\ half \/ rendered = hosts
    /\ missed \/ (served.hosts = rendered /\ served.resolver = resolver)

\* Unless a failed restart has left the program stopped, it comes to run in the end, and
\* runs on the image's list or has the user asked about it: no restart that ends another
\* one's script, and no pull beside it, keeps the list away (dns.default.sh:46).
UpdateReaches ==
  <>[](script # "down" =>
         /\ script = "serve"
         /\ Followed /\ ~missed => served.builtin = shipped \/ UpdateAvailable)

----------------------------------------------------------------------------
(* The inductive invariant behind the theorems of DnsBuiltinProofs.        *)

\* A request holds the mutex exactly while it writes, and its operation fits where
\* it is.
RequestShape ==
  \A r \in Reqs :
    /\ mu = r <=> pc[r] \in {"write", "manifest", "render"}
    /\ pc[r] = "lock" => req[r].op # "none"
    /\ pc[r] = "write" => req[r].op \in {"pull", "hosts", "resolver"}
    /\ pc[r] = "manifest" => req[r].op \in {"pull", "ignore"}
    /\ pc[r] = "render" => req[r].op = "hosts" /\ hosts = req[r].val

\* The rendered hosts lag the stored ones only under the mutex or after an error.
HostsRendered ==
  half \/ rendered = hosts \/ \E r \in Reqs : pc[r] = "render"

\* Once the flags are assembled they are those of the files, until a request that has
\* changed one is about to stop the program.
ServedFresh ==
  script \in {"exec", "serve"} =>
    \/ missed
    \/ \E r \in Reqs : pc[r] = "stop"
    \/ served.hosts = rendered /\ served.resolver = resolver

\* A pull between its two writes.
Pulling == \E r \in Reqs : pc[r] = "manifest" /\ req[r].op = "pull"

\* What the script has found out by the time it is there.
ScriptShape ==
  /\ script = "unlist" => ~enabled
  /\ script \in {"copy", "copying"} => live_hash \notin Edits
  /\ Cut \/ script \in {"assemble", "exec", "serve"} => live # NoFile \/ ~enabled
  /\ script \in {"record", "recording"} => live \in Edits \cup {shipped}
  /\ live = Torn => script = "copying" \/ apart
  /\ Pulling => live \in Edits \cup {shipped, NoFile, Torn}

\* The live copy is the release that the manifest names, or its absence, unless it was
\* edited, the user ignored that release, or somebody is or was cut between the two.
ManifestFollows ==
  \/ apart \/ Pulling \/ Cut
  \/ live \in Edits \cup {NoFile}
  \/ manifest # NoHash /\ manifest \in {live, ignored}

DnsInv ==
  TypeOK /\ RequestShape /\ HostsRendered /\ ServedFresh /\ ScriptShape /\ ManifestFollows
=============================================================================
