-------------------------- MODULE DnsBuiltinProofs --------------------------
(***************************************************************************)
(* What the DNS program's managed files guarantee for any number of        *)
(* requests, releases, edits and host lists, and any number of faults.     *)
(***************************************************************************)
EXTENDS DnsBuiltin, TLAPS

\* What a request's body has to say.
LEMMA BodyFacts ==
  ASSUME NEW b \in Bodies \cup {NoBody}
  PROVE  /\ b.op \in {"pull", "ignore", "hosts", "resolver", "none"}
         /\ b \in Bodies => b.op # "none"
         /\ b.op \in {"hosts", "resolver"} => b.val \in Vals \cup {Default}
BY DEF Bodies, NoBody

\* A request moves on with what it knows.
LEMMA GotoFrame ==
  ASSUME TypeOK, NEW r \in Reqs, NEW at, Goto(r, at), req' = req
  PROVE  /\ pc'[r] = at
         /\ \A q \in Reqs : q # r => pc'[q] = pc[q]
         /\ \A q \in Reqs : req'[q] = req[q]
BY DEF TypeOK, Goto

\* A request is answered.
LEMMA AnswerFrame ==
  ASSUME TypeOK, NEW r \in Reqs, Answer(r)
  PROVE  /\ pc'[r] = "done" /\ req'[r] = NoBody
         /\ \A q \in Reqs : q # r => pc'[q] = pc[q] /\ req'[q] = req[q]
         /\ pc' \in [Reqs -> {"new", "lock", "write", "manifest", "render", "stop", "start", "done"}]
         /\ req' \in [Reqs -> Bodies \cup {NoBody}]
BY DEF TypeOK, Answer, Goto

----------------------------------------------------------------------------
(* The script.                                                             *)

\* What a step of the script leaves alone.
LEMMA ScriptFrame ==
  ASSUME DnsInv, UNCHANGED <<files, requests, half>>
  PROVE  RequestShape' /\ HostsRendered' /\ (Pulling' <=> Pulling)
BY DEF DnsInv, RequestShape, HostsRendered, Pulling, files, requests

\* The source is switched off.
LEMMA RemoveInv ==
  ASSUME DnsInv, Remove \/ Unlist
  PROVE  DnsInv'
<1> USE DEF DnsInv, Remove, Unlist, files, requests, history, Cut
<1>1. RequestShape' /\ HostsRendered' /\ (Pulling' <=> Pulling)
  BY ScriptFrame
<1>2. TypeOK'
  BY DEF TypeOK
<1>3. ServedFresh'
  BY DEF ServedFresh
<1>4. ScriptShape'
  BY <1>1, DnsConstants DEF ScriptShape, TypeOK
<1>5. ManifestFollows'
  BY <1>1 DEF ManifestFollows, TypeOK
<1> QED BY <1>1, <1>2, <1>3, <1>4, <1>5

\* The script reads the manifest and the live copy, and decides: it copies over what
\* it has hashed only when that is no edit.
LEMMA ReadInv ==
  ASSUME DnsInv, ReadManifest \/ HashLive
  PROVE  DnsInv'
<1> USE DEF DnsInv, ReadManifest, HashLive, builtin, files, requests, history, Cut
<1>1. RequestShape' /\ HostsRendered' /\ (Pulling' <=> Pulling)
  BY ScriptFrame
<1>2. TypeOK'
  BY DEF TypeOK
<1>3. ServedFresh'
  BY DEF ServedFresh
<1>4. ScriptShape'
  BY <1>1, DnsConstants DEF ScriptShape, TypeOK
<1>5. ManifestFollows'
  BY <1>1 DEF ManifestFollows
<1> QED BY <1>1, <1>2, <1>3, <1>4, <1>5

\* The copy and its record.
LEMMA CopyInv ==
  ASSUME DnsInv, CopyBegins \/ CopyEnds \/ RecordBegins \/ RecordEnds
  PROVE  DnsInv'
<1> USE DEF DnsInv, CopyBegins, CopyEnds, RecordBegins, RecordEnds, files, requests,
      history, Cut
<1>1. RequestShape' /\ HostsRendered' /\ (Pulling' <=> Pulling)
  BY ScriptFrame
<1>2. TypeOK'
  BY DEF TypeOK
<1>3. ServedFresh'
  BY DEF ServedFresh
<1>4. ScriptShape'
  BY <1>1, DnsConstants DEF ScriptShape, TypeOK
<1>5. ManifestFollows'
  BY <1>1, DnsConstants DEF ManifestFollows, ScriptShape, TypeOK
<1> QED BY <1>1, <1>2, <1>3, <1>4, <1>5

\* What dnsmasq has read, field by field.
LEMMA ExecReads ==
  ASSUME TypeOK, Exec
  PROVE  /\ served' \in [builtin : Releases \cup Edits \cup {NoFile, Torn},
                         hosts : Vals \cup {Default}, resolver : Vals \cup {Default}]
         /\ served'.hosts = IF served.hosts = Default THEN Default ELSE rendered
         /\ served'.resolver = served.resolver
<1>1. ASSUME NEW B, NEW H, NEW R, NEW s \in [builtin : B, hosts : H, resolver : R],
             NEW b \in B, NEW h \in H
      PROVE  [s EXCEPT !.builtin = b, !.hosts = h] =
               [builtin |-> b, hosts |-> h, resolver |-> s.resolver]
  <2>1. s = [builtin |-> s.builtin, hosts |-> s.hosts, resolver |-> s.resolver]
    OBVIOUS
  <2>2. [s EXCEPT !.builtin = b] = [builtin |-> b, hosts |-> s.hosts, resolver |-> s.resolver]
    BY <2>1
  <2>3. ASSUME NEW t, t = [builtin |-> b, hosts |-> s.hosts, resolver |-> s.resolver]
        PROVE  [t EXCEPT !.hosts = h] = [builtin |-> b, hosts |-> h, resolver |-> s.resolver]
    BY <2>3
  <2> QED BY <2>2, <2>3
<1> DEFINE B == Releases \cup Edits \cup {NoFile, Torn}
           H == Vals \cup {Default}
           b == IF served.builtin = NoFile THEN served.builtin ELSE live
           h == IF served.hosts = Default THEN served.hosts ELSE rendered
<1>2. served \in [builtin : B, hosts : H, resolver : H] /\ b \in B /\ h \in H
  BY DEF TypeOK
<1>3. served' = [served EXCEPT !.builtin = b, !.hosts = h]
  BY DEF Exec
<1>4. h = IF served.hosts = Default THEN Default ELSE rendered
  OBVIOUS
<1> HIDE DEF B, H, b, h
<1>5. served' = [builtin |-> b, hosts |-> h, resolver |-> served.resolver]
  BY <1>1, <1>2, <1>3
<1> QED BY <1>2, <1>4, <1>5 DEF B, H

\* The flags are assembled from the files, ...
LEMMA AssembleInv ==
  ASSUME DnsInv, Assemble
  PROVE  DnsInv'
<1> USE DEF DnsInv, Assemble, builtin, files, requests, Cut
<1>1. RequestShape' /\ HostsRendered' /\ (Pulling' <=> Pulling)
  BY ScriptFrame
<1>2. TypeOK'
  BY DEF TypeOK
<1>3. ServedFresh'
  BY DEF ServedFresh
<1>4. ScriptShape' /\ ManifestFollows'
  BY <1>1 DEF ScriptShape, ManifestFollows
<1> QED BY <1>1, <1>2, <1>3, <1>4

\* ... and dnsmasq reads the files again: a file that the flags do not name was not
\* there when they were assembled, nor is it now.
LEMMA ExecInv ==
  ASSUME DnsInv, Exec
  PROVE  DnsInv'
<1> USE DEF DnsInv
<1>0. /\ script = "exec" /\ script' = "serve"
      /\ UNCHANGED <<builtin, files, requests, prev_hash, live_hash, faults, history>>
  BY DEF Exec
<1>1. RequestShape' /\ HostsRendered' /\ (Pulling' <=> Pulling)
  BY <1>0, ScriptFrame DEF history
<1>2. TypeOK'
  BY <1>0, ExecReads DEF TypeOK, builtin, files, requests, history
<1>3. ServedFresh'
  BY <1>0, ExecReads DEF ServedFresh, files, requests, history
<1>4. ScriptShape' /\ ManifestFollows'
  BY <1>0, <1>1 DEF ScriptShape, ManifestFollows, builtin, history, Cut
<1> QED BY <1>1, <1>2, <1>3, <1>4

----------------------------------------------------------------------------
(* The requests.                                                           *)

\* A request arrives with a body.
LEMMA ArriveInv ==
  ASSUME DnsInv, NEW r \in Reqs, Arrive(r)
  PROVE  DnsInv'
<1> USE DEF DnsInv
<1>1. PICK b \in Bodies : req' = [req EXCEPT ![r] = b] /\ pc' = [pc EXCEPT ![r] = "lock"]
  BY DEF Arrive
<1>2. /\ pc[r] = "new" /\ pc'[r] = "lock" /\ req'[r] = b /\ b.op # "none"
      /\ \A q \in Reqs : q # r => pc'[q] = pc[q] /\ req'[q] = req[q]
  BY <1>1, BodyFacts DEF Arrive, TypeOK
<1>3. UNCHANGED <<builtin, files, mu, scripts, faults, history>>
  BY DEF Arrive
<1> USE DEF builtin, files, scripts, history
<1>4. TypeOK'
  BY <1>1, <1>3 DEF TypeOK
<1>5. RequestShape'
  BY <1>2, <1>3 DEF RequestShape
<1>6. Pulling' <=> Pulling
  BY <1>2 DEF Pulling
<1>7. HostsRendered' /\ ServedFresh'
  BY <1>2, <1>3 DEF HostsRendered, ServedFresh
<1>8. ScriptShape' /\ ManifestFollows'
  BY <1>3, <1>6 DEF ScriptShape, ManifestFollows, Cut
<1> QED BY <1>4, <1>5, <1>7, <1>8

\* It takes the mutex.
LEMMA LockInv ==
  ASSUME DnsInv, NEW r \in Reqs, Lock(r)
  PROVE  DnsInv'
<1> USE DEF DnsInv
<1>1. PICK at \in {"write", "manifest"} :
        /\ Goto(r, at)
        /\ at = IF req[r].op = "ignore" THEN "manifest" ELSE "write"
  BY DEF Lock
<1>2. /\ pc[r] = "lock" /\ mu = Nobody /\ mu' = r /\ req' = req
      /\ UNCHANGED <<builtin, files, scripts, faults, history>>
  BY DEF Lock
<1>3. /\ pc'[r] = at
      /\ \A q \in Reqs : q # r => pc'[q] = pc[q]
      /\ \A q \in Reqs : req'[q] = req[q]
  BY <1>1, <1>2, GotoFrame
<1>4. at = "write" => req[r].op \in {"pull", "hosts", "resolver"}
  BY <1>1, <1>2, BodyFacts DEF TypeOK, RequestShape
<1> USE DEF builtin, files, scripts, history
<1>5. TypeOK'
  BY <1>1, <1>2 DEF TypeOK, Goto
<1>6. RequestShape'
  BY <1>1, <1>2, <1>3, <1>4, DnsConstants DEF RequestShape
<1>7. Pulling' <=> Pulling
  BY <1>1, <1>2, <1>3 DEF Pulling
<1>8. HostsRendered' /\ ServedFresh'
  BY <1>1, <1>2, <1>3 DEF HostsRendered, ServedFresh
<1>9. ScriptShape' /\ ManifestFollows'
  BY <1>2, <1>7 DEF ScriptShape, ManifestFollows, Cut
<1> QED BY <1>5, <1>6, <1>8, <1>9

\* Only the holder of the mutex is at a write.
LEMMA OneHolder ==
  ASSUME RequestShape, NEW r \in Reqs, NEW q \in Reqs,
         pc[r] \in {"write", "manifest", "render"}, q # r
  PROVE  pc[q] \notin {"write", "manifest", "render"} /\ mu = r
BY DEF RequestShape

\* A pull's first write.
LEMMA WriteLiveInv ==
  ASSUME DnsInv, NEW r \in Reqs, WriteLive(r)
  PROVE  DnsInv'
<1> USE DEF DnsInv
<1>1. /\ pc[r] = "write" /\ req[r].op = "pull" /\ live' = shipped
      /\ req' = req /\ Goto(r, "manifest")
      /\ UNCHANGED <<shipped, enabled, manifest, files, mu, scripts, faults, history>>
  BY DEF WriteLive
<1>2. /\ pc'[r] = "manifest"
      /\ \A q \in Reqs : q # r => pc'[q] = pc[q]
      /\ \A q \in Reqs : req'[q] = req[q]
  BY <1>1, GotoFrame
<1> USE DEF files, scripts, history
<1>3. TypeOK'
  BY <1>1 DEF TypeOK, Goto
<1>4. RequestShape'
  BY <1>1, <1>2 DEF RequestShape
<1>5. Pulling'
  BY <1>1, <1>2 DEF Pulling
<1>6. HostsRendered' /\ ServedFresh'
  BY <1>1, <1>2 DEF HostsRendered, ServedFresh
<1>7. ScriptShape' /\ ManifestFollows'
  BY <1>1, <1>5, DnsConstants DEF ScriptShape, ManifestFollows, Cut, TypeOK
<1> QED BY <1>3, <1>4, <1>6, <1>7

\* A pull's second write, or an ignore's only one: what the manifest names is then the
\* live copy, or what the user ignores.
LEMMA WriteManifestInv ==
  ASSUME DnsInv, NEW r \in Reqs, WriteManifest(r)
  PROVE  DnsInv'
<1> USE DEF DnsInv
<1>1. /\ pc[r] = "manifest" /\ manifest' = shipped /\ mu' = Nobody
      /\ ignored' = IF req[r].op = "ignore" THEN shipped ELSE ignored
      /\ apart' = (apart /\ live # shipped)
      /\ UNCHANGED <<shipped, enabled, live, files, scripts, faults, half, missed>>
  BY DEF WriteManifest
<1>2. PICK at \in {"stop", "done"} :
        /\ pc'[r] = at
        /\ \A q \in Reqs : q # r => pc'[q] = pc[q] /\ req'[q] = req[q]
        /\ pc' \in [Reqs -> {"new", "lock", "write", "manifest", "render", "stop", "start", "done"}]
        /\ req' \in [Reqs -> Bodies \cup {NoBody}]
  <2>1. CASE req[r].op = "ignore"
    BY <2>1, AnswerFrame DEF WriteManifest
  <2>2. CASE req[r].op # "ignore"
    BY <2>2 DEF WriteManifest, Goto, TypeOK
  <2> QED BY <2>1, <2>2
<1>3. \A q \in Reqs : q # r => pc[q] \notin {"write", "manifest", "render"}
  BY <1>1, OneHolder
<1> USE DEF files, scripts
<1>4. TypeOK'
  BY <1>1, <1>2 DEF TypeOK
<1>5. RequestShape'
  BY <1>1, <1>2, <1>3, DnsConstants DEF RequestShape
<1>6. ~Pulling'
  BY <1>2, <1>3 DEF Pulling
<1>7. HostsRendered' /\ ServedFresh'
  BY <1>1, <1>2, <1>3 DEF HostsRendered, ServedFresh
<1>8. ScriptShape'
  BY <1>1, <1>6, DnsConstants DEF ScriptShape, Cut, TypeOK
<1>9. ManifestFollows'
  <2>1. manifest' # NoHash
    BY <1>1, DnsConstants DEF TypeOK
  <2>2. CASE req[r].op = "ignore"
    BY <1>1, <2>1, <2>2 DEF ManifestFollows
  <2>3. CASE req[r].op # "ignore"
    <3>1. Pulling
      BY <1>1, <2>3 DEF RequestShape, Pulling
    <3>2. live \in Edits \cup {shipped, NoFile} \/ (live = Torn /\ (Cut \/ apart))
      BY <3>1 DEF ScriptShape, Cut
    <3>3. live = Torn => live # shipped
      BY DnsConstants DEF TypeOK
    <3> QED BY <1>1, <2>1, <3>2, <3>3 DEF ManifestFollows, Cut
  <2> QED BY <2>2, <2>3
<1> QED BY <1>4, <1>5, <1>7, <1>8, <1>9

\* SetCustomHosts stores the list ...
LEMMA WriteHostsInv ==
  ASSUME DnsInv, NEW r \in Reqs, WriteHosts(r)
  PROVE  DnsInv'
<1> USE DEF DnsInv
<1>1. /\ pc[r] = "write" /\ req[r].op = "hosts" /\ hosts' = req[r].val
      /\ req' = req /\ Goto(r, "render")
      /\ UNCHANGED <<builtin, rendered, resolver, mu, scripts, faults, history>>
  BY DEF WriteHosts
<1>2. /\ pc'[r] = "render"
      /\ \A q \in Reqs : q # r => pc'[q] = pc[q]
      /\ \A q \in Reqs : req'[q] = req[q]
  BY <1>1, GotoFrame
<1>3. \A q \in Reqs : q # r => pc[q] \notin {"write", "manifest", "render"}
  BY <1>1, OneHolder
<1>4. req[r].val \in Vals \cup {Default}
  BY <1>1, BodyFacts DEF TypeOK
<1> USE DEF builtin, scripts, history
<1>5. TypeOK'
  BY <1>1, <1>4 DEF TypeOK, Goto
<1>6. RequestShape'
  BY <1>1, <1>2, <1>3 DEF RequestShape
<1>7. Pulling' <=> Pulling
  BY <1>1, <1>2 DEF Pulling
<1>8. HostsRendered' /\ ServedFresh'
  BY <1>1, <1>2 DEF HostsRendered, ServedFresh
<1>9. ScriptShape' /\ ManifestFollows'
  BY <1>1, <1>7 DEF ScriptShape, ManifestFollows, Cut
<1> QED BY <1>5, <1>6, <1>8, <1>9

\* ... and renders it: nobody has stored another one in between.
LEMMA RenderInv ==
  ASSUME DnsInv, NEW r \in Reqs, RenderHosts(r)
  PROVE  DnsInv'
<1> USE DEF DnsInv
<1>1. /\ pc[r] = "render" /\ rendered' = req[r].val /\ mu' = Nobody /\ half' = FALSE
      /\ req' = req /\ Goto(r, "stop")
      /\ UNCHANGED <<builtin, hosts, resolver, scripts, faults, ignored, apart, missed>>
  BY DEF RenderHosts
<1>2. /\ pc'[r] = "stop"
      /\ \A q \in Reqs : q # r => pc'[q] = pc[q]
      /\ \A q \in Reqs : req'[q] = req[q]
  BY <1>1, GotoFrame
<1>3. \A q \in Reqs : q # r => pc[q] \notin {"write", "manifest", "render"}
  BY <1>1, OneHolder
<1>4. req[r].val = hosts
  BY <1>1 DEF RequestShape
<1> USE DEF builtin, scripts
<1>5. TypeOK'
  <2>1. rendered' \in Vals \cup {Default} /\ half' \in BOOLEAN
    BY <1>1, <1>4 DEF TypeOK
  <2>2. pc' \in [Reqs -> {"new", "lock", "write", "manifest", "render", "stop", "start", "done"}]
    BY <1>1 DEF TypeOK, Goto
  <2> QED BY <1>1, <2>1, <2>2 DEF TypeOK
<1>6. RequestShape'
  BY <1>1, <1>2, <1>3, DnsConstants DEF RequestShape
<1>7. Pulling' <=> Pulling
  BY <1>1, <1>2 DEF Pulling
<1>8. HostsRendered' /\ ServedFresh'
  BY <1>1, <1>2, <1>4 DEF HostsRendered, ServedFresh
<1>9. ScriptShape' /\ ManifestFollows'
  BY <1>1, <1>7 DEF ScriptShape, ManifestFollows, Cut
<1> QED BY <1>5, <1>6, <1>8, <1>9

\* SetResolverConfig.
LEMMA ResolverInv ==
  ASSUME DnsInv, NEW r \in Reqs, SetResolverConfig(r)
  PROVE  DnsInv'
<1> USE DEF DnsInv
<1>1. /\ pc[r] = "write" /\ req[r].op = "resolver" /\ resolver' = req[r].val /\ mu' = Nobody
      /\ req' = req /\ Goto(r, "stop")
      /\ UNCHANGED <<builtin, hosts, rendered, scripts, faults, history>>
  BY DEF SetResolverConfig
<1>2. /\ pc'[r] = "stop"
      /\ \A q \in Reqs : q # r => pc'[q] = pc[q]
      /\ \A q \in Reqs : req'[q] = req[q]
  BY <1>1, GotoFrame
<1>3. \A q \in Reqs : q # r => pc[q] \notin {"write", "manifest", "render"}
  BY <1>1, OneHolder
<1>4. req[r].val \in Vals \cup {Default}
  BY <1>1, BodyFacts DEF TypeOK
<1> USE DEF builtin, scripts, history
<1>5. TypeOK'
  BY <1>1, <1>4 DEF TypeOK, Goto
<1>6. RequestShape'
  BY <1>1, <1>2, <1>3, DnsConstants DEF RequestShape
<1>7. Pulling' <=> Pulling
  BY <1>1, <1>2 DEF Pulling
<1>8. HostsRendered' /\ ServedFresh'
  BY <1>1, <1>2 DEF HostsRendered, ServedFresh
<1>9. ScriptShape' /\ ManifestFollows'
  BY <1>1, <1>7 DEF ScriptShape, ManifestFollows, Cut
<1> QED BY <1>5, <1>6, <1>8, <1>9

\* A request stops the program, wherever its script is: a copy that is cut short is
\* remembered as such.
LEMMA StopInv ==
  ASSUME DnsInv, NEW r \in Reqs, Stop(r)
  PROVE  DnsInv'
<1> USE DEF DnsInv
<1>1. /\ pc[r] = "stop" /\ req' = req /\ Goto(r, "start")
      /\ script' = "down" /\ prev_hash' = NoHash /\ live_hash' = NoFile
      /\ UNCHANGED <<builtin, files, mu, served, faults, ignored>>
  BY DEF Stop, Ended, GivenUp
<1>2. apart' = (apart \/ Cut) /\ half' = half /\ missed' = missed
  BY DEF Stop, GivenUp, TypeOK
<1>3. /\ pc'[r] = "start"
      /\ \A q \in Reqs : q # r => pc'[q] = pc[q]
      /\ \A q \in Reqs : req'[q] = req[q]
  BY <1>1, GotoFrame
<1> USE DEF builtin, files
<1>4. pc' \in [Reqs -> {"new", "lock", "write", "manifest", "render", "stop", "start", "done"}]
      /\ apart' \in BOOLEAN
  BY <1>1, <1>2 DEF TypeOK, Goto
<1>5. TypeOK'
  BY <1>1, <1>2, <1>4 DEF TypeOK
<1>6. RequestShape'
  BY <1>1, <1>3 DEF RequestShape
<1>7. Pulling' <=> Pulling
  BY <1>1, <1>3 DEF Pulling
<1>8. HostsRendered' /\ ServedFresh'
  BY <1>1, <1>2, <1>3 DEF HostsRendered, ServedFresh
<1>9. ScriptShape' /\ ManifestFollows'
  BY <1>1, <1>2, <1>7 DEF ScriptShape, ManifestFollows, Cut
<1> QED BY <1>5, <1>6, <1>8, <1>9

\* It starts the program again, or finds that another request has.
LEMMA StartInv ==
  ASSUME DnsInv, NEW r \in Reqs, Start(r) \/ StartLate(r)
  PROVE  DnsInv'
<1> USE DEF DnsInv
<1>1. /\ pc[r] = "start" /\ Answer(r)
      /\ script' = script \/ script' = "begin"
      /\ UNCHANGED <<builtin, files, mu, prev_hash, live_hash, served, faults, history>>
  BY DEF Start, StartLate, scripts
<1>2. /\ pc'[r] = "done" /\ req'[r] = NoBody
      /\ \A q \in Reqs : q # r => pc'[q] = pc[q] /\ req'[q] = req[q]
      /\ pc' \in [Reqs -> {"new", "lock", "write", "manifest", "render", "stop", "start", "done"}]
      /\ req' \in [Reqs -> Bodies \cup {NoBody}]
  BY <1>1, AnswerFrame
<1>3. script' = script \/ (script = "down" /\ script' = "begin")
  BY DEF Start, StartLate, scripts
<1> USE DEF builtin, files, history
<1>4. TypeOK'
  BY <1>1, <1>2 DEF TypeOK
<1>5. RequestShape'
  BY <1>1, <1>2 DEF RequestShape
<1>6. Pulling' <=> Pulling
  BY <1>1, <1>2 DEF Pulling
<1>7. HostsRendered' /\ ServedFresh'
  BY <1>1, <1>2 DEF HostsRendered, ServedFresh
<1>8. ScriptShape' /\ ManifestFollows'
  BY <1>1, <1>3, <1>6 DEF ScriptShape, ManifestFollows, Cut
<1> QED BY <1>4, <1>5, <1>7, <1>8

----------------------------------------------------------------------------
(* Failures.                                                               *)

\* A request that ends at a failed call leaves a note of what it has left half way.
LEMMA GivenUpInv ==
  ASSUME DnsInv, NEW r \in Reqs, WriteFails(r) \/ RestartFails(r)
  PROVE  DnsInv'
<1> USE DEF DnsInv
<1>1. /\ pc[r] \in {"write", "manifest", "render", "stop", "start"}
      /\ Answer(r) /\ GivenUp({r}, FALSE)
      /\ faults < MaxFaults /\ faults' = faults + 1
      /\ UNCHANGED <<builtin, files, scripts>>
  BY DEF WriteFails, RestartFails
<1>2. /\ pc'[r] = "done" /\ req'[r] = NoBody
      /\ \A q \in Reqs : q # r => pc'[q] = pc[q] /\ req'[q] = req[q]
      /\ pc' \in [Reqs -> {"new", "lock", "write", "manifest", "render", "stop", "start", "done"}]
      /\ req' \in [Reqs -> Bodies \cup {NoBody}]
  BY <1>1, AnswerFrame
<1>3. /\ apart' = (apart \/ (pc[r] = "manifest" /\ req[r].op = "pull"))
      /\ half' = (half \/ pc[r] = "render")
      /\ missed' = (missed \/ pc[r] = "stop")
      /\ ignored' = ignored
  BY <1>1 DEF GivenUp, TypeOK
<1>4. IF pc[r] \in {"write", "manifest", "render"} THEN mu = r /\ mu' = Nobody ELSE mu' = mu
  BY DEF WriteFails, RestartFails, RequestShape
<1> USE DEF builtin, files, scripts
<1>5. apart' \in BOOLEAN /\ half' \in BOOLEAN /\ missed' \in BOOLEAN
  BY <1>3 DEF TypeOK
<1>6. faults' \in 0 .. MaxFaults /\ mu' \in Reqs \cup {Nobody}
  BY <1>1, <1>4, DnsConstants DEF TypeOK
<1>7. TypeOK'
  BY <1>1, <1>2, <1>3, <1>5, <1>6 DEF TypeOK
<1>8. RequestShape'
  BY <1>1, <1>2, <1>4, DnsConstants DEF RequestShape
<1>9. /\ Pulling' => Pulling
      /\ Pulling => Pulling' \/ apart'
  BY <1>2, <1>3 DEF Pulling
<1>10. HostsRendered'
  BY <1>1, <1>2, <1>3 DEF HostsRendered
<1>11. ServedFresh'
  BY <1>1, <1>2, <1>3 DEF ServedFresh
<1>12. apart => apart'
  BY <1>3
<1>13. ScriptShape' /\ ManifestFollows'
  BY <1>1, <1>3, <1>9, <1>12 DEF ScriptShape, ManifestFollows, Cut
<1> QED BY <1>7, <1>8, <1>10, <1>11, <1>13

\* The script dies and is started again.
LEMMA ScriptDiesInv ==
  ASSUME DnsInv, ScriptDies
  PROVE  DnsInv'
<1> USE DEF DnsInv
<1>1. /\ script' = "begin" /\ prev_hash' = NoHash /\ live_hash' = NoFile
      /\ faults < MaxFaults /\ faults' = faults + 1
      /\ UNCHANGED <<builtin, files, requests, served, ignored>>
  BY DEF ScriptDies, Ended, GivenUp
<1>2. apart' = (apart \/ Cut) /\ half' = half /\ missed' = missed
  BY DEF ScriptDies, GivenUp, TypeOK
<1>3. RequestShape' /\ HostsRendered' /\ (Pulling' <=> Pulling)
  BY <1>1, <1>2, ScriptFrame
<1> USE DEF builtin, files, requests
<1>4. faults' \in 0 .. MaxFaults /\ apart' \in BOOLEAN
  BY <1>1, <1>2, DnsConstants DEF TypeOK
<1>5. TypeOK'
  BY <1>1, <1>2, <1>4 DEF TypeOK
<1>6. ServedFresh' /\ ScriptShape' /\ ManifestFollows'
  BY <1>1, <1>2, <1>3 DEF ServedFresh, ScriptShape, ManifestFollows, Cut
<1> QED BY <1>3, <1>5, <1>6

\* Every request is gone, and what was half way is noted.
LEMMA AbandonedFacts ==
  ASSUME DnsInv, Abandoned, NEW cut \in BOOLEAN, GivenUp(Reqs, cut), hosts' = hosts,
         rendered' = rendered
  PROVE  /\ RequestShape' /\ HostsRendered' /\ ~Pulling'
         /\ pc' \in [Reqs -> {"new", "lock", "write", "manifest", "render", "stop", "start", "done"}]
         /\ req' \in [Reqs -> Bodies \cup {NoBody}] /\ mu' = Nobody
         /\ apart' \in BOOLEAN /\ half' \in BOOLEAN /\ missed' \in BOOLEAN
         /\ ignored' = ignored
         /\ apart \/ cut \/ Pulling => apart'
         /\ missed \/ (\E r \in Reqs : pc[r] = "stop") => missed'
<1> USE DEF DnsInv
<1>1. /\ \A r \in Reqs : pc'[r] \in {"new", "done"} /\ req'[r] = NoBody
      /\ pc' \in [Reqs -> {"new", "lock", "write", "manifest", "render", "stop", "start", "done"}]
      /\ req' \in [Reqs -> Bodies \cup {NoBody}] /\ mu' = Nobody
  BY DEF Abandoned
<1>2. /\ apart' = (apart \/ cut \/ Pulling)
      /\ half' = (half \/ \E r \in Reqs : pc[r] = "render")
      /\ missed' = (missed \/ \E r \in Reqs : pc[r] = "stop")
      /\ ignored' = ignored
  BY DEF GivenUp, Pulling
<1>3. RequestShape'
  BY <1>1, DnsConstants DEF RequestShape
<1>4. HostsRendered'
  BY <1>2 DEF HostsRendered
<1>5. ~Pulling'
  BY <1>1 DEF Pulling
<1>6. apart' \in BOOLEAN /\ half' \in BOOLEAN /\ missed' \in BOOLEAN
  BY <1>2 DEF TypeOK
<1> QED BY <1>1, <1>2, <1>3, <1>4, <1>5, <1>6

\* router-manager dies.
LEMMA ManagerDiesInv ==
  ASSUME DnsInv, ManagerDies
  PROVE  DnsInv'
<1> USE DEF DnsInv
<1>1. /\ Abandoned /\ GivenUp(Reqs, FALSE)
      /\ faults < MaxFaults /\ faults' = faults + 1
      /\ UNCHANGED <<builtin, files, scripts>>
  BY DEF ManagerDies
<1> USE DEF builtin, files, scripts
<1>2. /\ RequestShape' /\ HostsRendered' /\ ~Pulling'
      /\ pc' \in [Reqs -> {"new", "lock", "write", "manifest", "render", "stop", "start", "done"}]
      /\ req' \in [Reqs -> Bodies \cup {NoBody}] /\ mu' = Nobody
      /\ apart' \in BOOLEAN /\ half' \in BOOLEAN /\ missed' \in BOOLEAN
      /\ ignored' = ignored
      /\ apart \/ Pulling => apart'
      /\ missed \/ (\E r \in Reqs : pc[r] = "stop") => missed'
  BY <1>1, AbandonedFacts
<1>3. faults' \in 0 .. MaxFaults
  BY <1>1, DnsConstants DEF TypeOK
<1>4. TypeOK'
  BY <1>1, <1>2, <1>3 DEF TypeOK
<1>5. ServedFresh' /\ ScriptShape' /\ ManifestFollows'
  BY <1>1, <1>2 DEF ServedFresh, ScriptShape, ManifestFollows, Cut
<1> QED BY <1>2, <1>4, <1>5

\* The container starts again, from whatever image: the volume stays as it was.
LEMMA RebootInv ==
  ASSUME DnsInv, Reboot
  PROVE  DnsInv'
<1> USE DEF DnsInv
<1>1. /\ Abandoned /\ GivenUp(Reqs, Cut) /\ Cut \in BOOLEAN
      /\ shipped' \in Releases /\ enabled' \in BOOLEAN
      /\ script' = "begin" /\ prev_hash' = NoHash /\ live_hash' = NoFile
      /\ faults < MaxFaults /\ faults' = faults + 1
      /\ UNCHANGED <<live, manifest, files, served>>
  BY DEF Reboot, Ended, Cut
<1> USE DEF files
<1>2. /\ RequestShape' /\ HostsRendered' /\ ~Pulling'
      /\ pc' \in [Reqs -> {"new", "lock", "write", "manifest", "render", "stop", "start", "done"}]
      /\ req' \in [Reqs -> Bodies \cup {NoBody}] /\ mu' = Nobody
      /\ apart' \in BOOLEAN /\ half' \in BOOLEAN /\ missed' \in BOOLEAN
      /\ ignored' = ignored
      /\ apart \/ Cut \/ Pulling => apart'
  BY <1>1, AbandonedFacts
<1>3. faults' \in 0 .. MaxFaults
  BY <1>1, DnsConstants DEF TypeOK
<1>4. TypeOK'
  BY <1>1, <1>2, <1>3 DEF TypeOK
<1>5. ServedFresh'
  BY <1>1 DEF ServedFresh
<1>6. ScriptShape' /\ ManifestFollows'
  BY <1>1, <1>2 DEF ScriptShape, ManifestFollows, Cut
<1> QED BY <1>2, <1>4, <1>5, <1>6

\* The live copy is edited by hand.
LEMMA HandEditInv ==
  ASSUME DnsInv, HandEdit
  PROVE  DnsInv'
<1> USE DEF DnsInv
<1>1. /\ live' \in Edits /\ live # NoFile /\ faults < MaxFaults /\ faults' = faults + 1
      /\ UNCHANGED <<shipped, enabled, manifest, files, requests, scripts, history>>
  BY DEF HandEdit
<1> USE DEF scripts, history
<1>2. RequestShape' /\ HostsRendered' /\ (Pulling' <=> Pulling)
  BY <1>1, ScriptFrame
<1>3. TypeOK'
  BY <1>1, DnsConstants DEF TypeOK, files, requests
<1>4. ServedFresh'
  BY <1>1 DEF ServedFresh, files, requests
<1>5. ScriptShape' /\ ManifestFollows'
  BY <1>1, <1>2, DnsConstants DEF ScriptShape, ManifestFollows, Cut
<1> QED BY <1>2, <1>3, <1>4, <1>5

----------------------------------------------------------------------------
(* The whole.                                                              *)

\* The first start, on an empty volume.
LEMMA InitInv == Init => DnsInv
<1> SUFFICES ASSUME Init PROVE DnsInv
  OBVIOUS
<1> USE DEF Init
<1>1. TypeOK
  <2>1. NoBody \in Bodies \cup {NoBody} /\ 0 \in 0 .. MaxFaults
    BY DnsConstants
  <2>2. served \in [builtin : Releases \cup Edits \cup {NoFile, Torn},
                   hosts : Vals \cup {Default}, resolver : Vals \cup {Default}]
    OBVIOUS
  <2>3. apart \in BOOLEAN /\ half \in BOOLEAN /\ missed \in BOOLEAN
    OBVIOUS
  <2>4. pc \in [Reqs -> {"new", "lock", "write", "manifest", "render", "stop", "start", "done"}]
        /\ req \in [Reqs -> Bodies \cup {NoBody}]
    BY <2>1
  <2> QED BY <2>1, <2>2, <2>3, <2>4 DEF TypeOK
<1>2. RequestShape /\ HostsRendered
  BY DnsConstants DEF RequestShape, HostsRendered
<1>3. ~Pulling
  BY DEF Pulling
<1>4. ServedFresh /\ ScriptShape /\ ManifestFollows
  BY <1>3, DnsConstants DEF ServedFresh, ScriptShape, ManifestFollows, Cut
<1> QED BY <1>1, <1>2, <1>4 DEF DnsInv

\* Every step preserves the inductive invariant.
LEMMA NextInv == DnsInv /\ [Next]_vars => DnsInv'
<1> SUFFICES ASSUME DnsInv, [Next]_vars PROVE DnsInv'
  OBVIOUS
<1>1. ASSUME NEW r \in Reqs, Arrive(r) \/ Request(r) PROVE DnsInv'
  BY <1>1, ArriveInv, LockInv, WriteLiveInv, WriteManifestInv, WriteHostsInv, RenderInv,
     ResolverInv, StopInv, StartInv DEF Request
<1>2. CASE Script
  BY <1>2, RemoveInv, ReadInv, CopyInv, AssembleInv, ExecInv DEF Script
<1>3. CASE Fault
  BY <1>3, GivenUpInv, ScriptDiesInv, ManagerDiesInv, RebootInv, HandEditInv DEF Fault
<1>4. CASE UNCHANGED vars
  <2> USE <1>4 DEF vars, builtin, scripts, history, DnsInv
  <2>1. RequestShape' /\ HostsRendered' /\ (Pulling' <=> Pulling)
    BY ScriptFrame
  <2>2. TypeOK'
    BY DEF TypeOK, files, requests
  <2>3. ServedFresh' /\ ScriptShape' /\ ManifestFollows'
    BY <2>1 DEF ServedFresh, ScriptShape, ManifestFollows, Cut, files, requests
  <2> QED BY <2>1, <2>2, <2>3
<1> QED BY <1>1, <1>2, <1>3, <1>4 DEF Next

\* The inductive invariant holds in every reachable state.
THEOREM DnsInvariant == Spec => []DnsInv
BY InitInv, NextInv, PTL DEF Spec

\* Every variable of the DNS model keeps its type.
THEOREM DnsTypes == Spec => []TypeOK
<1>1. DnsInv => TypeOK
  BY DEF DnsInv
<1> QED BY <1>1, DnsInvariant, PTL

\* dnsmasq serves the stored hosts and resolver once no request is on its way, unless an
\* error was answered (SetCustomHosts, SetResolverConfig, the restart).
THEOREM HostsHold == Spec => []HostsServed
<1>1. DnsInv => HostsServed
  BY DEF DnsInv, HostsRendered, ServedFresh, HostsServed
<1> QED BY <1>1, DnsInvariant, PTL

\* A live copy that is not what the image ships is always reported as an update while
\* the source is followed, for any number of releases and faults (dns.default.sh,
\* GetBuiltinStatus).
THEOREM StaleHolds == Spec => []NoSilentStale
<1>1. DnsInv => NoSilentStale
  <2> SUFFICES ASSUME DnsInv, script \in {"exec", "serve"}, Followed, live # shipped
               PROVE  UpdateAvailable
    BY DEF NoSilentStale
  <2>1. enabled /\ live \notin Edits /\ ignored # shipped /\ ~apart /\ ~Cut
    BY DEF Followed, Cut
  <2>2. live # NoFile /\ live # Torn /\ ~Pulling
    BY <2>1 DEF DnsInv, ScriptShape
  <2>3. manifest # NoHash /\ manifest \in {live, ignored}
    BY <2>1, <2>2 DEF DnsInv, ManifestFollows
  <2> QED BY <2>1, <2>3 DEF UpdateAvailable
<1> QED BY <1>1, DnsInvariant, PTL

\* Only a pull, or switching the source off, replaces a copy that was edited before the
\* start script hashed it (seed_builtin_blocklist).
THEOREM EditsHold == Spec => EditsSurvive
<1>1. ASSUME DnsInv, [Next]_vars, live \in Edits, live' \notin Edits
      PROVE  \/ ~enabled
             \/ \E r \in Reqs : pc[r] = "write" /\ req[r].op = "pull"
             \/ live_hash # live
  <2> USE <1>1
  <2>1. CASE Remove
    BY <2>1 DEF Remove
  <2>2. CASE \E r \in Reqs : WriteLive(r)
    BY <2>2 DEF WriteLive
  <2>3. CASE CopyBegins \/ CopyEnds
    BY <2>3 DEF CopyBegins, CopyEnds, DnsInv, ScriptShape
  <2>4. CASE HandEdit
    BY <2>4 DEF HandEdit
  <2>5. ASSUME live' = live PROVE FALSE
    BY <2>5
  <2>6. \A r \in Reqs : Arrive(r) \/ Request(r) => live' = live \/ WriteLive(r)
    BY DEF Arrive, Request, Lock, WriteManifest, WriteHosts, RenderHosts, SetResolverConfig,
      Stop, Start, StartLate, builtin
  <2>7. Script => live' = live \/ Remove \/ CopyBegins \/ CopyEnds
    BY DEF Script, Unlist, ReadManifest, HashLive, RecordBegins, RecordEnds, Assemble, Exec,
      builtin
  <2>8. Fault => live' = live \/ HandEdit
    BY DEF Fault, WriteFails, RestartFails, ScriptDies, ManagerDies, Reboot, builtin
  <2>9. UNCHANGED vars => live' = live
    BY DEF vars, builtin
  <2> QED BY <2>1, <2>2, <2>3, <2>4, <2>5, <2>6, <2>7, <2>8, <2>9 DEF Next
<1>2. DnsInv /\ [Next]_vars =>
        [(live \in Edits /\ live' \notin Edits) =>
           \/ ~enabled
           \/ \E r \in Reqs : pc[r] = "write" /\ req[r].op = "pull"
           \/ live_hash # live]_live
  BY <1>1
<1> QED BY <1>2, DnsInvariant, PTL DEF Spec, EditsSurvive
=============================================================================
