---------------------------- MODULE AgentProofs ----------------------------
(***************************************************************************)
(* The parts of the agent runtime, for any number of provisioners, runs,   *)
(* runners, processes and seats and for any limits: the seat's workspace,  *)
(* the budget of a run, the tables that attribute runs, the match that the *)
(* server manages, the driver, and the redaction of what a process writes. *)
(***************************************************************************)
EXTENDS AgentDriver, AgentBudget, SeatWorkspace, Redaction, AgentRuns, AgentMatch,
        FiniteSetTheorems, WellFoundedInduction, TLAPS

-----------------------------------------------------------------------------
(* The seat's workspace *)

Provisioning == {"directories", "marker", "configs"}

\* Whoever is at work on the directory is the only one, and has it.
OneAtWork ==
    /\ \A v, w \in Provisioners : prov[v].pc # "idle" /\ prov[w].pc # "idle" => v = w
    /\ \A w \in Provisioners : prov[w].pc # "idle" => dir.exists /\ prov[w].request \in Requests
    /\ \A w \in Provisioners : agentProc[w] => prov[w].pc = "leased"

\* What a provisioner has written so far is its own.
OwnFiles ==
    \A w \in Provisioners :
        /\ prov[w].pc \in {"directories", "marker"} =>
              dir.marker = "absent" /\ \A f \in ConfigFiles : dir.configs[f] = "absent"
        /\ prov[w].pc = "configs" =>
              \A f \in ConfigFiles : dir.configs[f] \in {"absent", prov[w].request}

WorkspaceInv ==
    WorkspaceTypeOK /\ SpawnedOnOwnConfig /\ LeaseIsComplete /\ OneAtWork /\ OwnFiles

\* The three places that are kept apart in the step below: what the files
\* hold, who is at work, and what processes were started on.
LEMMA WorkspaceInitially == WorkspaceInit => WorkspaceInv
<1> SUFFICES ASSUME WorkspaceInit PROVE WorkspaceInv
    OBVIOUS
<1> USE DEF WorkspaceInit, IdleProv, NoDir
<1>1. WorkspaceTypeOK
    BY DEF WorkspaceTypeOK, Dir, FileState, Prov, ProvPc, NoRequest
<1>2. SpawnedOnOwnConfig /\ LeaseIsComplete /\ OneAtWork /\ OwnFiles
    BY DEF SpawnedOnOwnConfig, LeaseIsComplete, OneAtWork, OwnFiles
<1> QED BY <1>1, <1>2 DEF WorkspaceInv

\* A step that leaves the directory, the provisioners and what was spawned
\* alone, as a refusal and an exit do, keeps the invariant.
LEMMA WorkspaceAside ==
    ASSUME WorkspaceInv, UNCHANGED <<dir, prov, spawnedOn>>,
           agentProc' \in [Provisioners -> BOOLEAN],
           \A w \in Provisioners : agentProc'[w] => agentProc[w],
           audit' \subseteq Requests
    PROVE  WorkspaceInv'
<1>1. WorkspaceTypeOK'
    BY DEF WorkspaceInv, WorkspaceTypeOK
<1>2. OneAtWork'
    BY DEF WorkspaceInv, OneAtWork
<1>3. SpawnedOnOwnConfig' /\ LeaseIsComplete' /\ OwnFiles'
    BY DEF WorkspaceInv, SpawnedOnOwnConfig, LeaseIsComplete, OwnFiles
<1> QED BY <1>1, <1>2, <1>3 DEF WorkspaceInv

\* A provisioner that becomes idle, with or without the directory, leaves
\* nothing to keep: nobody else is at work.
LEMMA WorkspaceGivenUp ==
    ASSUME WorkspaceInv, NEW w \in Provisioners, prov[w].pc # "idle", ~agentProc[w],
           prov' = [prov EXCEPT ![w] = IdleProv], dir' \in {dir, NoDir},
           UNCHANGED <<agentProc, spawnedOn, audit>>
    PROVE  WorkspaceInv'
<1>0. WorkspaceTypeOK /\ OneAtWork
    BY DEF WorkspaceInv
<1>1. WorkspaceTypeOK'
    <2>1. IdleProv \in Prov
        BY DEF IdleProv, Prov, ProvPc, NoRequest, FileState
    <2>2. NoDir \in Dir
        BY DEF NoDir, Dir, FileState
    <2> QED BY <1>0, <2>1, <2>2 DEF WorkspaceTypeOK
<1>2. \A v \in Provisioners : prov'[v].pc = "idle"
    BY <1>0 DEF WorkspaceTypeOK, OneAtWork, IdleProv
<1>3. \A v \in Provisioners : ~agentProc'[v]
    BY <1>0 DEF OneAtWork
<1>4. OneAtWork' /\ OwnFiles' /\ LeaseIsComplete'
    BY <1>2, <1>3 DEF OneAtWork, OwnFiles, LeaseIsComplete
<1>5. SpawnedOnOwnConfig'
    BY DEF WorkspaceInv, SpawnedOnOwnConfig
<1> QED BY <1>1, <1>4, <1>5 DEF WorkspaceInv

\* allocate: the directory did not exist, so nobody was at work.
LEMMA AllocateKeeps ==
    ASSUME WorkspaceInv, NEW w \in Provisioners, NEW q \in Requests, allocate(w, q)
    PROVE  WorkspaceInv'
<1>0. WorkspaceTypeOK /\ OneAtWork
    BY DEF WorkspaceInv
<1>1. PICK d : d = [NoDir EXCEPT !.exists = TRUE, !.private = TRUE]
    OBVIOUS
<1>2. /\ d \in Dir /\ d.exists /\ d.marker = "absent"
      /\ \A f \in ConfigFiles : d.configs[f] = "absent"
    BY <1>1 DEF NoDir, Dir, FileState
<1>3. dir' = d /\ ~dir.exists /\ UNCHANGED <<agentProc, spawnedOn, audit>>
    BY <1>1 DEF allocate
<1>4. PICK p : p = [prov[w] EXCEPT !.pc = "directories", !.request = q]
    OBVIOUS
<1>5. p \in Prov /\ p.pc = "directories" /\ p.request = q
    BY <1>0, <1>4 DEF WorkspaceTypeOK, Prov, ProvPc
<1>6. prov' = [prov EXCEPT ![w] = p]
    BY <1>0, <1>4 DEF WorkspaceTypeOK, Prov, allocate
<1>7. \A v \in Provisioners : prov[v].pc = "idle" /\ ~agentProc[v]
    BY <1>0, <1>3 DEF OneAtWork
<1>8. WorkspaceTypeOK'
    BY <1>0, <1>2, <1>3, <1>5, <1>6 DEF WorkspaceTypeOK
<1>9. OneAtWork'
    BY <1>0, <1>2, <1>3, <1>5, <1>6, <1>7 DEF OneAtWork, WorkspaceTypeOK
<1>10. OwnFiles' /\ LeaseIsComplete'
    BY <1>0, <1>2, <1>3, <1>5, <1>6, <1>7 DEF OwnFiles, LeaseIsComplete, WorkspaceTypeOK
<1>11. SpawnedOnOwnConfig'
    BY <1>3 DEF WorkspaceInv, SpawnedOnOwnConfig
<1> QED BY <1>8, <1>9, <1>10, <1>11 DEF WorkspaceInv

\* The steps in between: one provisioner moves on, the others are idle.  What
\* remains is what the new entry and the files say.
LEMMA WorkspaceProvisioned ==
    ASSUME WorkspaceInv, NEW w \in Provisioners, NEW p \in Prov,
           prov' = [prov EXCEPT ![w] = p], dir' \in Dir, dir'.exists,
           \A v \in Provisioners : v # w => prov[v].pc = "idle",
           ~agentProc[w] \/ p.pc = "leased",
           p.pc # "idle" => p.request \in Requests,
           p.pc \in {"directories", "marker"} =>
               dir'.marker = "absent" /\ \A f \in ConfigFiles : dir'.configs[f] = "absent",
           p.pc = "configs" => \A f \in ConfigFiles : dir'.configs[f] \in {"absent", p.request},
           p.pc = "leased" => \A f \in ConfigFiles : p.integrity[f] = p.request,
           UNCHANGED <<agentProc, spawnedOn, audit>>
    PROVE  WorkspaceInv'
<1>0. WorkspaceTypeOK /\ OneAtWork
    BY DEF WorkspaceInv
<1>1. prov'[w] = p /\ \A v \in Provisioners : v # w => prov'[v] = prov[v]
    BY <1>0 DEF WorkspaceTypeOK
<1>2. WorkspaceTypeOK'
    BY <1>0 DEF WorkspaceTypeOK
<1>3. OneAtWork'
    BY <1>0, <1>1 DEF OneAtWork
<1>4. OwnFiles' /\ LeaseIsComplete'
    BY <1>1 DEF OwnFiles, LeaseIsComplete
<1>5. SpawnedOnOwnConfig'
    BY DEF WorkspaceInv, SpawnedOnOwnConfig
<1> QED BY <1>2, <1>3, <1>4, <1>5 DEF WorkspaceInv

\* Directories, WriteMarker, WriteConfig and Lease, in the order of provision.
LEMMA ProvisionKeeps ==
    ASSUME WorkspaceInv, NEW w \in Provisioners,
           \/ Directories(w)
           \/ WriteMarker(w)
           \/ \E f \in ConfigFiles : WriteConfig(w, f)
           \/ Lease(w)
    PROVE  WorkspaceInv'
<1>0. WorkspaceTypeOK /\ OneAtWork /\ OwnFiles
    BY DEF WorkspaceInv
<1>1. prov[w] \in Prov /\ dir \in Dir
    BY <1>0 DEF WorkspaceTypeOK
<1>2. prov[w].pc \in Provisioning
    BY DEF Directories, WriteMarker, WriteConfig, Lease, Provisioning
<1>3. /\ dir.exists /\ prov[w].request \in Requests /\ ~agentProc[w]
      /\ \A v \in Provisioners : v # w => prov[v].pc = "idle"
    BY <1>0, <1>2 DEF OneAtWork, Provisioning
<1>4. CASE Directories(w)
    <2>1. PICK p : p = [prov[w] EXCEPT !.pc = "marker"]
        OBVIOUS
    <2>2. p \in Prov /\ p.pc = "marker" /\ p.request = prov[w].request
        BY <1>1, <2>1 DEF Prov, ProvPc
    <2>3. prov' = [prov EXCEPT ![w] = p]
        BY <1>4, <2>1 DEF Directories
    <2>4. dir.marker = "absent" /\ \A f \in ConfigFiles : dir.configs[f] = "absent"
        BY <1>0, <1>4 DEF OwnFiles, Directories
    <2> QED BY <1>1, <1>3, <1>4, <2>2, <2>3, <2>4, WorkspaceProvisioned DEF Directories
<1>5. CASE WriteMarker(w)
    <2>1. PICK p : p = [prov[w] EXCEPT !.pc = "configs"]
        OBVIOUS
    <2>2. p \in Prov /\ p.pc = "configs" /\ p.request = prov[w].request
        BY <1>1, <2>1 DEF Prov, ProvPc
    <2>3. prov' = [prov EXCEPT ![w] = p]
        BY <1>5, <2>1 DEF WriteMarker
    <2>4. PICK d : d = [dir EXCEPT !.marker = prov[w].request]
        OBVIOUS
    <2>5. d \in Dir /\ d.exists /\ d.configs = dir.configs /\ dir' = d
        BY <1>1, <1>3, <1>5, <2>4 DEF Dir, FileState, WriteMarker
    <2>6. \A f \in ConfigFiles : d.configs[f] = "absent"
        BY <1>0, <1>5, <2>5 DEF OwnFiles, WriteMarker
    <2>7. UNCHANGED <<agentProc, spawnedOn, audit>>
        BY <1>5 DEF WriteMarker
    <2>8. dir' \in Dir /\ dir'.exists /\ \A f \in ConfigFiles : dir'.configs[f] = "absent"
        BY <2>5, <2>6
    <2> QED BY <1>3, <2>2, <2>3, <2>7, <2>8, WorkspaceProvisioned
<1>6. ASSUME NEW f \in ConfigFiles, WriteConfig(w, f) PROVE WorkspaceInv'
    <2>1. prov' = [prov EXCEPT ![w] = prov[w]]
        BY <1>0, <1>6 DEF WriteConfig, WorkspaceTypeOK
    <2>2. PICK c : c = [dir.configs EXCEPT ![f] = prov[w].request]
        OBVIOUS
    <2>3. /\ c \in [ConfigFiles -> FileState]
          /\ \A g \in ConfigFiles : c[g] \in {dir.configs[g], prov[w].request}
        BY <1>1, <1>3, <2>2 DEF Dir, FileState
    <2>4. PICK d : d = [dir EXCEPT !.configs = c]
        OBVIOUS
    <2>5. d \in Dir /\ d.exists /\ d.configs = c
        BY <1>1, <1>3, <2>3, <2>4 DEF Dir
    <2>6. dir' = d
        BY <1>6, <2>2, <2>4 DEF WriteConfig
    <2>7. prov[w].pc = "configs"
        BY <1>6 DEF WriteConfig
    <2>8. \A g \in ConfigFiles : d.configs[g] \in {"absent", prov[w].request}
        BY <1>0, <2>3, <2>5, <2>7 DEF OwnFiles
    <2> QED BY ZenonT(40), <1>1, <1>3, <1>6, <2>1, <2>5, <2>6, <2>7, <2>8, WorkspaceProvisioned
            DEF WriteConfig
<1>7. CASE Lease(w)
    <2>1. PICK p : p = [prov[w] EXCEPT !.pc = "leased", !.integrity = dir.configs]
        OBVIOUS
    <2>2. /\ p \in Prov /\ p.pc = "leased" /\ p.request = prov[w].request
          /\ p.integrity = dir.configs
        BY <1>1, <2>1 DEF Prov, ProvPc, Dir
    <2>3. prov' = [prov EXCEPT ![w] = p]
        BY <1>0, <1>7, <2>1 DEF Lease, WorkspaceTypeOK, Prov
    <2>4. \A f \in ConfigFiles : dir.configs[f] = prov[w].request
        BY <1>0, <1>7 DEF OwnFiles, Lease
    <2>5. UNCHANGED <<dir, agentProc, spawnedOn, audit>>
        BY <1>7 DEF Lease
    <2>6. dir' \in Dir /\ dir'.exists
        BY <1>1, <1>3, <2>5
    <2>7. \A f \in ConfigFiles : p.integrity[f] = p.request
        BY <2>2, <2>4
    <2> QED BY <1>3, <2>2, <2>3, <2>5, <2>6, <2>7, WorkspaceProvisioned
<1> QED BY <1>4, <1>5, <1>6, <1>7

\* resume: only a complete workspace that nobody holds.
LEMMA ResumeKeeps ==
    ASSUME WorkspaceInv, NEW w \in Provisioners, NEW q \in Requests,
           \A v \in Provisioners : prov[v].pc = "idle", workspace_resume(w, q)
    PROVE  WorkspaceInv'
<1>0. WorkspaceTypeOK /\ OneAtWork
    BY DEF WorkspaceInv
<1>1. PICK p : p = [pc |-> "leased", request |-> q, integrity |-> dir.configs]
    OBVIOUS
<1>2. p \in Prov /\ p.pc = "leased" /\ p.request = q /\ p.integrity = dir.configs
    BY <1>0, <1>1 DEF WorkspaceTypeOK, Prov, ProvPc, Dir
<1>3. prov' = [prov EXCEPT ![w] = p]
    BY <1>1 DEF workspace_resume
<1>4. dir' \in Dir /\ dir'.exists /\ \A f \in ConfigFiles : p.integrity[f] = p.request
    BY <1>0, <1>2 DEF WorkspaceTypeOK, workspace_resume
<1>5. UNCHANGED <<agentProc, spawnedOn, audit>>
    BY DEF workspace_resume
<1> QED BY <1>2, <1>3, <1>4, <1>5, WorkspaceProvisioned

\* spawn: the directory still holds what was written for the lease.
LEMMA WorkspaceSpawnKeeps ==
    ASSUME WorkspaceInv, NEW w \in Provisioners, workspace_spawn(w)
    PROVE  WorkspaceInv'
<1> USE DEF workspace_spawn, Leased
<1>1. WorkspaceTypeOK'
    BY DEF WorkspaceInv, WorkspaceTypeOK
<1>2. OneAtWork'
    BY DEF WorkspaceInv, OneAtWork, WorkspaceTypeOK
<1>3. LeaseIsComplete' /\ OwnFiles'
    BY DEF WorkspaceInv, LeaseIsComplete, OwnFiles
<1>4. SpawnedOnOwnConfig'
    <2>1. \A f \in ConfigFiles : dir.configs[f] = prov[w].request
        BY DEF WorkspaceInv, LeaseIsComplete
    <2>2. dir.tainted = FALSE
        BY DEF WorkspaceInv, WorkspaceTypeOK, Dir
    <2> QED BY <2>1, <2>2 DEF WorkspaceInv, SpawnedOnOwnConfig
<1> QED BY <1>1, <1>2, <1>3, <1>4 DEF WorkspaceInv

\* What the process writes, it writes while nobody provisions.
LEMMA AgentWritesKeeps ==
    ASSUME WorkspaceInv, NEW w \in Provisioners, AgentWrites(w)
    PROVE  WorkspaceInv'
<1> USE DEF AgentWrites
<1>0. WorkspaceTypeOK /\ OneAtWork /\ LeaseIsComplete
    BY DEF WorkspaceInv
<1>1. prov[w] \in Prov /\ prov[w].pc = "leased" /\ prov[w].request \in Requests
    BY <1>0 DEF WorkspaceTypeOK, OneAtWork
<1>2. \A v \in Provisioners : v # w => prov[v].pc = "idle"
    BY <1>0, <1>1 DEF OneAtWork
<1>3. dir' \in Dir /\ dir'.exists
    <2>1. CASE dir' = [dir EXCEPT !.tainted = TRUE]
        BY <1>0, <2>1 DEF WorkspaceTypeOK, Dir
    <2>2. ASSUME NEW f \in WritableConfigs, dir' = [dir EXCEPT !.configs[f] = "foreign"]
          PROVE  dir' \in Dir /\ dir'.exists
        <3>1. PICK c : c = [dir.configs EXCEPT ![f] = "foreign"]
            OBVIOUS
        <3>2. c \in [ConfigFiles -> FileState]
            BY <1>0, <3>1 DEF WorkspaceTypeOK, Dir, FileState
        <3>3. dir' = [dir EXCEPT !.configs = c]
            BY <2>2, <3>1
        <3> QED BY <1>0, <3>2, <3>3 DEF WorkspaceTypeOK, Dir
    <2> QED BY <2>1, <2>2
<1>4. prov' = [prov EXCEPT ![w] = prov[w]]
    BY <1>0 DEF WorkspaceTypeOK
<1>5. \A f \in ConfigFiles : prov[w].integrity[f] = prov[w].request
    BY <1>0, <1>1 DEF LeaseIsComplete
<1> QED BY <1>1, <1>2, <1>3, <1>4, <1>5, WorkspaceProvisioned

\* The server dies: nobody is at work any more, the directory stays.
LEMMA ServerDiesKeeps ==
    ASSUME WorkspaceInv, ServerDies
    PROVE  WorkspaceInv'
<1> USE DEF ServerDies
<1>0. IdleProv \in Prov /\ IdleProv.pc = "idle"
    BY DEF IdleProv, Prov, ProvPc, NoRequest, FileState
<1>1. \A v \in Provisioners : prov'[v].pc = "idle" /\ ~agentProc'[v]
    BY <1>0
<1>2. WorkspaceTypeOK'
    BY <1>0 DEF WorkspaceInv, WorkspaceTypeOK
<1>3. OneAtWork' /\ OwnFiles' /\ LeaseIsComplete'
    BY <1>1 DEF OneAtWork, OwnFiles, LeaseIsComplete
<1>4. SpawnedOnOwnConfig'
    BY DEF WorkspaceInv, SpawnedOnOwnConfig
<1> QED BY <1>2, <1>3, <1>4 DEF WorkspaceInv

\* Every action of the workspace keeps the invariant.
LEMMA WorkspaceStep == WorkspaceInv /\ [WorkspaceNext]_wsVars => WorkspaceInv'
<1> SUFFICES ASSUME WorkspaceInv, [WorkspaceNext]_wsVars PROVE WorkspaceInv'
    OBVIOUS
<1>0. WorkspaceTypeOK /\ OneAtWork
    BY DEF WorkspaceInv
<1>1. ASSUME NEW w \in Provisioners, NEW q \in Requests, NEW forbidden \in BOOLEAN,
             Refuse(w, q, forbidden)
      PROVE  WorkspaceInv'
    BY <1>0, <1>1, WorkspaceAside DEF Refuse, WorkspaceTypeOK
<1>2. ASSUME NEW w \in Provisioners, SpawnDenied(w) PROVE WorkspaceInv'
    <2>1. prov[w].request \in Requests
        BY <1>0, <1>2 DEF SpawnDenied, Leased, OneAtWork
    <2> QED BY <1>0, <1>2, <2>1, WorkspaceAside DEF SpawnDenied, WorkspaceTypeOK
<1>3. ASSUME NEW w \in Provisioners, AgentExits(w) PROVE WorkspaceInv'
    BY <1>0, <1>3, WorkspaceAside DEF AgentExits, WorkspaceTypeOK
<1>4. ASSUME NEW w \in Provisioners, ProvisionFails(w) PROVE WorkspaceInv'
    <2>1. prov[w].pc # "idle" /\ ~agentProc[w]
        BY <1>0, <1>4 DEF ProvisionFails, OneAtWork
    <2> QED BY <1>4, <2>1, WorkspaceGivenUp DEF ProvisionFails
<1>5. ASSUME NEW w \in Provisioners,
             DropLease(w) \/ \E failed \in BOOLEAN : workspace_finish(w, failed)
      PROVE  WorkspaceInv'
    BY <1>5, WorkspaceGivenUp DEF DropLease, workspace_finish, Leased
<1>6. CASE UNCHANGED wsVars
    BY <1>0, <1>6, WorkspaceAside DEF wsVars, WorkspaceTypeOK
<1> QED BY <1>1, <1>2, <1>3, <1>4, <1>5, <1>6, AllocateKeeps, ResumeKeeps, ProvisionKeeps,
           WorkspaceSpawnKeeps, AgentWritesKeeps, ServerDiesKeeps DEF WorkspaceNext

\* A set without two different members has at most one.
LEMMA AtMostOne ==
    ASSUME NEW S, \A x, y \in S : x = y
    PROVE  Cardinality(S) <= 1
<1>1. CASE S = {}
    BY <1>1, FS_EmptySet
<1>2. CASE S # {}
    <2>1. PICK x \in S : TRUE
        BY <1>2
    <2>2. S = {x}
        BY <2>1
    <2> QED BY <2>2, FS_Singleton
<1> QED BY <1>1, <1>2

\* Of any number of callers of allocate and resume, whatever fails, crashes or
\* is written by an agent, one provisions the directory at a time, a lease is
\* complete, and a process starts on the configuration of its own request in a
\* workspace without a forbidden capability.
THEOREM WorkspaceIsSafe == WorkspaceSpec => []WorkspaceSafety
<1>1. WorkspaceInv => WorkspaceSafety
    <2> SUFFICES ASSUME WorkspaceInv PROVE WorkspaceSafety
        OBVIOUS
    <2>1. \A v, w \in {u \in Provisioners : prov[u].pc \in {"directories", "marker", "configs"}} :
              v = w
        BY DEF WorkspaceInv, OneAtWork
    <2>2. OneProvisioner
        BY <2>1, AtMostOne DEF OneProvisioner
    <2> QED BY <2>2 DEF WorkspaceInv, WorkspaceSafety
<1> QED BY <1>1, WorkspaceInitially, WorkspaceStep, PTL DEF WorkspaceSpec

-----------------------------------------------------------------------------
(* The budget of a run *)

\* Any two events that report the wall time are the same one.
WallOnce ==
    \A i, j \in DOMAIN limitEvents : limitEvents[i] = "wall" /\ limitEvents[j] = "wall" => i = j

\* The driver runs while it is read from; one that could answer has not
\* exceeded its output, and a turn in progress was within its attempts.
WithinBudget ==
    /\ turn \in {"reading", "stopping"} => inner.state = "running"
    /\ inner.state = "ready" \/ turn = "reading" => spent["output"] <= BudgetLimit["output"]
    /\ turn = "reading" => spent["attempts"] <= BudgetLimit["attempts"]

BudgetInv ==
    /\ BudgetTypeOK /\ ExcessIsReported /\ WallOnce /\ WithinBudget
    /\ limitEvents \in Seq(CountedDims \cup {"wall"})

\* A saturating sum stays in its type and is never less than it was.
LEMMA SaturatingAdd ==
    ASSUME NEW a \in 0..Saturation, NEW b \in Nat
    PROVE  saturating_add(a, b) \in 0..Saturation /\ saturating_add(a, b) >= a
BY BudgetAssumption DEF saturating_add

\* What a sequence holds after an element was appended.
LEMMA AppendedHolds ==
    ASSUME NEW S, NEW s \in Seq(S), NEW e \in S, NEW t, t = Append(s, e)
    PROVE  /\ t \in Seq(S)
           /\ DOMAIN t = DOMAIN s \cup {Len(s) + 1} /\ Len(s) + 1 \notin DOMAIN s
           /\ t[Len(s) + 1] = e /\ \A i \in DOMAIN s : t[i] = s[i]
OBVIOUS

\* Whether any event of a sequence names d.
Names(events, d) == \E i \in DOMAIN events : events[i] = d

\* Appending an event names one dimension more, and keeps the wall time single
\* if it was not the wall time.
LEMMA EventAppended ==
    ASSUME NEW s \in Seq(CountedDims \cup {"wall"}), NEW e \in CountedDims \cup {"wall"},
           NEW t, t = Append(s, e)
    PROVE  /\ t \in Seq(CountedDims \cup {"wall"})
           /\ \A d \in CountedDims : Names(t, d) <=> Names(s, d) \/ d = e
           /\ (e = "wall" => ~Names(s, "wall"))
              /\ (\A i, j \in DOMAIN s : s[i] = "wall" /\ s[j] = "wall" => i = j)
              => \A i, j \in DOMAIN t : t[i] = "wall" /\ t[j] = "wall" => i = j
<1>1. /\ t \in Seq(CountedDims \cup {"wall"})
      /\ DOMAIN t = DOMAIN s \cup {Len(s) + 1} /\ Len(s) + 1 \notin DOMAIN s
      /\ t[Len(s) + 1] = e /\ \A i \in DOMAIN s : t[i] = s[i]
    BY AppendedHolds
<1> QED BY <1>1, Zenon DEF Names

\* One call of add_and_check: the counter grows, an event is appended exactly
\* if it is now over its limit, and so excess stays reported.
Added(before, after, from, to, d, n) ==
    /\ after = [before EXCEPT ![d] = saturating_add(@, n)]
    /\ to = IF saturating_add(before[d], n) > BudgetLimit[d] THEN Append(from, d) ELSE from

Reported(counters, events) ==
    /\ counters \in [CountedDims -> 0..Saturation]
    /\ events \in Seq(CountedDims \cup {"wall"})
    /\ \A d \in CountedDims : counters[d] > BudgetLimit[d] <=> Names(events, d)
    /\ \A i, j \in DOMAIN events : events[i] = "wall" /\ events[j] = "wall" => i = j

\* What one call of add_and_check leaves.
LEMMA AddAndCheck ==
    ASSUME NEW before, NEW from, Reported(before, from), NEW d \in CountedDims, NEW n \in Nat,
           NEW after, NEW to, Added(before, after, from, to, d, n)
    PROVE  /\ Reported(after, to)
           /\ \A e \in CountedDims : before[e] <= after[e] /\ (e # d => after[e] = before[e])
           /\ after[d] = saturating_add(before[d], n)
<1>0. before \in [CountedDims -> 0..Saturation] /\ from \in Seq(CountedDims \cup {"wall"})
    BY DEF Reported
<1>1. PICK v : v = saturating_add(before[d], n)
    OBVIOUS
<1>2. v \in 0..Saturation /\ v >= before[d]
    BY <1>0, <1>1, SaturatingAdd
<1>3. after = [before EXCEPT ![d] = v]
    BY <1>1 DEF Added
<1>4. /\ after \in [CountedDims -> 0..Saturation] /\ after[d] = v
      /\ \A e \in CountedDims : e # d => after[e] = before[e]
    BY <1>0, <1>2, <1>3
<1>5. \A e \in CountedDims : before[e] <= after[e]
    <2> SUFFICES ASSUME NEW e \in CountedDims PROVE before[e] <= after[e]
        OBVIOUS
    <2>1. before[e] \in 0..Saturation /\ before[d] \in 0..Saturation
        BY <1>0
    <2>2. CASE e = d
        BY <1>2, <1>4, <2>1, <2>2
    <2>3. CASE e # d
        BY <1>4, <2>1, <2>3
    <2> QED BY <2>2, <2>3
<1>6. BudgetLimit[d] \in 0..Saturation /\ Saturation \in Nat
    BY BudgetAssumption
<1>7. to = IF v > BudgetLimit[d] THEN Append(from, d) ELSE from
    BY <1>1 DEF Added
<1>8. CASE v > BudgetLimit[d]
    <2>1. to = Append(from, d) /\ d # "wall"
        BY <1>7, <1>8 DEF CountedDims
    <2>2. /\ to \in Seq(CountedDims \cup {"wall"})
          /\ \A e \in CountedDims : Names(to, e) <=> Names(from, e) \/ e = d
          /\ (d = "wall" => ~Names(from, "wall"))
             /\ (\A i, j \in DOMAIN from : from[i] = "wall" /\ from[j] = "wall" => i = j)
             => \A i, j \in DOMAIN to : to[i] = "wall" /\ to[j] = "wall" => i = j
        BY ZenonT(40), <1>0, <2>1, EventAppended
    <2>3. \A e \in CountedDims : after[e] > BudgetLimit[e] <=> Names(to, e)
        BY <1>4, <1>8, <2>2, Zenon DEF Reported
    <2> QED BY <1>1, <1>4, <1>5, <2>1, <2>2, <2>3, Zenon DEF Reported
<1>9. CASE ~(v > BudgetLimit[d])
    <2>1. to = from
        BY <1>7, <1>9
    <2>2. ~(before[d] > BudgetLimit[d])
        BY <1>0, <1>2, <1>6, <1>9
    <2>3. \A e \in CountedDims : after[e] > BudgetLimit[e] <=> Names(to, e)
        BY <1>4, <1>9, <2>1, <2>2, Zenon DEF Reported
    <2> QED BY <1>1, <1>4, <1>5, <2>1, <2>3, Zenon DEF Reported
<1> QED BY <1>8, <1>9

\* The invariant's part about counters and events.
LEMMA ReportedIsInvariant == BudgetInv => Reported(spent, limitEvents)
BY DEF BudgetInv, BudgetTypeOK, ExcessIsReported, WallOnce, Reported, Names

\* And back: what else the invariant demands.
LEMMA ReportedGivesInvariant ==
    ASSUME Reported(spent, limitEvents)', elapsed' \in 0..WallTime, inner' \in Inner,
           turn' \in TurnPhase, answer' \in {"none", "ok", "error", "budget"}, WithinBudget'
    PROVE  BudgetInv'
<1>1. limitEvents' \in Seq(CountedDims \cup {"wall"})
    BY DEF Reported
<1>2. \A i \in DOMAIN limitEvents' : limitEvents'[i] \in CountedDims \cup {"wall"}
    BY <1>1
<1>3. BudgetTypeOK'
    BY <1>2 DEF BudgetTypeOK, Reported
<1>4. ExcessIsReported' /\ WallOnce'
    BY DEF ExcessIsReported, WallOnce, Reported, Names
<1> QED BY <1>1, <1>3, <1>4 DEF BudgetInv

\* What every step of the budget keeps.
BudgetKept ==
    /\ BudgetInv'
    /\ \A d \in CountedDims : spent[d] <= spent'[d]
    /\ turn # "idle" /\ turn' = "idle" /\ answer' = "ok" =>
          \A d \in {"attempts", "tools", "output"} : spent'[d] <= BudgetLimit[d]

\* The actions that call add_and_check for one dimension.
LEMMA AddAndCheckKeeps ==
    ASSUME BudgetInv, NEW d \in CountedDims, NEW n \in Nat, add_and_check(d, n)
    PROVE  /\ Reported(spent, limitEvents)'
           /\ \A e \in CountedDims : spent[e] <= spent'[e] /\ (e # d => spent'[e] = spent[e])
           /\ Exceeds(d, n) <=> spent'[d] > BudgetLimit[d]
<1>1. Reported(spent, limitEvents)
    BY ReportedIsInvariant
<1>2. PICK after, to : after = spent' /\ to = limitEvents'
    OBVIOUS
<1>3. Added(spent, after, limitEvents, to, d, n)
    BY <1>2 DEF add_and_check, Added, Exceeds
<1>4. /\ Reported(after, to)
      /\ \A e \in CountedDims : spent[e] <= after[e] /\ (e # d => after[e] = spent[e])
      /\ after[d] = saturating_add(spent[d], n)
    BY <1>1, <1>3, AddAndCheck
<1> QED BY <1>2, <1>4 DEF Exceeds

\* A turn is asked for.
LEMMA AskTurnKeeps ==
    ASSUME BudgetInv, AskTurn
    PROVE  BudgetKept
<1>0. BudgetTypeOK /\ WithinBudget
    BY DEF BudgetInv
<1>1. /\ Reported(spent, limitEvents)'
      /\ \A e \in CountedDims : spent[e] <= spent'[e] /\ (e # "attempts" => spent'[e] = spent[e])
      /\ Exceeds("attempts", 1) <=> spent'["attempts"] > BudgetLimit["attempts"]
    BY AddAndCheckKeeps DEF AskTurn, CountedDims
<1>2. spent'["output"] = spent["output"]
    BY <1>1 DEF CountedDims
<1>3. spent'["attempts"] \in Nat /\ BudgetLimit["attempts"] \in Nat
    BY <1>1, BudgetAssumption DEF Reported, CountedDims
<1>4. /\ elapsed' \in 0..WallTime /\ inner' \in Inner /\ turn' \in TurnPhase
      /\ answer' \in {"none", "ok", "error", "budget"}
    BY <1>0 DEF AskTurn, BudgetTypeOK, Inner, InnerState, TurnPhase
<1>5. WithinBudget'
    BY <1>0, <1>1, <1>2, <1>3 DEF AskTurn, WithinBudget, BudgetTypeOK, Inner
<1>6. BudgetInv'
    BY <1>1, <1>4, <1>5, ReportedGivesInvariant
<1> QED BY <1>1, <1>6 DEF BudgetKept, AskTurn

\* A turn is answered: its tool calls are counted first.
LEMMA CompleteTurnKeeps ==
    ASSUME BudgetInv, NEW tools \in 0..MaxMetered, CompleteTurn(tools)
    PROVE  BudgetKept
<1>0. BudgetTypeOK /\ WithinBudget
    BY DEF BudgetInv
<1>1. /\ Reported(spent, limitEvents)'
      /\ \A e \in CountedDims : spent[e] <= spent'[e] /\ (e # "tools" => spent'[e] = spent[e])
      /\ Exceeds("tools", tools) <=> spent'["tools"] > BudgetLimit["tools"]
    BY AddAndCheckKeeps, BudgetAssumption DEF CompleteTurn, CountedDims
<1>2. spent'["output"] = spent["output"] /\ spent'["attempts"] = spent["attempts"]
    BY <1>1 DEF CountedDims
<1>3. spent'["tools"] \in Nat /\ BudgetLimit["tools"] \in Nat
    BY <1>1, BudgetAssumption DEF Reported, CountedDims
<1>4. /\ elapsed' \in 0..WallTime /\ inner' \in Inner /\ turn' \in TurnPhase
      /\ answer' \in {"none", "ok", "error", "budget"}
    BY <1>0 DEF CompleteTurn, BudgetTypeOK, Inner, InnerState, TurnPhase
<1>5. spent["output"] <= BudgetLimit["output"] /\ spent["attempts"] <= BudgetLimit["attempts"]
    BY <1>0 DEF CompleteTurn, WithinBudget
<1>6. WithinBudget'
    BY <1>0, <1>2, <1>5 DEF CompleteTurn, WithinBudget
<1>7. BudgetInv'
    BY <1>1, <1>4, <1>6, ReportedGivesInvariant
<1>8. turn' = "idle" => spent'["tools"] <= BudgetLimit["tools"]
    BY <1>1, <1>3 DEF CompleteTurn
<1> QED BY <1>1, <1>2, <1>5, <1>7, <1>8 DEF BudgetKept

\* Output is metered before it is parsed.
LEMMA MeterOutputKeeps ==
    ASSUME BudgetInv, NEW bytes \in 1..MaxMetered, MeterOutput(bytes)
    PROVE  BudgetKept
<1>0. BudgetTypeOK /\ WithinBudget
    BY DEF BudgetInv
<1>1. /\ Reported(spent, limitEvents)'
      /\ \A e \in CountedDims : spent[e] <= spent'[e] /\ (e # "output" => spent'[e] = spent[e])
      /\ Exceeds("output", bytes) <=> spent'["output"] > BudgetLimit["output"]
    BY AddAndCheckKeeps, BudgetAssumption DEF MeterOutput, CountedDims
<1>2. spent'["attempts"] = spent["attempts"]
    BY <1>1 DEF CountedDims
<1>3. spent'["output"] \in Nat /\ BudgetLimit["output"] \in Nat
    BY <1>1, BudgetAssumption DEF Reported, CountedDims
<1>4. /\ elapsed' \in 0..WallTime /\ inner' \in Inner /\ turn' \in TurnPhase
      /\ answer' \in {"none", "ok", "error", "budget"}
    BY <1>0 DEF MeterOutput, BudgetTypeOK, TurnPhase
<1>5. WithinBudget'
    BY <1>0, <1>1, <1>2, <1>3 DEF MeterOutput, WithinBudget
<1>6. BudgetInv'
    BY <1>1, <1>4, <1>5, ReportedGivesInvariant
<1> QED BY <1>1, <1>6 DEF BudgetKept, MeterOutput

\* A deadline passes: whichever timer fires, one event.
LEMMA WallTimeoutKeeps ==
    ASSUME BudgetInv, record_wall_timeout, UNCHANGED spent
    PROVE  Reported(spent, limitEvents)'
<1>1. Reported(spent, limitEvents)
    BY ReportedIsInvariant
<1>2. PICK to : to = limitEvents'
    OBVIOUS
<1>3. CASE Names(limitEvents, "wall")
    <2>1. to = limitEvents
        BY <1>2, <1>3 DEF record_wall_timeout, Names
    <2> QED BY <1>1, <1>2, <2>1
<1>4. CASE ~Names(limitEvents, "wall")
    <2>1. to = Append(limitEvents, "wall")
        BY <1>2, <1>4 DEF record_wall_timeout, Names
    <2>2. limitEvents \in Seq(CountedDims \cup {"wall"})
        BY <1>1 DEF Reported
    <2>3. /\ to \in Seq(CountedDims \cup {"wall"})
          /\ \A d \in CountedDims : Names(to, d) <=> Names(limitEvents, d) \/ d = "wall"
          /\ ("wall" = "wall" => ~Names(limitEvents, "wall"))
             /\ (\A i, j \in DOMAIN limitEvents :
                    limitEvents[i] = "wall" /\ limitEvents[j] = "wall" => i = j)
             => \A i, j \in DOMAIN to : to[i] = "wall" /\ to[j] = "wall" => i = j
        BY <2>1, <2>2, EventAppended
    <2>4. \A d \in CountedDims : d # "wall"
        BY DEF CountedDims
    <2>5. Reported(spent, to)
        BY <1>1, <1>4, <2>3, <2>4, Zenon DEF Reported
    <2> QED BY <1>2, <2>5
<1> QED BY <1>3, <1>4

\* The two states in which a driver without a process is left.
LEMMA EndedInner ==
    /\ [state |-> "crashed", alive |-> FALSE] \in Inner
    /\ [state |-> "terminated", alive |-> FALSE] \in Inner
BY DEF Inner, InnerState

\* The steps that leave every counter alone.
LEMMA UncountedKeeps ==
    ASSUME BudgetInv, UNCHANGED spent,
           \/ FailTurn
           \/ ReadDeadline
           \/ StopDone
           \/ TurnDeadline
           \/ \E killed \in BOOLEAN : TerminateDone(killed)
           \/ BudgetTick
           \/ UNCHANGED budgetVars
    PROVE  BudgetKept
<1> USE DEF FailTurn, ReadDeadline, StopDone, TurnDeadline, TerminateDone, BudgetTick, budgetVars
<1>0. BudgetTypeOK /\ WithinBudget /\ spent \in [CountedDims -> 0..Saturation]
    BY DEF BudgetInv, BudgetTypeOK
<1>1. Reported(spent, limitEvents)'
    <2>1. CASE record_wall_timeout
        BY <2>1, WallTimeoutKeeps
    <2>2. CASE UNCHANGED limitEvents
        BY <2>2, ReportedIsInvariant
    <2> QED BY <2>1, <2>2
<1>2. /\ inner' \in Inner /\ turn' \in TurnPhase
      /\ answer' \in {"none", "ok", "error", "budget"}
    <2>1. inner \in Inner /\ turn \in TurnPhase /\ answer \in {"none", "ok", "error", "budget"}
        BY <1>0 DEF BudgetTypeOK
    <2>2. inner' \in {inner, [state |-> "crashed", alive |-> FALSE],
                      [state |-> "terminated", alive |-> FALSE]}
        OBVIOUS
    <2>3. inner' \in Inner
        BY <2>1, <2>2, EndedInner
    <2>4. turn' \in TurnPhase /\ answer' \in {"none", "ok", "error", "budget"}
        BY <2>1 DEF TurnPhase
    <2> QED BY <2>3, <2>4
<1>3. elapsed' \in 0..WallTime
    BY <1>0, BudgetAssumption DEF BudgetTypeOK
<1>4. WithinBudget'
    BY <1>0 DEF WithinBudget, BudgetTypeOK, TurnPhase
<1>5. BudgetInv'
    BY <1>1, <1>2, <1>3, <1>4, ReportedGivesInvariant
<1>6. \A d \in CountedDims : spent[d] <= spent'[d]
    BY <1>0, BudgetAssumption
<1>7. turn # "idle" /\ turn' = "idle" => answer' # "ok"
    OBVIOUS
<1> QED BY <1>5, <1>6, <1>7 DEF BudgetKept

\* Appending a sequence of one element or of none.
LEMMA ConcatOne ==
    ASSUME NEW S, NEW s \in Seq(S), NEW e \in S
    PROVE  s \o <<e>> = Append(s, e) /\ s \o <<>> = s
OBVIOUS

\* Reported usage: three dimensions, the last only if the second was within
\* its limit.
LEMMA RecordUsageKeeps ==
    ASSUME BudgetInv, NEW network \in 0..MaxUsage, NEW input \in 0..MaxUsage, NEW cost \in 0..MaxUsage,
           turn = "reading", RecordUsage(network, input, cost)
    PROVE  BudgetKept
<1> DEFINE Dims == CountedDims \cup {"wall"}
           Over(c, d, n) == saturating_add(c[d], n) > BudgetLimit[d]
<1>0. BudgetTypeOK /\ WithinBudget /\ Reported(spent, limitEvents)
    BY ReportedIsInvariant DEF BudgetInv
<1>1. PICK c1, e1 : Added(spent, c1, limitEvents, e1, "network", network)
    BY DEF Added
<1>2. /\ Reported(c1, e1)
      /\ \A d \in CountedDims : spent[d] <= c1[d] /\ (d # "network" => c1[d] = spent[d])
    BY <1>0, <1>1, AddAndCheck DEF CountedDims
<1>3. PICK c2, e2 : Added(c1, c2, e1, e2, "input", input)
    BY DEF Added
<1>4. /\ Reported(c2, e2)
      /\ \A d \in CountedDims : c1[d] <= c2[d] /\ (d # "input" => c2[d] = c1[d])
    BY <1>2, <1>3, AddAndCheck DEF CountedDims
<1>5. PICK c3, e3 : IF Exceeds("input", input) THEN c3 = c2 /\ e3 = e2
                    ELSE Added(c2, c3, e2, e3, "cost", cost)
    BY DEF Added
<1>6. /\ Reported(c3, e3)
      /\ \A d \in CountedDims : c2[d] <= c3[d] /\ (d # "cost" => c3[d] = c2[d])
    <2>1. CASE Exceeds("input", input)
        <3>1. c3 = c2 /\ e3 = e2 /\ c2 \in [CountedDims -> 0..Saturation]
            BY <1>4, <1>5, <2>1 DEF Reported
        <3> QED BY <1>4, <3>1, BudgetAssumption
    <2>2. CASE ~Exceeds("input", input)
        <3>1. Added(c2, c3, e2, e3, "cost", cost)
            BY <1>5, <2>2
        <3> QED BY <1>4, <3>1, AddAndCheck DEF CountedDims
    <2> QED BY <2>1, <2>2
<1>7. c1["input"] = spent["input"] /\ c2["cost"] = spent["cost"]
    BY <1>2, <1>4 DEF CountedDims
<1>8. /\ spent \in [CountedDims -> 0..Saturation] /\ limitEvents \in Seq(Dims)
      /\ e1 \in Seq(Dims) /\ e2 \in Seq(Dims)
    BY <1>0, <1>2, <1>4 DEF Reported
<1>9. spent' = c3
    <2>1. c1 = [spent EXCEPT !["network"] = saturating_add(spent["network"], network)]
        BY <1>1 DEF Added
    <2>2. c2 = [c1 EXCEPT !["input"] = saturating_add(spent["input"], input)]
        BY <1>3, <1>7 DEF Added
    <2>3. c3 = IF Exceeds("input", input) THEN c2
               ELSE [c2 EXCEPT !["cost"] = saturating_add(spent["cost"], cost)]
        BY <1>5, <1>7 DEF Added
    <2>4. spent' = [[[spent EXCEPT !["network"] = saturating_add(spent["network"], network)]
                     EXCEPT !["input"] = saturating_add(spent["input"], input)]
                     EXCEPT !["cost"] = IF Exceeds("input", input) THEN spent["cost"]
                                        ELSE saturating_add(spent["cost"], cost)]
        BY <1>8 DEF RecordUsage, CountedDims
    <2>5. CASE Exceeds("input", input)
        BY <1>7, <1>8, <2>1, <2>2, <2>3, <2>4, <2>5 DEF CountedDims
    <2>6. CASE ~Exceeds("input", input)
        BY <2>1, <2>2, <2>3, <2>4, <2>6
    <2> QED BY <2>5, <2>6
<1>10. limitEvents' = e3
    <2>1. "network" \in Dims /\ "input" \in Dims /\ "cost" \in Dims
        BY DEF CountedDims
    <2>2. e1 = limitEvents \o (IF Exceeds("network", network) THEN <<"network">> ELSE <<>>)
        BY <1>1, <1>8, <2>1, ConcatOne DEF Added, Exceeds
    <2>3. e2 = e1 \o (IF Exceeds("input", input) THEN <<"input">> ELSE <<>>)
        BY <1>3, <1>7, <1>8, <2>1, ConcatOne DEF Added, Exceeds
    <2>4. e3 = e1 \o (IF Exceeds("input", input) THEN <<"input">>
                      ELSE IF Exceeds("cost", cost) THEN <<"cost">> ELSE <<>>)
        <3>1. CASE Exceeds("input", input)
            BY <1>5, <2>3, <3>1
        <3>2. CASE ~Exceeds("input", input)
            <4>1. e2 = e1
                BY <1>8, <2>3, <3>2, <2>1, ConcatOne
            <4>2. e3 = IF Exceeds("cost", cost) THEN Append(e1, "cost") ELSE e1
                BY <1>5, <1>7, <3>2, <4>1 DEF Added, Exceeds
            <4> QED BY <1>8, <2>1, <3>2, <4>2, ConcatOne
        <3> QED BY <3>1, <3>2
    <2> QED BY <2>2, <2>4 DEF RecordUsage
<1>11. Reported(spent, limitEvents)'
    BY <1>6, <1>9, <1>10
<1>12. \A d \in CountedDims : spent[d] <= spent'[d]
    <2> SUFFICES ASSUME NEW d \in CountedDims PROVE spent[d] <= spent'[d]
        OBVIOUS
    <2>1. spent[d] <= c1[d] /\ c1[d] <= c2[d] /\ c2[d] <= spent'[d]
        BY <1>2, <1>4, <1>6, <1>9
    <2>2. spent[d] \in 0..Saturation /\ c1[d] \in 0..Saturation /\ c2[d] \in 0..Saturation
          /\ spent'[d] \in 0..Saturation
        BY <1>8, <1>2, <1>4, <1>6, <1>9 DEF Reported
    <2> QED BY <2>1, <2>2
<1>13. spent'["output"] = spent["output"] /\ spent'["attempts"] = spent["attempts"]
    BY <1>2, <1>4, <1>6, <1>9 DEF CountedDims
<1>14. WithinBudget'
    BY <1>0, <1>13 DEF WithinBudget, RecordUsage
<1>15. BudgetInv'
    BY <1>0, <1>11, <1>14, ReportedGivesInvariant DEF RecordUsage, BudgetTypeOK
<1> QED BY <1>12, <1>15 DEF BudgetKept, RecordUsage

\* Every step of the budget keeps it.
LEMMA BudgetStep ==
    ASSUME BudgetInv, [BudgetNext]_budgetVars
    PROVE  BudgetKept
<1>1. CASE UNCHANGED spent /\ (FailTurn \/ ReadDeadline \/ StopDone \/ TurnDeadline
           \/ (\E killed \in BOOLEAN : TerminateDone(killed)) \/ BudgetTick
           \/ UNCHANGED budgetVars)
    BY <1>1, UncountedKeeps
<1>2. FailTurn \/ ReadDeadline \/ StopDone \/ TurnDeadline
      \/ (\E killed \in BOOLEAN : TerminateDone(killed)) \/ BudgetTick
      \/ UNCHANGED budgetVars => UNCHANGED spent
    BY DEF FailTurn, ReadDeadline, StopDone, TurnDeadline, TerminateDone, BudgetTick, budgetVars
<1> QED BY <1>1, <1>2, RecordUsageKeeps, AskTurnKeeps, CompleteTurnKeeps, MeterOutputKeeps
        DEF BudgetNext

\* The budget of a run starts within its limits.
LEMMA BudgetInitially == BudgetInit => BudgetInv
<1> SUFFICES ASSUME BudgetInit PROVE BudgetInv
    OBVIOUS
<1> USE DEF BudgetInit
<1>1. BudgetTypeOK /\ limitEvents \in Seq(CountedDims \cup {"wall"})
    BY BudgetAssumption DEF BudgetTypeOK, Inner, InnerState, TurnPhase
<1>2. ExcessIsReported
    BY BudgetAssumption DEF ExcessIsReported
<1>3. WallOnce /\ WithinBudget
    BY BudgetAssumption DEF WallOnce, WithinBudget, CountedDims
<1> QED BY <1>1, <1>2, <1>3 DEF BudgetInv

\* For any limits and any width of the counters: consumption only grows,
\* excess of a dimension is reported exactly if it happened, the wall time
\* once though two timers watch it, and no turn is answered after attempts,
\* tool calls or output went over.
THEOREM BudgetIsSafe == BudgetSpec => BudgetSafety
<1>1. BudgetInv => BudgetTypeOK /\ ExcessIsReported /\ WallTimeReportedOnce
    <2> SUFFICES ASSUME BudgetInv PROVE WallTimeReportedOnce
        BY DEF BudgetInv
    <2>1. \A i, j \in {k \in DOMAIN limitEvents : limitEvents[k] = "wall"} : i = j
        BY DEF BudgetInv, WallOnce
    <2> QED BY <2>1, AtMostOne DEF WallTimeReportedOnce
<1>2. BudgetInv /\ [BudgetNext]_budgetVars => BudgetInv'
    BY BudgetStep DEF BudgetKept
<1>3. BudgetInv /\ [BudgetNext]_budgetVars =>
        [\A d \in CountedDims : spent[d] <= spent'[d]]_budgetVars
    BY BudgetStep DEF BudgetKept
<1>4. BudgetInv /\ [BudgetNext]_budgetVars =>
        [turn # "idle" /\ turn' = "idle" /\ answer' = "ok" =>
           \A d \in {"attempts", "tools", "output"} : spent'[d] <= BudgetLimit[d]]_budgetVars
    BY BudgetStep DEF BudgetKept
<1> QED BY <1>1, <1>2, <1>3, <1>4, BudgetInitially, PTL
        DEF BudgetSpec, BudgetSafety, NoAnswerAfterExcess, ConsumptionGrows

-----------------------------------------------------------------------------
(* The attribution of runs *)

RunTables ==
    /\ runRows \in [RunIds -> RunRow \cup {NoRow}]
    /\ resultRows \in [RunIds -> ResultRow \cup {NoRow}]
    /\ budgetRows \in [RunIds -> Times \cup {NoRow}]
    /\ archiveRows = [r \in RunIds |-> archiveRows[r]]

\* What the foreign keys say: nothing is told of a run that has no row.
RowsAreOfRuns ==
    /\ \A r \in RunIds :
        /\ Exists(resultRows, r) => Exists(runRows, r)
        /\ Exists(budgetRows, r) => Exists(resultRows, r)
    /\ \A row \in replayRows : row.run \in RunIds /\ Exists(runRows, row.run)

RunsInv ==
    RunsTypeOK /\ RunTables /\ RowsAreOfRuns /\ AttributionAgrees /\ TelemetryFollowsResult

\* The tables are empty at first.
LEMMA RunsInitially == RunsInit => RunsInv
<1> SUFFICES ASSUME RunsInit PROVE RunsInv
    OBVIOUS
<1> USE DEF RunsInit, Exists
<1>1. RunsTypeOK
    BY DEF RunsTypeOK
<1>2. RunTables
    BY DEF RunTables
<1>3. RowsAreOfRuns /\ AttributionAgrees /\ TelemetryFollowsResult
    BY DEF RowsAreOfRuns, AttributionAgrees, TelemetryFollowsResult
<1> QED BY <1>1, <1>2, <1>3 DEF RunsInv

\* create_run, whose run had no row and so no result, telemetry or replay.
LEMMA CreateRunKeeps ==
    ASSUME RunsInv, NEW r \in RunIds, NEW s \in GameSeats, NEW m \in Manifests, NEW t \in Times,
           create_run(r, s, m, t)
    PROVE  RunsInv'
<1>0. RunsTypeOK /\ RunTables /\ RowsAreOfRuns /\ AttributionAgrees /\ TelemetryFollowsResult
    BY DEF RunsInv
<1>1. PICK new : new = [seat |-> s, manifest |-> m, created |-> t, status |-> "pending"]
    OBVIOUS
<1>2. new \in RunRow /\ new.seat = s /\ new.manifest = m /\ new.status = "pending" /\ new # NoRow
    BY <1>1, RunsAssumption DEF RunRow
<1>3. runRows' = [runRows EXCEPT ![r] = new]
    BY <1>1 DEF create_run
<1>4. runRows'[r] = new /\ \A q \in RunIds : q # r => runRows'[q] = runRows[q]
    BY <1>0, <1>3 DEF RunTables
<1>5. /\ UNCHANGED <<resultRows, budgetRows, archiveRows, replayRows>>
      /\ manifestRows' = manifestRows \cup {m} /\ seatRun' = [seatRun EXCEPT ![s] = r]
      /\ ~Exists(runRows, r)
      /\ \A q \in RunIds : Exists(runRows, q) => runRows[q].seat # s
    BY DEF create_run
<1>6. ~Exists(resultRows, r) /\ ~Exists(archiveRows, r) /\ ~Exists(budgetRows, r)
      /\ \A row \in replayRows : row.run # r
    BY <1>0, <1>5 DEF RowsAreOfRuns, TelemetryFollowsResult
<1>7. RunTables'
    BY <1>0, <1>2, <1>3, <1>5 DEF RunTables
<1>8. RunsTypeOK'
    BY <1>0, <1>2, <1>4, <1>5 DEF RunsTypeOK, Exists
<1>9. RowsAreOfRuns'
    BY <1>0, <1>2, <1>4, <1>5, <1>6 DEF RowsAreOfRuns, Exists
<1>10. AttributionAgrees'
    <2>1. \A q \in RunIds : q # r /\ Exists(runRows, q) => runRows[q].seat \in GameSeats
        BY <1>0, <1>5 DEF RunTables, Exists, RunRow
    <2>2. /\ seatRun'[s] = r
          /\ \A q \in RunIds : q # r /\ Exists(runRows, q) =>
                seatRun'[runRows[q].seat] = seatRun[runRows[q].seat]
        BY <1>0, <1>5, <2>1 DEF RunsTypeOK
    <2>3. ASSUME NEW q \in RunIds, Exists(runRows, q)'
          PROVE  /\ runRows'[q].manifest \in manifestRows' /\ seatRun'[runRows'[q].seat] = q
                 /\ Exists(resultRows, q)' => resultRows'[q].manifest = runRows'[q].manifest
                 /\ Exists(resultRows, q)' <=> runRows'[q].status /= "pending"
        <3>1. CASE q = r
            BY <1>2, <1>4, <1>5, <1>6, <2>2, <3>1 DEF Exists
        <3>2. CASE q # r
            <4>1. Exists(runRows, q) /\ runRows'[q] = runRows[q]
                BY <1>4, <2>3, <3>2 DEF Exists
            <4> QED BY <1>0, <1>5, <2>2, <3>2, <4>1 DEF AttributionAgrees, Exists
        <3> QED BY <3>1, <3>2
    <2>4. \A row \in replayRows' :
              runRows'[row.run].manifest = row.manifest /\ runRows'[row.run].seat = row.seat
        BY <1>0, <1>4, <1>5, <1>6 DEF AttributionAgrees, RowsAreOfRuns
    <2> QED BY <2>3, <2>4 DEF AttributionAgrees
<1>11. TelemetryFollowsResult'
    BY <1>0, <1>4, <1>5, <1>6 DEF TelemetryFollowsResult, Exists
<1> QED BY <1>7, <1>8, <1>9, <1>10, <1>11 DEF RunsInv

\* record_result, of a pending run: it had no telemetry yet.
LEMMA RecordResultKeeps ==
    ASSUME RunsInv, NEW r \in RunIds, NEW m \in Manifests, NEW outcome \in RunOutcomes,
           NEW t \in Times, record_result(r, m, outcome, t)
    PROVE  RunsInv'
<1>0. RunsTypeOK /\ RunTables /\ RowsAreOfRuns /\ AttributionAgrees /\ TelemetryFollowsResult
    BY DEF RunsInv
<1>1. /\ UNCHANGED <<manifestRows, seatRun, budgetRows, archiveRows, replayRows>>
      /\ Exists(runRows, r) /\ runRows[r].manifest = m /\ runRows[r].status = "pending"
    BY DEF record_result
<1>2. runRows[r] \in RunRow
    BY <1>0, <1>1 DEF RunTables, Exists
<1>3. PICK run : run = [runRows[r] EXCEPT !.status = outcome]
    OBVIOUS
<1>4. /\ run \in RunRow /\ run.seat = runRows[r].seat /\ run.manifest = m
      /\ run.status = outcome /\ run.status # "pending" /\ run # NoRow
    BY <1>1, <1>2, <1>3, RunsAssumption DEF RunRow
<1>5. PICK res : res = [manifest |-> m, outcome |-> outcome, completed |-> t]
    OBVIOUS
<1>6. res \in ResultRow /\ res.manifest = m /\ res # NoRow
    BY <1>5, RunsAssumption DEF ResultRow
<1>7. runRows' = [runRows EXCEPT ![r] = run] /\ resultRows' = [resultRows EXCEPT ![r] = res]
    BY <1>3, <1>5 DEF record_result
<1>8. /\ runRows'[r] = run /\ \A q \in RunIds : q # r => runRows'[q] = runRows[q]
      /\ resultRows'[r] = res /\ \A q \in RunIds : q # r => resultRows'[q] = resultRows[q]
    BY <1>0, <1>7 DEF RunTables
<1>9. ~Exists(resultRows, r) /\ ~Exists(archiveRows, r) /\ ~Exists(budgetRows, r)
    BY <1>0, <1>1 DEF AttributionAgrees, RowsAreOfRuns, TelemetryFollowsResult
<1>10. RunTables'
    BY <1>0, <1>1, <1>4, <1>6, <1>7 DEF RunTables
<1>11. RunsTypeOK'
    BY <1>0, <1>1, <1>4, <1>6, <1>8 DEF RunsTypeOK, Exists
<1>12. RowsAreOfRuns'
    BY <1>0, <1>1, <1>4, <1>6, <1>8, <1>9 DEF RowsAreOfRuns, Exists
<1>13. AttributionAgrees'
    <2>1. ASSUME NEW q \in RunIds, Exists(runRows, q)'
          PROVE  /\ runRows'[q].manifest \in manifestRows' /\ seatRun'[runRows'[q].seat] = q
                 /\ Exists(resultRows, q)' => resultRows'[q].manifest = runRows'[q].manifest
                 /\ Exists(resultRows, q)' <=> runRows'[q].status /= "pending"
        <3>1. CASE q = r
            BY <1>0, <1>1, <1>4, <1>6, <1>8, <3>1 DEF Exists, AttributionAgrees
        <3>2. CASE q # r
            BY <1>0, <1>1, <1>8, <2>1, <3>2 DEF AttributionAgrees, Exists
        <3> QED BY <3>1, <3>2
    <2>2. \A row \in replayRows' :
              runRows'[row.run].manifest = row.manifest /\ runRows'[row.run].seat = row.seat
        BY <1>0, <1>1, <1>4, <1>8 DEF AttributionAgrees, RowsAreOfRuns
    <2> QED BY <2>1, <2>2 DEF AttributionAgrees
<1>14. TelemetryFollowsResult'
    BY <1>0, <1>1, <1>8, <1>9 DEF TelemetryFollowsResult, Exists
<1> QED BY <1>10, <1>11, <1>12, <1>13, <1>14 DEF RunsInv

\* Budget telemetry follows the result it was asked against.
LEMMA BudgetTelemetryKeeps ==
    ASSUME RunsInv, NEW r \in RunIds, NEW m \in Manifests, NEW t \in Times,
           record_budget_telemetry(r, m, t)
    PROVE  RunsInv'
<1>0. RunsTypeOK /\ RunTables /\ RowsAreOfRuns /\ AttributionAgrees /\ TelemetryFollowsResult
    BY DEF RunsInv
<1>1. /\ UNCHANGED <<manifestRows, seatRun, runRows, resultRows, archiveRows, replayRows>>
      /\ Exists(resultRows, r) /\ resultRows[r].completed <= t
      /\ budgetRows' = [budgetRows EXCEPT ![r] = t]
    BY DEF record_budget_telemetry, Completed
<1>2. budgetRows'[r] = t /\ \A q \in RunIds : q # r => budgetRows'[q] = budgetRows[q]
    BY <1>0, <1>1 DEF RunTables
<1>3. RunTables' /\ RunsTypeOK'
    BY <1>0, <1>1, <1>2 DEF RunTables, RunsTypeOK, Exists
<1>4. RowsAreOfRuns'
    BY <1>0, <1>1, <1>2 DEF RowsAreOfRuns, Exists
<1>5. AttributionAgrees'
    BY <1>0, <1>1 DEF AttributionAgrees, Exists
<1>6. t >= resultRows[r].completed
    <2>1. resultRows[r].completed \in Nat /\ t \in Nat
        BY <1>0, <1>1 DEF RunTables, Exists, ResultRow, Times
    <2> QED BY <1>1, <2>1
<1>7. TelemetryFollowsResult'
    BY <1>0, <1>1, <1>2, <1>6 DEF TelemetryFollowsResult, Exists
<1> QED BY <1>3, <1>4, <1>5, <1>7 DEF RunsInv

\* An archive that is recorded is valid, and of the run it names.
LEMMA CaptureKeeps ==
    ASSUME RunsInv, NEW r \in RunIds, NEW m \in Manifests, NEW s \in GameSeats,
           CaptureAndRecord(r, m, s)
    PROVE  RunsInv'
<1>0. RunsTypeOK /\ RunTables /\ RowsAreOfRuns /\ AttributionAgrees /\ TelemetryFollowsResult
    BY DEF RunsInv
<1>1. PICK at \in Times, t \in Times, expires \in Times \cup {Never}, turns \in SomeTurns,
           lifecycle \in SomeLifecycle :
        record_run_telemetry(capture(r, m, s, at, expires, turns, lifecycle, toolJson), t)
    BY DEF CaptureAndRecord
<1>2. PICK a : a = capture(r, m, s, at, expires, turns, lifecycle, toolJson)
    OBVIOUS
<1>3. a.run = r
    BY <1>2 DEF capture
<1>4. /\ ValidArchive(a) /\ Correlated(a) /\ Completed(a.run, a.manifest, t)
      /\ archiveRows' = [archiveRows EXCEPT ![r] = [archive |-> a, recorded |-> t]]
      /\ UNCHANGED <<manifestRows, seatRun, runRows, resultRows, budgetRows, replayRows>>
    BY <1>1, <1>2, <1>3 DEF record_run_telemetry
<1>5. PICK row : row = [archive |-> a, recorded |-> t]
    OBVIOUS
<1>6. row.archive = a /\ row.recorded = t
    BY <1>5
<1>7. archiveRows' = [archiveRows EXCEPT ![r] = row]
    BY <1>4, <1>5
<1>8. /\ archiveRows'[r] = row /\ \A q \in RunIds : q # r => archiveRows'[q] = archiveRows[q]
      /\ archiveRows' = [q \in RunIds |-> archiveRows'[q]]
    BY <1>0, <1>7 DEF RunTables
<1>9. RunTables'
    BY <1>0, <1>4, <1>8 DEF RunTables
<1>10. RunsTypeOK'
    BY <1>0, <1>4, <1>6, <1>8 DEF RunsTypeOK, Exists
<1>11. RowsAreOfRuns' /\ AttributionAgrees'
    BY <1>0, <1>4 DEF RowsAreOfRuns, AttributionAgrees, Exists
<1>12. /\ Exists(resultRows, r) /\ t >= resultRows[r].completed
       /\ a.manifest = runRows[r].manifest /\ a.seat = runRows[r].seat
    <2>1. Exists(resultRows, r) /\ resultRows[r].completed <= t
        BY <1>3, <1>4 DEF Completed
    <2>2. resultRows[r].completed \in Nat /\ t \in Nat
        BY <1>0, <2>1 DEF RunTables, Exists, ResultRow, Times
    <2> QED BY <1>3, <1>4, <2>1, <2>2 DEF Correlated
<1>13. TelemetryFollowsResult'
    BY <1>0, <1>4, <1>6, <1>8, <1>12 DEF TelemetryFollowsResult, Exists
<1> QED BY <1>9, <1>10, <1>11, <1>13 DEF RunsInv

\* What the purge leaves is what was there.
LEMMA PurgeKeeps ==
    ASSUME RunsInv, NEW now \in Times, purge_expired_run_telemetry(now)
    PROVE  RunsInv' /\ \A r \in RunIds : Exists(archiveRows, r) /\ archiveRows'[r] = NoRow =>
                           budgetRows'[r] = NoRow
<1>0. RunsTypeOK /\ RunTables /\ RowsAreOfRuns /\ AttributionAgrees /\ TelemetryFollowsResult
    BY DEF RunsInv
<1>1. /\ UNCHANGED <<manifestRows, seatRun, runRows, resultRows, replayRows>>
      /\ budgetRows' = [r \in RunIds |-> IF r \in ExpiredRuns(now) THEN NoRow ELSE budgetRows[r]]
      /\ archiveRows' = [r \in RunIds |-> IF r \in ExpiredRuns(now) THEN NoRow ELSE archiveRows[r]]
    BY DEF purge_expired_run_telemetry
<1>2. \A r \in RunIds : IF r \in ExpiredRuns(now) THEN archiveRows'[r] = NoRow /\ budgetRows'[r] = NoRow
                        ELSE archiveRows'[r] = archiveRows[r] /\ budgetRows'[r] = budgetRows[r]
    BY <1>1
<1>3. archiveRows' = [r \in RunIds |-> archiveRows'[r]]
    BY <1>1
<1>4. RunTables'
    BY <1>0, <1>1, <1>3 DEF RunTables
<1>5. RunsTypeOK'
    BY <1>0, <1>1, <1>2 DEF RunsTypeOK, Exists
<1>6. RowsAreOfRuns' /\ AttributionAgrees'
    BY <1>0, <1>1, <1>2 DEF RowsAreOfRuns, AttributionAgrees, Exists
<1>7. TelemetryFollowsResult'
    BY <1>0, <1>1, <1>2 DEF TelemetryFollowsResult, Exists
<1> QED BY <1>2, <1>4, <1>5, <1>6, <1>7 DEF RunsInv, Exists

\* attach_replay, of a run with a row.
LEMMA AttachReplayKeeps ==
    ASSUME RunsInv, NEW r \in RunIds, NEW s \in GameSeats, NEW m \in Manifests,
           attach_replay(r, s, m)
    PROVE  RunsInv'
<1>0. RunsTypeOK /\ RunTables /\ RowsAreOfRuns /\ AttributionAgrees /\ TelemetryFollowsResult
    BY DEF RunsInv
<1>1. /\ UNCHANGED <<manifestRows, seatRun, runRows, resultRows, budgetRows, archiveRows>>
      /\ Exists(runRows, r) /\ runRows[r].seat = s /\ runRows[r].manifest = m
      /\ replayRows' = replayRows \cup {[run |-> r, seat |-> s, manifest |-> m]}
    BY DEF attach_replay
<1>2. RunTables' /\ RunsTypeOK' /\ TelemetryFollowsResult'
    BY <1>0, <1>1 DEF RunTables, RunsTypeOK, TelemetryFollowsResult, Exists
<1>3. RowsAreOfRuns'
    BY <1>0, <1>1 DEF RowsAreOfRuns, Exists
<1>4. AttributionAgrees'
    BY <1>0, <1>1 DEF AttributionAgrees, Exists
<1> QED BY <1>2, <1>3, <1>4 DEF RunsInv

\* A set of natural numbers that is not empty has a least member.
LEMMA LeastOf ==
    ASSUME NEW S, S \subseteq Nat, S # {}
    PROVE  \E n \in S : \A m \in S : n <= m
<1>1. \E n \in S : \A m \in S : ~(<<m, n>> \in OpToRel(<, Nat))
    BY NatLessThanWellFounded, WFMin, Zenon
<1>2. ASSUME NEW m \in Nat, NEW n \in Nat, m < n
      PROVE  <<m, n>> \in OpToRel(<, Nat)
    BY <1>2, Zenon DEF OpToRel
<1>3. \E n \in S : \A m \in S : ~(m < n)
    BY <1>1, <1>2, Zenon
<1> QED BY <1>3

\* A path through a JSON value: containers, and a leaf at the end.
IsPath(v) ==
    /\ v \in Seq(Containers \cup Leaves) /\ Len(v) >= 1 /\ v[Len(v)] \in Leaves
    /\ \A i \in 1..Len(v) - 1 : v[i] \in Containers

\* What the model's values are.
LEMMA JsonValuesArePaths == \A v \in JsonValues : IsPath(v)
<1> SUFFICES ASSUME NEW v \in JsonValues PROVE IsPath(v)
    OBVIOUS
<1>0. PICK path \in BoundedSeq(Containers, JsonDepth + 1), leaf \in Leaves : v = Append(path, leaf)
    BY DEF JsonValues
<1>1. PICK m \in 0..JsonDepth + 1 : path \in [1..m -> Containers]
    BY DEF BoundedSeq, SeqOf
<1>2. path \in Seq(Containers)
    BY <1>1, RunsAssumption
<1>3. /\ v \in Seq(Containers \cup Leaves) /\ Len(v) = Len(path) + 1 /\ v[Len(v)] = leaf
      /\ \A i \in 1..Len(path) : v[i] = path[i]
    BY <1>0, <1>2
<1>4. \A i \in 1..Len(path) : path[i] \in Containers
    BY <1>2
<1>5. Len(path) \in Nat
    BY <1>2
<1> QED BY <1>3, <1>4, <1>5 DEF IsPath

\* Going down a sequence stops once, at the first position where it can.
LEMMA StopOfIsFirst ==
    ASSUME NEW S, NEW v \in Seq(S), Len(v) >= 1, NEW i \in 1..Len(v), Stops(v, i),
           \A j \in 1..i - 1 : ~Stops(v, j)
    PROVE  StopOf(v) = i
<1>1. PICK k : k = StopOf(v)
    OBVIOUS
<1>2. k \in 1..Len(v) /\ Stops(v, k) /\ \A j \in 1..k - 1 : ~Stops(v, j)
    BY <1>1, Zenon DEF StopOf
<1>3. Len(v) \in Nat
    OBVIOUS
<1>4. ~(k < i) /\ ~(i < k)
    BY <1>2, <1>3
<1> QED BY <1>1, <1>2, <1>3, <1>4

\* It does stop, at the leaf at the latest.
LEMMA StopExists ==
    ASSUME NEW S, NEW v \in Seq(S), Len(v) >= 1
    PROVE  \E i \in 1..Len(v) : Stops(v, i) /\ \A j \in 1..i - 1 : ~Stops(v, j)
<1>1. Len(v) \in {k \in 1..Len(v) : Stops(v, k)} /\ Len(v) \in Nat
    BY DEF Stops
<1>2. PICK T : T = {k \in 1..Len(v) : Stops(v, k)}
    OBVIOUS
<1>3. T \subseteq Nat /\ T # {}
    BY <1>1, <1>2
<1>4. PICK i \in T : \A k \in T : i <= k
    BY <1>3, LeastOf
<1>5. ASSUME NEW j \in 1..i - 1 PROVE ~Stops(v, j)
    BY <1>1, <1>2, <1>4
<1> QED BY <1>2, <1>4, <1>5

\* A path cut before position i, with one element or two in its place.
LEMMA CutAndExtended ==
    ASSUME NEW S, NEW v \in Seq(S), NEW i \in 1..Len(v), NEW a \in S, NEW b \in S
    PROVE  /\ \A o : o = SubSeq(v, 1, i - 1) \o <<a>> =>
                 /\ o \in Seq(S) /\ Len(o) = i /\ o[i] = a
                 /\ \A k \in 1..i - 1 : o[k] = v[k]
           /\ \A o : o = SubSeq(v, 1, i - 1) \o <<a, b>> =>
                 /\ o \in Seq(S) /\ Len(o) = i + 1 /\ o[i] = a /\ o[i + 1] = b
                 /\ \A k \in 1..i - 1 : o[k] = v[k]
<1>0. Len(v) \in Nat /\ i - 1 \in 0..Len(v)
    OBVIOUS
<1>1. PICK u : u = SubSeq(v, 1, i - 1)
    OBVIOUS
<1>2. u \in Seq(S) /\ Len(u) = i - 1 /\ \A k \in 1..i - 1 : u[k] = v[k]
    BY <1>0, <1>1
<1>3. /\ u \o <<a>> \in Seq(S) /\ Len(u \o <<a>>) = i /\ (u \o <<a>>)[i] = a
      /\ \A k \in 1..i - 1 : (u \o <<a>>)[k] = v[k]
    BY SMTT(40), <1>0, <1>2
<1>4. /\ u \o <<a, b>> \in Seq(S) /\ Len(u \o <<a, b>>) = i + 1
      /\ (u \o <<a, b>>)[i] = a /\ (u \o <<a, b>>)[i + 1] = b
      /\ \A k \in 1..i - 1 : (u \o <<a, b>>)[k] = v[k]
    BY <1>0, <1>2
<1> QED BY <1>1, <1>3, <1>4

\* Before the stop, what the sanitiser returns is what it was given; so the
\* validator goes down to the same position, provided that a sensitive key just
\* before it is followed by null again.
LEMMA SameWayDown ==
    ASSUME NEW S, NEW v \in Seq(S), NEW i \in 1..Len(v), \A j \in 1..i - 1 : ~Stops(v, j),
           NEW T, NEW o \in Seq(T), i <= Len(o), \A k \in 1..i - 1 : o[k] = v[k],
           i > 1 /\ v[i - 1] = "sensitive" => o[i] = "null"
    PROVE  \A j \in 1..i - 1 : ~Stops(o, j)
<1> SUFFICES ASSUME NEW j \in 1..i - 1 PROVE ~Stops(o, j)
    OBVIOUS
<1>0. Len(v) \in Nat /\ Len(o) \in Nat /\ JsonDepth \in Nat
    BY RunsAssumption
<1>1. ~(j > JsonDepth) /\ j # Len(o) /\ o[j] = v[j] /\ ~Stops(v, j)
    BY <1>0 DEF Stops
<1>2. v[j] = "sensitive" => v[j + 1] = "null"
    BY <1>1 DEF Stops
<1>3. CASE j = i - 1
    BY <1>0, <1>1, <1>3 DEF Stops
<1>4. CASE j < i - 1
    <2>1. o[j + 1] = v[j + 1]
        BY <1>0, <1>4
    <2> QED BY <1>1, <1>2, <2>1 DEF Stops
<1> QED BY <1>0, <1>3, <1>4

\* What the sanitiser makes of a path, the validator accepts, unless the path
\* has a sensitive null exactly at the depth limit.
LEMMA SanitizedPathIsAccepted ==
    ASSUME NEW v, IsPath(v), ~NullAtTheCut(v)
    PROVE  is_sanitized_json(sanitize_json(v))
<1> DEFINE S == Containers \cup Leaves
           T == S \cup {"truncated", "redacted"}
<1>0. v \in Seq(S) /\ v \in Seq(T) /\ Len(v) \in Nat /\ Len(v) >= 1
    BY DEF IsPath
<1>1. JsonDepth \in Nat /\ JsonDepth >= 1
    BY RunsAssumption
<1>2. PICK i \in 1..Len(v) : Stops(v, i) /\ \A j \in 1..i - 1 : ~Stops(v, j)
    BY <1>0, StopExists
<1>3. StopOf(v) = i
    BY <1>0, <1>2, StopOfIsFirst
<1>4. \A j \in 1..i - 1 : j <= JsonDepth /\ j # Len(v) /\ (v[j] = "sensitive" => v[j + 1] = "null")
    BY <1>0, <1>1, <1>2 DEF Stops
<1>5. i <= JsonDepth + 1
    <2> SUFFICES ASSUME i > JsonDepth + 1 PROVE FALSE
        BY <1>1
    <2>1. i - 1 \in 1..i - 1
        BY <1>1
    <2> QED BY <1>1, <1>4, <2>1
<1>6. PICK o : o = sanitize_json(v)
    OBVIOUS
<1>7. CASE i > JsonDepth
    <2>1. i = JsonDepth + 1
        BY <1>1, <1>5, <1>7
    <2>2. o = SubSeq(v, 1, i - 1) \o <<"truncated">>
        BY <1>3, <1>6, <1>7 DEF sanitize_json
    <2>3. o \in Seq(T) /\ Len(o) = i /\ o[i] = "truncated" /\ \A k \in 1..i - 1 : o[k] = v[k]
        BY <1>0, <2>2, CutAndExtended
    <2>4. ~(i > 1 /\ v[i - 1] = "sensitive")
        <3> SUFFICES ASSUME i > 1, v[i - 1] = "sensitive" PROVE FALSE
            OBVIOUS
        <3>1. i - 1 \in 1..i - 1 /\ v[(i - 1) + 1] = "null" /\ (i - 1) + 1 = i /\ i - 1 = JsonDepth
            BY <1>4, <2>1, <1>1
        <3>2. v[JsonDepth] = "sensitive" /\ v[JsonDepth + 1] = "null" /\ Len(v) > JsonDepth
            BY <1>0, <1>1, <2>1, <3>1
        <3>3. ASSUME NEW k \in 1..JsonDepth - 1 PROVE v[k] /= "sensitive"
            <4>1. k \in 1..i - 1 /\ k + 1 \in 1..Len(v) - 1
                BY <1>0, <1>1, <2>1
            <4>2. v[k + 1] # "null"
                BY <4>1 DEF IsPath, Containers
            <4> QED BY <1>4, <4>1, <4>2
        <3> QED BY <3>2, <3>3 DEF NullAtTheCut
    <2>5. \A j \in 1..i - 1 : ~Stops(o, j)
        BY <1>0, <1>2, <2>3, <2>4, SameWayDown
    <2>6. Stops(o, i) /\ i \in 1..Len(o) /\ Len(o) >= 1
        BY <1>7, <2>3 DEF Stops
    <2>7. StopOf(o) = i
        BY <2>3, <2>5, <2>6, StopOfIsFirst
    <2>8. is_sanitized_json(o)
        BY <1>7, <2>3, <2>7 DEF is_sanitized_json
    <2> QED BY <1>6, <2>8
<1>8. CASE i <= JsonDepth /\ i = Len(v)
    <2>1. v[i] \in Leaves
        BY <1>8 DEF IsPath
    <2>2. PICK leaf : leaf = sanitize_text(v[i])
        OBVIOUS
    <2>3. /\ leaf \in T /\ leaf \notin {"dirty_text", "long_text"}
          /\ v[i] = "null" => leaf = "null"
        BY <2>1, <2>2 DEF sanitize_text, Leaves
    <2>4. o = SubSeq(v, 1, i - 1) \o <<leaf>>
        BY <1>1, <1>3, <1>6, <1>8, <2>2 DEF sanitize_json
    <2>5. o \in Seq(T) /\ Len(o) = i /\ o[i] = leaf /\ \A k \in 1..i - 1 : o[k] = v[k]
        BY <1>0, <2>3, <2>4, CutAndExtended
    <2>6. i > 1 /\ v[i - 1] = "sensitive" => o[i] = "null"
        <3> SUFFICES ASSUME i > 1, v[i - 1] = "sensitive" PROVE o[i] = "null"
            OBVIOUS
        <3>1. i - 1 \in 1..i - 1 /\ (i - 1) + 1 = i
            OBVIOUS
        <3>2. v[i] = "null"
            BY <1>4, <3>1
        <3> QED BY <2>3, <2>5, <3>2
    <2>7. \A j \in 1..i - 1 : ~Stops(o, j)
        BY <1>0, <1>2, <2>5, <2>6, SameWayDown
    <2>8. Stops(o, i) /\ i \in 1..Len(o) /\ Len(o) >= 1
        BY <2>5 DEF Stops
    <2>9. StopOf(o) = i
        BY <2>5, <2>7, <2>8, StopOfIsFirst
    <2>10. ~(i > JsonDepth)
        BY <1>1, <1>8
    <2>11. is_sanitized_json(o)
        BY <2>3, <2>5, <2>9, <2>10 DEF is_sanitized_json
    <2> QED BY <1>6, <2>11
<1>9. CASE i <= JsonDepth /\ i # Len(v)
    <2>1. ~(i > JsonDepth)
        BY <1>1, <1>9
    <2>2. v[i] = "sensitive"
        BY <1>2, <1>9, <2>1 DEF Stops
    <2>3. o = SubSeq(v, 1, i - 1) \o <<"sensitive", "redacted">>
        BY <1>3, <1>6, <1>9, <2>1 DEF sanitize_json
    <2>4. /\ o \in Seq(T) /\ Len(o) = i + 1 /\ o[i] = "sensitive" /\ o[i + 1] = "redacted"
          /\ \A k \in 1..i - 1 : o[k] = v[k]
        <3>1. "sensitive" \in T /\ "redacted" \in T
            BY DEF Containers
        <3> QED BY <1>0, <2>3, <3>1, CutAndExtended
    <2>5. ~(i > 1 /\ v[i - 1] = "sensitive")
        <3> SUFFICES ASSUME i > 1, v[i - 1] = "sensitive" PROVE FALSE
            OBVIOUS
        <3>1. i - 1 \in 1..i - 1 /\ (i - 1) + 1 = i
            OBVIOUS
        <3>2. v[i] = "null"
            BY <1>4, <3>1
        <3> QED BY <2>2, <3>2
    <2>6. \A j \in 1..i - 1 : ~Stops(o, j)
        BY SMTT(40), <1>0, <1>2, <2>4, <2>5, SameWayDown
    <2>7. Stops(o, i) /\ i \in 1..Len(o) /\ Len(o) >= 1 /\ i # Len(o)
        BY <2>4 DEF Stops
    <2>8. StopOf(o) = i
        BY <2>4, <2>6, <2>7, StopOfIsFirst
    <2>9. is_sanitized_json(o)
        BY <2>1, <2>4, <2>7, <2>8 DEF is_sanitized_json
    <2> QED BY <1>6, <2>9
<1> QED BY <1>1, <1>7, <1>8, <1>9

\* Every action of the repository keeps the invariant, and an archive leaves
\* only with the budget snapshot of its run.
LEMMA RunsStepKeeps ==
    ASSUME RunsInv, [RunsNext]_runVars
    PROVE  /\ RunsInv' /\ UNCHANGED toolJson
           /\ \A r \in RunIds : Exists(archiveRows, r) /\ archiveRows'[r] = NoRow =>
                  budgetRows'[r] = NoRow \/ UNCHANGED runVars
<1>0. RunTables
    BY DEF RunsInv
<1>1. CASE UNCHANGED runVars
    <2>1. RunsInv'
        BY <1>1 DEF runVars, RunsInv, RunsTypeOK, RunTables, RowsAreOfRuns, AttributionAgrees,
                    TelemetryFollowsResult, Exists
    <2> QED BY <1>1, <2>1 DEF runVars
<1>2. ASSUME NEW r \in RunIds, NEW m \in Manifests, NEW s \in GameSeats, NEW t \in Times,
             create_run(r, s, m, t)
      PROVE  RunsInv' /\ UNCHANGED archiveRows
    BY <1>2, CreateRunKeeps DEF create_run
<1>3. ASSUME NEW r \in RunIds, NEW m \in Manifests, NEW s \in GameSeats,
             CaptureAndRecord(r, m, s)
      PROVE  /\ RunsInv'
             /\ \A q \in RunIds : Exists(archiveRows, q) => archiveRows'[q] = archiveRows[q]
    <2>1. PICK at \in Times, t \in Times, expires \in Times \cup {Never}, turns \in SomeTurns,
               lifecycle \in SomeLifecycle :
            record_run_telemetry(capture(r, m, s, at, expires, turns, lifecycle, toolJson), t)
        BY <1>3 DEF CaptureAndRecord
    <2>2. PICK a : a = capture(r, m, s, at, expires, turns, lifecycle, toolJson)
        OBVIOUS
    <2>3. /\ a.run \in RunIds /\ ~Exists(archiveRows, a.run)
          /\ archiveRows' = [archiveRows EXCEPT ![a.run] = [archive |-> a, recorded |-> t]]
        BY <2>1, <2>2 DEF record_run_telemetry, capture
    <2>4. \A q \in RunIds : q # a.run => archiveRows'[q] = archiveRows[q]
        BY <1>0, <2>3 DEF RunTables
    <2> QED BY <1>3, <2>3, <2>4, CaptureKeeps
<1>4. ASSUME NEW r \in RunIds, NEW m \in Manifests, NEW s \in GameSeats, attach_replay(r, s, m)
      PROVE  RunsInv' /\ UNCHANGED archiveRows
    BY <1>4, AttachReplayKeeps DEF attach_replay
<1>5. ASSUME NEW r \in RunIds, NEW m \in Manifests, NEW outcome \in RunOutcomes, NEW t \in Times,
             record_result(r, m, outcome, t)
      PROVE  RunsInv' /\ UNCHANGED archiveRows
    BY <1>5, RecordResultKeeps DEF record_result
<1>6. ASSUME NEW r \in RunIds, NEW m \in Manifests, NEW t \in Times,
             record_budget_telemetry(r, m, t)
      PROVE  RunsInv' /\ UNCHANGED archiveRows
    BY <1>6, BudgetTelemetryKeeps DEF record_budget_telemetry
<1>7. ASSUME NEW t \in Times, purge_expired_run_telemetry(t)
      PROVE  /\ RunsInv'
             /\ \A r \in RunIds : Exists(archiveRows, r) /\ archiveRows'[r] = NoRow =>
                    budgetRows'[r] = NoRow
    BY <1>7, PurgeKeeps
<1>8. CASE RunsNext
    <2>1. UNCHANGED toolJson
        BY <1>8 DEF RunsNext
    <2>2. /\ RunsInv'
          /\ \A r \in RunIds : Exists(archiveRows, r) /\ archiveRows'[r] = NoRow =>
                 budgetRows'[r] = NoRow
        <3>1. PICK r \in RunIds, m \in Manifests :
                \/ \E s \in GameSeats :
                    \/ \E t \in Times : create_run(r, s, m, t)
                    \/ CaptureAndRecord(r, m, s)
                    \/ attach_replay(r, s, m)
                \/ \E t \in Times :
                    \/ \E outcome \in RunOutcomes : record_result(r, m, outcome, t)
                    \/ record_budget_telemetry(r, m, t)
                    \/ purge_expired_run_telemetry(t)
            BY <1>8 DEF RunsNext, RunsStep
        <3>2. CASE \E s \in GameSeats :
                    \/ \E t \in Times : create_run(r, s, m, t)
                    \/ CaptureAndRecord(r, m, s)
                    \/ attach_replay(r, s, m)
            BY <1>2, <1>3, <1>4, <3>2 DEF Exists
        <3>3. CASE \E t \in Times :
                    \/ \E outcome \in RunOutcomes : record_result(r, m, outcome, t)
                    \/ record_budget_telemetry(r, m, t)
                    \/ purge_expired_run_telemetry(t)
            BY <1>5, <1>6, <1>7, <3>3 DEF Exists
        <3> QED BY <3>1, <3>2, <3>3
    <2> QED BY <2>1, <2>2
<1> QED BY <1>1, <1>8

\* Whatever the callers send, and for any number of runs, seats and manifests:
\* the tables agree on who played a seat with what, telemetry follows the
\* result of its run and is purged with its budget snapshot, and what the
\* sanitiser returns for a value of any depth the validator accepts.
THEOREM RunsAreSafe == RunsSpec => RunsSafety
<1>1. RunsInit => RunsInv /\ IsPath(toolJson)
    BY RunsInitially, JsonValuesArePaths DEF RunsInit
<1>2. RunsInv /\ IsPath(toolJson) /\ [RunsNext]_runVars => RunsInv' /\ IsPath(toolJson)'
    BY RunsStepKeeps DEF IsPath
<1>3. RunsInv /\ [RunsNext]_runVars =>
        [\A r \in RunIds : Exists(archiveRows, r) /\ archiveRows'[r] = NoRow =>
              budgetRows'[r] = NoRow]_runVars
    BY RunsStepKeeps
<1>4. RunsInv /\ IsPath(toolJson) =>
        RunsTypeOK /\ AttributionAgrees /\ TelemetryFollowsResult /\ SanitizedIsAccepted
    BY SanitizedPathIsAccepted DEF RunsInv, SanitizedIsAccepted
<1> QED BY <1>1, <1>2, <1>3, <1>4, PTL DEF RunsSpec, RunsSafety, PurgedTogether

-----------------------------------------------------------------------------
(* Agent-managed matches *)

\* What a status may say of a game: it is not ahead of it.
StatusFor(st, t) ==
    /\ st \in MatchStatus
    /\ st.orchestration = "finished" => t.phase = "finished"
    /\ st.version <= t.version

\* What holds of a runner: it holds agents only, is busy with one of them
\* while it starts or asks it, returns from a resignation to a place of its
\* own, and acts for the seat that was to move at the version it read.
RunnerFor(p, t) ==
    /\ p \in Runner /\ p.agents \subseteq AgentSeats
    /\ p.pc \in {"launching", "turn", "verify"} => p.seat \in AgentSeats
    /\ p.pc \in {"aborting", "resigning", "acting"} => p.then \in {"done", "finishing", "loop"}
    /\ p.pc = "acting" => /\ p.seen <= t.version
                          /\ t.phase = "active" /\ t.version = p.seen => t.current = p.seat

\* A game that goes on has room for its last move.
TableIsSound == table \in Table /\ (table.phase = "active" => table.version <= LastVersion)

MatchTypes ==
    /\ pending \subseteq AgentSeats
    /\ spaces \in [MSeats -> {"none", "present", "deleted"}]
    /\ server \in BOOLEAN /\ failedReads \in 0..ReadFaults
    /\ faults \subseteq AgentSeats

RunnersAreSound ==
    runner = [r \in Runners |-> runner[r]] /\ \A r \in Runners : RunnerFor(runner[r], table)

MatchInv ==
    /\ TableIsSound /\ MatchTypes /\ RunnersAreSound
    /\ StatusFor(status, table) /\ StatusFor(archive, table)
    /\ ActiveHasARunner

\* How the game may change under a runner and a reported status: not at all,
\* or to a later version of a game that was active.
GameGoesOn(t, u) ==
    u = t \/ (t \in Table /\ u \in Table /\ t.phase = "active" /\ u.version = t.version + 1)

\* Neither a status nor a runner is invalidated by that.
LEMMA StatusGoesOn ==
    ASSUME NEW st, NEW t \in Table, NEW u, StatusFor(st, t), GameGoesOn(t, u)
    PROVE  StatusFor(st, u)
<1>1. CASE u = t
    BY <1>1
<1>2. CASE u \in Table /\ t.phase = "active" /\ u.version = t.version + 1
    <2>1. st.version \in Nat /\ t.version \in Nat /\ st.orchestration # "finished"
        BY <1>2 DEF StatusFor, MatchStatus, Table
    <2>2. st.version <= u.version
        BY <1>2, <2>1 DEF StatusFor
    <2> QED BY <2>1, <2>2 DEF StatusFor
<1> QED BY <1>1, <1>2 DEF GameGoesOn

\* The same of a runner: the version it read is over.
LEMMA RunnerGoesOn ==
    ASSUME NEW p, NEW t \in Table, NEW u, RunnerFor(p, t), GameGoesOn(t, u)
    PROVE  RunnerFor(p, u)
<1>1. CASE u = t
    BY <1>1
<1>2. CASE u \in Table /\ t.phase = "active" /\ u.version = t.version + 1
    <2>1. p.seen \in Nat /\ t.version \in Nat /\ (p.pc = "acting" => p.seen <= t.version)
        BY DEF RunnerFor, Runner, Table
    <2>2. p.pc = "acting" => p.seen <= u.version /\ u.version # p.seen
        BY <1>2, <2>1
    <2> QED BY <2>2 DEF RunnerFor
<1> QED BY <1>1, <1>2 DEF GameGoesOn

\* A step of a runner: it goes on in p, which is not before its start.
LEMMA RunnerStepKeeps ==
    ASSUME MatchInv, NEW r \in Runners, NEW p, runner' = [runner EXCEPT ![r] = p],
           RunnerFor(p, table'), p.pc \notin {"none", "lost"},
           TableIsSound', GameGoesOn(table, table'),
           StatusFor(status', table'), StatusFor(archive', table'), MatchTypes'
    PROVE  MatchInv'
<1>0. TableIsSound /\ RunnersAreSound
    BY DEF MatchInv
<1>1. runner'[r] = p /\ (\A q \in Runners : q # r => runner'[q] = runner[q])
      /\ runner' = [q \in Runners |-> runner'[q]]
    BY <1>0 DEF RunnersAreSound
<1>2. ASSUME NEW q \in Runners PROVE RunnerFor(runner'[q], table')
    <2>1. CASE q = r
        BY <1>1, <2>1
    <2>2. CASE q # r
        <3>1. RunnerFor(runner[q], table) /\ table \in Table
            BY <1>0 DEF RunnersAreSound, TableIsSound
        <3>2. RunnerFor(runner[q], table')
            BY <3>1, RunnerGoesOn
        <3> QED BY <1>1, <2>2, <3>2
    <2> QED BY <2>1, <2>2
<1>3. RunnersAreSound'
    BY <1>1, <1>2 DEF RunnersAreSound
<1>4. ActiveHasARunner'
    BY <1>1 DEF ActiveHasARunner
<1> QED BY <1>3, <1>4 DEF MatchInv

\* The three changes of a status keep it behind the game.
LEMMA SeatStatusIsFor ==
    ASSUME NEW st, NEW t, StatusFor(st, t), NEW s \in MSeats, NEW k \in AgentSeatStatusKind
    PROVE  StatusFor(set_seat_status(st, s, k), t)
<1>1. PICK c : c = [st.seats EXCEPT ![s] = k]
    OBVIOUS
<1>2. c \in [MSeats -> AgentSeatStatusKind]
    BY <1>1 DEF StatusFor, MatchStatus
<1>3. PICK new : new = [st EXCEPT !.seats = c]
    OBVIOUS
<1>4. new \in MatchStatus /\ new.orchestration = st.orchestration /\ new.version = st.version
    BY <1>2, <1>3 DEF StatusFor, MatchStatus
<1>5. set_seat_status(st, s, k) = new
    BY <1>1, <1>3 DEF set_seat_status
<1>6. StatusFor(new, t)
    BY <1>4 DEF StatusFor
<1> QED BY <1>5, <1>6

\* update_public takes version and phase from the game.
LEMMA PublicStatusIsFor ==
    ASSUME NEW st, StatusFor(st, table), TableIsSound
    PROVE  StatusFor(update_public(st), table)
<1>1. PICK o : o = IF table.phase = "finished" THEN "finished" ELSE st.orchestration
    OBVIOUS
<1>2. o \in AgentMatchLifecycle /\ (o = "finished" => table.phase = "finished")
    BY <1>1 DEF StatusFor, MatchStatus, AgentMatchLifecycle
<1>3. PICK new : new = [st EXCEPT !.version = table.version, !.orchestration = o]
    OBVIOUS
<1>4. table.version \in 0..(LastVersion + 1)
    BY DEF TableIsSound, Table
<1>5. new \in MatchStatus /\ new.orchestration = o /\ new.version = table.version
    BY <1>2, <1>3, <1>4 DEF StatusFor, MatchStatus
<1>6. update_public(st) = new
    BY <1>1, <1>3 DEF update_public, StatusFor, MatchStatus
<1>7. table.version <= table.version
    BY <1>4
<1>8. StatusFor(new, table)
    BY <1>2, <1>5, <1>7 DEF StatusFor
<1> QED BY <1>6, <1>8

\* A change of the seats alone: fail_agents, and the end of finish_agents.
LEMMA SeatsStatusIsFor ==
    ASSUME NEW st, NEW t, StatusFor(st, t), NEW c \in [MSeats -> AgentSeatStatusKind]
    PROVE  StatusFor([st EXCEPT !.seats = c], t)
<1>1. PICK new : new = [st EXCEPT !.seats = c]
    OBVIOUS
<1>2. new \in MatchStatus /\ new.orchestration = st.orchestration /\ new.version = st.version
    BY <1>1 DEF StatusFor, MatchStatus
<1>3. StatusFor(new, t)
    BY <1>2 DEF StatusFor
<1> QED BY <1>1, <1>3

\* fail_agents changes the seats of the agents.
LEMMA FailedStatusIsFor ==
    ASSUME NEW st, NEW t, StatusFor(st, t)
    PROVE  StatusFor(fail_agents(st), t)
<1>1. PICK c : c = [s \in MSeats |-> IF s \in AgentSeats THEN "failed" ELSE st.seats[s]]
    OBVIOUS
<1>2. c \in [MSeats -> AgentSeatStatusKind]
    BY <1>1 DEF StatusFor, MatchStatus, AgentSeatStatusKind
<1>3. fail_agents(st) = [st EXCEPT !.seats = c]
    BY <1>1 DEF fail_agents
<1> QED BY <1>2, <1>3, SeatsStatusIsFor

\* A status that is recorded, in memory and perhaps in the archive.
LEMMA RecordedIsFor ==
    ASSUME MatchInv, NEW new, StatusFor(new, table'), Recorded(new), GameGoesOn(table, table')
    PROVE  StatusFor(status', table') /\ StatusFor(archive', table')
<1>1. StatusFor(archive, table) /\ table \in Table
    BY DEF MatchInv, TableIsSound
<1>2. StatusFor(archive, table')
    BY <1>1, StatusGoesOn
<1> QED BY <1>2 DEF Recorded

\* A runner that goes elsewhere, in a game that stays as it is.
MovedTo(q, pc, s, n, th) == [q EXCEPT !.pc = pc, !.seat = s, !.seen = n, !.then = th]

\* It is sound if what it goes to is.
LEMMA RunnerMoves ==
    ASSUME NEW q, NEW t, RunnerFor(q, t), NEW pc \in RunnerPc,
           NEW s \in MSeats, NEW n \in 0..(LastVersion + 1), NEW th \in RunnerPc,
           pc \in {"launching", "turn", "verify"} => s \in AgentSeats,
           pc \in {"aborting", "resigning", "acting"} => th \in {"done", "finishing", "loop"},
           pc = "acting" => n <= t.version /\
                            (t.phase = "active" /\ t.version = n => t.current = s)
    PROVE  RunnerFor(MovedTo(q, pc, s, n, th), t) /\ MovedTo(q, pc, s, n, th).pc = pc
<1>1. PICK p : p = MovedTo(q, pc, s, n, th)
    OBVIOUS
<1>2. /\ p \in Runner /\ p.pc = pc /\ p.seat = s /\ p.seen = n /\ p.then = th
      /\ p.agents = q.agents
    BY <1>1 DEF RunnerFor, Runner, MovedTo
<1>3. RunnerFor(p, t)
    BY <1>2 DEF RunnerFor
<1> QED BY <1>1, <1>2, <1>3

\* What a runner is before its step.
LEMMA RunnerBefore ==
    ASSUME MatchInv, NEW r \in Runners
    PROVE  /\ RunnerFor(runner[r], table) /\ runner[r] \in Runner /\ table \in Table
           /\ runner[r].seat \in MSeats /\ runner[r].seen \in 0..(LastVersion + 1)
           /\ runner[r].then \in RunnerPc /\ runner[r].pc \in RunnerPc
           /\ runner = [q \in Runners |-> runner[q]]
BY DEF MatchInv, RunnersAreSound, RunnerFor, Runner, TableIsSound

\* A runner that goes on without touching the game.
LEMMA RunnerElsewhere ==
    ASSUME MatchInv, NEW r \in Runners, NEW pc \in RunnerPc \ {"none", "lost"},
           NEW s \in MSeats, NEW n \in 0..(LastVersion + 1), NEW th \in RunnerPc,
           pc \in {"launching", "turn", "verify"} => s \in AgentSeats,
           pc \in {"aborting", "resigning", "acting"} => th \in {"done", "finishing", "loop"},
           pc = "acting" => n <= table.version /\
                            (table.phase = "active" /\ table.version = n => table.current = s),
           runner' = [runner EXCEPT ![r] = MovedTo(runner[r], pc, s, n, th)],
           UNCHANGED table,
           StatusFor(status', table), StatusFor(archive', table), MatchTypes'
    PROVE  MatchInv'
<1>1. RunnerFor(runner[r], table)
    BY RunnerBefore
<1>2. PICK p : p = MovedTo(runner[r], pc, s, n, th)
    OBVIOUS
<1>3. RunnerFor(p, table) /\ p.pc = pc
    BY <1>1, <1>2, RunnerMoves
<1>4. TableIsSound'
    BY DEF MatchInv, TableIsSound
<1>5. runner' = [runner EXCEPT ![r] = p] /\ p.pc \notin {"none", "lost"}
    BY <1>2, <1>3
<1>6. RunnerFor(p, table') /\ StatusFor(status', table') /\ StatusFor(archive', table')
      /\ GameGoesOn(table, table')
    BY <1>3 DEF GameGoesOn
<1> QED BY <1>4, <1>5, <1>6, RunnerStepKeeps

\* Setup: the first seat is started, or every agent has failed.
LEMMA SetupKeeps ==
    ASSUME MatchInv, NEW r \in Runners, Setup(r)
    PROVE  MatchInv'
<1>0. /\ RunnerFor(runner[r], table) /\ runner[r] \in Runner /\ table \in Table
      /\ runner[r].seat \in MSeats /\ runner[r].seen \in 0..(LastVersion + 1)
      /\ runner[r].then \in RunnerPc /\ runner[r].pc \in RunnerPc
      /\ runner = [q \in Runners |-> runner[q]]
    BY RunnerBefore
<1>1. StatusFor(status, table) /\ StatusFor(archive, table) /\ MatchTypes
    BY DEF MatchInv
<1>2. 1 \in MSeats
    BY MatchAssumption DEF MSeats
<1>3. UNCHANGED <<table, pending, spaces, server, failedReads>>
    BY DEF Setup
<1>4. CASE runner' = [runner EXCEPT ![r].pc = "starting", ![r].seat = 1]
           /\ UNCHANGED <<status, archive, faults>>
    <2>1. runner' = [runner EXCEPT
              ![r] = MovedTo(runner[r], "starting", 1, runner[r].seen, runner[r].then)]
        BY <1>0, <1>4 DEF Runner, MovedTo
    <2>2. MatchTypes' /\ StatusFor(status', table) /\ StatusFor(archive', table)
        BY <1>1, <1>3, <1>4 DEF MatchTypes
    <2>3. "starting" \in RunnerPc \ {"none", "lost"}
        BY DEF RunnerPc
    <2> QED BY <1>0, <1>2, <1>3, <2>1, <2>2, <2>3, RunnerElsewhere
<1>5. CASE /\ Recorded(fail_agents(status))
           /\ runner' = [runner EXCEPT ![r].pc = "aborting", ![r].then = "done"]
           /\ faults' = AgentSeats
    <2>1. runner' = [runner EXCEPT
              ![r] = MovedTo(runner[r], "aborting", runner[r].seat, runner[r].seen, "done")]
        BY <1>0, <1>5 DEF Runner, MovedTo
    <2>2. StatusFor(fail_agents(status), table') /\ GameGoesOn(table, table')
        BY <1>1, <1>3, FailedStatusIsFor DEF GameGoesOn
    <2>3. StatusFor(status', table) /\ StatusFor(archive', table)
        BY <1>3, <1>5, <2>2, RecordedIsFor
    <2>4. MatchTypes'
        BY <1>1, <1>3, <1>5 DEF MatchTypes
    <2>5. "aborting" \in RunnerPc \ {"none", "lost"} /\ "done" \in RunnerPc
        BY DEF RunnerPc
    <2> QED BY <1>0, <1>3, <2>1, <2>3, <2>4, <2>5, RunnerElsewhere
<1> QED BY <1>4, <1>5 DEF Setup

\* Goto changes the place of a runner alone.
LEMMA RunnerGoesTo ==
    ASSUME MatchInv, NEW r \in Runners, NEW pc \in RunnerPc \ {"none", "lost"}, Goto(r, pc),
           pc \in {"launching", "turn", "verify"} => runner[r].seat \in AgentSeats,
           pc \notin {"aborting", "resigning", "acting"},
           UNCHANGED table,
           StatusFor(status', table), StatusFor(archive', table), MatchTypes'
    PROVE  MatchInv'
<1>0. /\ RunnerFor(runner[r], table) /\ runner[r] \in Runner /\ table \in Table
      /\ runner[r].seat \in MSeats /\ runner[r].seen \in 0..(LastVersion + 1)
      /\ runner[r].then \in RunnerPc /\ runner[r].pc \in RunnerPc
      /\ runner = [q \in Runners |-> runner[q]]
    BY RunnerBefore
<1>1. runner' = [runner EXCEPT
          ![r] = MovedTo(runner[r], pc, runner[r].seat, runner[r].seen, runner[r].then)]
    BY <1>0 DEF Goto, Runner, MovedTo
<1> QED BY <1>0, <1>1, RunnerElsewhere

\* After a seat, the next one or the loop.
LEMMA AfterSeatIsSound ==
    ASSUME MatchInv, NEW r \in Runners, NEW p, p = AfterSeat(r)
    PROVE  RunnerFor(p, table) /\ p.pc \in {"loop", "starting"} /\ p.agents = runner[r].agents
<1>0. RunnerFor(runner[r], table) /\ runner[r] \in Runner /\ runner[r].seat \in MSeats
    BY RunnerBefore
<1>1. CASE runner[r].seat = MatchSeats
    <2>1. p = [runner[r] EXCEPT !.pc = "loop"]
        BY <1>1 DEF AfterSeat
    <2>2. p \in Runner /\ p.pc = "loop" /\ p.agents = runner[r].agents
        BY <1>0, <2>1 DEF Runner, RunnerPc
    <2> QED BY <1>0, <2>2 DEF RunnerFor
<1>2. CASE runner[r].seat # MatchSeats
    <2>1. p = [runner[r] EXCEPT !.pc = "starting", !.seat = runner[r].seat + 1]
        BY <1>0, <1>2 DEF AfterSeat, Runner
    <2>2. runner[r].seat + 1 \in MSeats
        BY <1>0, <1>2, MatchAssumption DEF MSeats
    <2>3. p \in Runner /\ p.pc = "starting" /\ p.agents = runner[r].agents
        BY <1>0, <2>1, <2>2 DEF Runner, RunnerPc
    <2> QED BY <1>0, <2>3 DEF RunnerFor
<1> QED BY <1>1, <1>2

\* A step that leaves the game alone.
LEMMA GameStays ==
    ASSUME MatchInv, UNCHANGED table
    PROVE  TableIsSound' /\ GameGoesOn(table, table')
BY DEF MatchInv, TableIsSound, GameGoesOn

\* StartSeat: a human's seat is passed by, an agent's is launched.
LEMMA StartSeatKeeps ==
    ASSUME MatchInv, NEW r \in Runners, StartSeat(r)
    PROVE  MatchInv'
<1>0. StatusFor(status, table) /\ StatusFor(archive, table) /\ MatchTypes
    BY DEF MatchInv
<1>1. UNCHANGED <<table, pending, spaces, server, failedReads, faults>>
    BY DEF StartSeat
<1>2. MatchTypes' /\ TableIsSound' /\ GameGoesOn(table, table')
    BY <1>0, <1>1, GameStays DEF MatchTypes
<1>3. CASE runner[r].seat \in HumanSeats
    <2>1. PICK p : p = AfterSeat(r)
        OBVIOUS
    <2>2. RunnerFor(p, table) /\ p.pc \in {"loop", "starting"}
        BY <2>1, AfterSeatIsSound
    <2>3. runner' = [runner EXCEPT ![r] = p] /\ UNCHANGED <<status, archive>>
        BY <1>3, <2>1 DEF StartSeat
    <2>4. RunnerFor(p, table') /\ StatusFor(status', table') /\ StatusFor(archive', table')
        BY <1>0, <1>1, <2>2, <2>3
    <2> QED BY <1>2, <2>2, <2>3, <2>4, RunnerStepKeeps
<1>4. CASE runner[r].seat \notin HumanSeats
    <2>1. Recorded(set_seat_status(status, runner[r].seat, "starting")) /\ Goto(r, "launching")
        BY <1>4 DEF StartSeat
    <2>2. runner[r].seat \in MSeats /\ runner[r].seat \in AgentSeats
        BY <1>4, RunnerBefore DEF AgentSeats
    <2>3. "starting" \in AgentSeatStatusKind /\ "launching" \in RunnerPc \ {"none", "lost"}
        BY DEF AgentSeatStatusKind, RunnerPc
    <2>4. StatusFor(set_seat_status(status, runner[r].seat, "starting"), table)
        BY <1>0, <2>2, <2>3, SeatStatusIsFor
    <2>5. StatusFor(status', table) /\ StatusFor(archive', table)
        BY <1>1, <1>2, <2>1, <2>4, RecordedIsFor
    <2> QED BY <1>1, <1>2, <2>1, <2>2, <2>3, <2>5, RunnerGoesTo
<1> QED BY <1>3, <1>4

\* A launch that failed: the match is aborted, the agents are finished.
LEMMA LaunchFailedKeeps ==
    ASSUME MatchInv, NEW r \in Runners, runner[r].pc = "launching", NEW blamed \in BOOLEAN,
           LaunchFailed(r, blamed), UNCHANGED <<table, server, failedReads>>,
           pending' \subseteq AgentSeats,
           spaces' \in [MSeats -> {"none", "present", "deleted"}]
    PROVE  MatchInv'
<1>0. /\ RunnerFor(runner[r], table) /\ runner[r] \in Runner /\ table \in Table
      /\ runner[r].seat \in MSeats /\ runner[r].seen \in 0..(LastVersion + 1)
      /\ runner[r].then \in RunnerPc /\ runner[r].pc \in RunnerPc
      /\ runner = [q \in Runners |-> runner[q]]
    BY RunnerBefore
<1>1. StatusFor(status, table) /\ MatchTypes
    BY DEF MatchInv
<1>2. runner[r].seat \in AgentSeats
    BY <1>0 DEF RunnerFor
<1>3. faults' \subseteq AgentSeats
    BY <1>1, <1>2 DEF LaunchFailed, MatchTypes
<1>4. MatchTypes' /\ TableIsSound' /\ GameGoesOn(table, table')
    BY <1>1, <1>3, GameStays DEF MatchTypes
<1>5. "failed" \in AgentSeatStatusKind /\ "aborting" \in RunnerPc \ {"none", "lost"}
      /\ "finishing" \in RunnerPc
    BY DEF AgentSeatStatusKind, RunnerPc
<1>6. StatusFor(set_seat_status(status, runner[r].seat, "failed"), table)
    BY <1>0, <1>1, <1>5, SeatStatusIsFor
<1>7. Recorded(set_seat_status(status, runner[r].seat, "failed"))
    BY DEF LaunchFailed
<1>8. StatusFor(status', table) /\ StatusFor(archive', table)
    BY <1>4, <1>6, <1>7, RecordedIsFor
<1>9. runner' = [runner EXCEPT
          ![r] = MovedTo(runner[r], "aborting", runner[r].seat, runner[r].seen, "finishing")]
    BY <1>0 DEF LaunchFailed, Runner, MovedTo
<1> QED BY <1>0, <1>4, <1>5, <1>8, <1>9, RunnerElsewhere

\* start_agent: the seat has its agent, or the launch failed.
LEMMA StartAgentKeeps ==
    ASSUME MatchInv, NEW r \in Runners, start_agent(r)
    PROVE  MatchInv'
<1>0. /\ RunnerFor(runner[r], table) /\ runner[r] \in Runner
      /\ runner[r].seat \in MSeats /\ runner[r].seat \in AgentSeats
    BY RunnerBefore DEF start_agent, RunnerFor
<1>1. StatusFor(status, table) /\ MatchTypes
    BY DEF MatchInv
<1>2. UNCHANGED <<table, server, failedReads>> /\ pending' \subseteq AgentSeats
      /\ runner[r].pc = "launching"
    BY <1>1 DEF start_agent, MatchTypes
<1>3. /\ spaces' \in {spaces, [spaces EXCEPT ![runner[r].seat] = "present"]}
      /\ spaces' \in [MSeats -> {"none", "present", "deleted"}]
    <2>1. spaces' \in {spaces, [spaces EXCEPT ![runner[r].seat] = "present"]}
        BY DEF start_agent
    <2>2. [spaces EXCEPT ![runner[r].seat] = "present"] \in [MSeats -> {"none", "present", "deleted"}]
        BY <1>1 DEF MatchTypes
    <2> QED BY <1>1, <2>1, <2>2 DEF MatchTypes
<1>4. CASE LaunchFailed(r, TRUE) \/ LaunchFailed(r, FALSE)
    BY <1>2, <1>3, <1>4, LaunchFailedKeeps
<1>5. CASE /\ Recorded(set_seat_status(status, runner[r].seat, "ready"))
           /\ runner' = [runner EXCEPT ![r] =
                  [AfterSeat(r) EXCEPT !.agents = @ \cup {runner[r].seat}]]
           /\ UNCHANGED faults
    <2>1. PICK q : q = AfterSeat(r)
        OBVIOUS
    <2>2. RunnerFor(q, table) /\ q.pc \in {"loop", "starting"} /\ q.agents = runner[r].agents
        BY <2>1, AfterSeatIsSound
    <2>3. PICK p : p = [q EXCEPT !.agents = q.agents \cup {runner[r].seat}]
        OBVIOUS
    <2>4. AgentSeats \subseteq MSeats
        BY DEF AgentSeats
    <2>5. p \in Runner /\ p.pc = q.pc /\ p.agents = q.agents \cup {runner[r].seat}
        BY <1>0, <2>2, <2>3, <2>4 DEF Runner, RunnerFor
    <2>6. RunnerFor(p, table)
        BY <1>0, <2>2, <2>5 DEF RunnerFor
    <2>7. runner' = [runner EXCEPT ![r] = p]
        BY <1>5, <2>1, <2>3
    <2>8. MatchTypes' /\ TableIsSound' /\ GameGoesOn(table, table')
        BY <1>1, <1>2, <1>3, <1>5, GameStays DEF MatchTypes
    <2>9. "ready" \in AgentSeatStatusKind
        BY DEF AgentSeatStatusKind
    <2>10. StatusFor(set_seat_status(status, runner[r].seat, "ready"), table)
        BY <1>0, <1>1, <2>9, SeatStatusIsFor
    <2>11. StatusFor(status', table') /\ StatusFor(archive', table')
        BY <1>2, <1>5, <2>8, <2>10, RecordedIsFor
    <2>12. RunnerFor(p, table') /\ p.pc \notin {"none", "lost"}
        BY <1>2, <2>2, <2>5, <2>6
    <2> QED BY <2>7, <2>8, <2>11, <2>12, RunnerStepKeeps
<1> QED BY <1>4, <1>5 DEF start_agent

\* A read of the game fails or not; the count of failures stays in bounds.
LEMMA ReadsInBounds ==
    ASSUME MatchInv, GameReadOk \/ GameReadFails
    PROVE  failedReads' \in 0..ReadFaults
BY MatchAssumption DEF MatchInv, MatchTypes, GameReadOk, GameReadFails

\* A runner that returns drops its agents.
LEMMA GoneKeeps ==
    ASSUME MatchInv, NEW r \in Runners, Gone(r), UNCHANGED table,
           StatusFor(status', table), StatusFor(archive', table), MatchTypes'
    PROVE  MatchInv'
<1>0. /\ RunnerFor(runner[r], table) /\ runner[r] \in Runner
      /\ runner = [q \in Runners |-> runner[q]]
    BY RunnerBefore
<1>1. PICK p : p = [runner[r] EXCEPT !.pc = "done", !.agents = {}]
    OBVIOUS
<1>2. p \in Runner /\ p.pc = "done" /\ p.agents = {}
    BY <1>0, <1>1 DEF Runner, RunnerPc
<1>3. RunnerFor(p, table')
    BY <1>2 DEF RunnerFor
<1>4. runner' = [runner EXCEPT ![r] = p]
    BY <1>0, <1>1 DEF Gone, Runner
<1>5. TableIsSound' /\ GameGoesOn(table, table')
    BY GameStays
<1>6. StatusFor(status', table') /\ StatusFor(archive', table') /\ p.pc \notin {"none", "lost"}
    BY <1>2
<1> QED BY <1>3, <1>4, <1>5, <1>6, RunnerStepKeeps

\* One turn of the loop.
LEMMA LoopKeeps ==
    ASSUME MatchInv, NEW r \in Runners, Loop(r)
    PROVE  MatchInv'
<1>0. /\ RunnerFor(runner[r], table) /\ runner[r] \in Runner /\ table \in Table
      /\ runner[r].seat \in MSeats /\ runner[r].seen \in 0..(LastVersion + 1)
      /\ runner[r].then \in RunnerPc /\ runner[r].pc \in RunnerPc
      /\ runner = [q \in Runners |-> runner[q]]
    BY RunnerBefore
<1>1. StatusFor(status, table) /\ MatchTypes /\ TableIsSound
    BY DEF MatchInv
<1>2. UNCHANGED <<table, pending, spaces, server, faults>> /\ runner[r].pc = "loop"
    BY DEF Loop
<1>3. failedReads' \in 0..ReadFaults
    BY ReadsInBounds DEF Loop
<1>4. MatchTypes' /\ GameGoesOn(table, table')
    BY <1>1, <1>2, <1>3, GameStays DEF MatchTypes
<1>5. table.current \in MSeats /\ table.version \in 0..(LastVersion + 1)
    BY <1>0 DEF Table
<1>6. "waiting_for_human" \in AgentSeatStatusKind /\ "thinking" \in AgentSeatStatusKind
    BY DEF AgentSeatStatusKind
<1>7. ASSUME NEW new, StatusFor(new, table), Recorded(new)
      PROVE  StatusFor(status', table) /\ StatusFor(archive', table)
    BY <1>2, <1>4, <1>7, RecordedIsFor
<1>8. StatusFor(update_public(status), table)
    BY <1>1, PublicStatusIsFor
<1>9. CASE Recorded(fail_agents(status)) /\ Gone(r)
    <2>1. StatusFor(fail_agents(status), table)
        BY <1>1, FailedStatusIsFor
    <2> QED BY <1>2, <1>4, <1>7, <1>9, <2>1, GoneKeeps
<1>10. CASE Recorded(update_public(status)) /\ Goto(r, "finishing")
    <2>1. "finishing" \in RunnerPc \ {"none", "lost"}
        BY DEF RunnerPc
    <2> QED BY <1>2, <1>4, <1>7, <1>8, <1>10, <2>1, RunnerGoesTo
<1>11. CASE Recorded(set_seat_status(update_public(status), table.current, "waiting_for_human"))
            /\ UNCHANGED runner
    <2>1. StatusFor(set_seat_status(update_public(status), table.current, "waiting_for_human"), table)
        BY <1>5, <1>6, <1>8, SeatStatusIsFor
    <2>2. "loop" \in RunnerPc \ {"none", "lost"}
        BY DEF RunnerPc
    <2>3. Goto(r, "loop")
        BY <1>0, <1>2, <1>11 DEF Goto, Runner
    <2> QED BY <1>2, <1>4, <1>7, <1>11, <2>1, <2>2, <2>3, RunnerGoesTo
<1>12. CASE /\ table.current \in runner[r].agents
            /\ Recorded(set_seat_status(update_public(status), table.current, "thinking"))
            /\ runner' = [runner EXCEPT ![r].pc = "turn", ![r].seat = table.current,
                                        ![r].seen = table.version]
    <2>1. StatusFor(set_seat_status(update_public(status), table.current, "thinking"), table)
        BY <1>5, <1>6, <1>8, SeatStatusIsFor
    <2>2. "turn" \in RunnerPc \ {"none", "lost"}
        BY DEF RunnerPc
    <2>3. table.current \in AgentSeats
        BY <1>0, <1>12 DEF RunnerFor
    <2>4. runner' = [runner EXCEPT
              ![r] = MovedTo(runner[r], "turn", table.current, table.version, runner[r].then)]
        BY <1>0, <1>12 DEF Runner, MovedTo
    <2>5. StatusFor(status', table) /\ StatusFor(archive', table)
        BY <1>7, <1>12, <2>1
    <2> QED BY <1>0, <1>2, <1>4, <1>5, <2>2, <2>3, <2>4, <2>5, RunnerElsewhere
<1>13. \/ Recorded(fail_agents(status)) /\ Gone(r)
       \/ Recorded(update_public(status)) /\ Goto(r, "finishing")
       \/ /\ Recorded(set_seat_status(update_public(status), table.current, "waiting_for_human"))
          /\ UNCHANGED runner
       \/ /\ table.current \in runner[r].agents
          /\ Recorded(set_seat_status(update_public(status), table.current, "thinking"))
          /\ runner' = [runner EXCEPT ![r].pc = "turn", ![r].seat = table.current,
                                      ![r].seen = table.version]
    BY Zenon DEF Loop
<1> QED BY <1>9, <1>10, <1>11, <1>12, <1>13

\* A turn or its verification fails: the seat is to resign.
TurnFailed(r) ==
    /\ Recorded(set_seat_status(status, runner[r].seat, "failed"))
    /\ runner' = [runner EXCEPT ![r].pc = "resigning", ![r].then = "loop"]
    /\ faults' = faults \cup {runner[r].seat}

\* The two ways in which that happens are one step.
LEMMA TurnFailedKeeps ==
    ASSUME MatchInv, NEW r \in Runners, runner[r].pc \in {"turn", "verify"},
           TurnFailed(r), failedReads' \in 0..ReadFaults,
           UNCHANGED <<table, pending, spaces, server>>
    PROVE  MatchInv'
<1>0. /\ RunnerFor(runner[r], table) /\ runner[r] \in Runner /\ table \in Table
      /\ runner[r].seat \in MSeats /\ runner[r].seen \in 0..(LastVersion + 1)
      /\ runner[r].then \in RunnerPc /\ runner[r].pc \in RunnerPc
      /\ runner = [q \in Runners |-> runner[q]]
    BY RunnerBefore
<1>1. StatusFor(status, table) /\ MatchTypes
    BY DEF MatchInv
<1>2. runner[r].seat \in AgentSeats
    BY <1>0 DEF RunnerFor
<1>3. MatchTypes' /\ GameGoesOn(table, table')
    BY <1>1, <1>2, GameStays DEF MatchTypes, TurnFailed
<1>4. "failed" \in AgentSeatStatusKind /\ "resigning" \in RunnerPc \ {"none", "lost"}
      /\ "loop" \in RunnerPc
    BY DEF AgentSeatStatusKind, RunnerPc
<1>5. StatusFor(set_seat_status(status, runner[r].seat, "failed"), table)
    BY <1>0, <1>1, <1>4, SeatStatusIsFor
<1>6. StatusFor(status', table) /\ StatusFor(archive', table)
    BY <1>3, <1>5, RecordedIsFor DEF TurnFailed
<1>7. runner' = [runner EXCEPT
          ![r] = MovedTo(runner[r], "resigning", runner[r].seat, runner[r].seen, "loop")]
    BY <1>0 DEF Runner, MovedTo, TurnFailed
<1> QED BY <1>0, <1>3, <1>4, <1>6, <1>7, RunnerElsewhere

\* The end of a turn.
LEMMA TurnEndsKeeps ==
    ASSUME MatchInv, NEW r \in Runners, NEW ok \in BOOLEAN, TurnEnds(r, ok)
    PROVE  MatchInv'
<1>0. RunnerFor(runner[r], table) /\ runner[r].pc = "turn"
      /\ UNCHANGED <<table, pending, spaces, server, failedReads>>
    BY RunnerBefore DEF TurnEnds
<1>1. StatusFor(status, table) /\ StatusFor(archive, table) /\ MatchTypes
    BY DEF MatchInv
<1>2. CASE ok
    <2>1. Goto(r, "verify") /\ UNCHANGED <<status, archive, faults>>
        BY <1>2 DEF TurnEnds
    <2>2. "verify" \in RunnerPc \ {"none", "lost"} /\ runner[r].seat \in AgentSeats
        BY <1>0 DEF RunnerPc, RunnerFor
    <2>3. MatchTypes' /\ StatusFor(status', table) /\ StatusFor(archive', table)
        BY <1>0, <1>1, <2>1 DEF MatchTypes
    <2> QED BY <1>0, <2>1, <2>2, <2>3, RunnerGoesTo
<1>3. CASE ~ok
    <2>1. TurnFailed(r)
        BY <1>3 DEF TurnEnds, TurnFailed
    <2>2. failedReads' \in 0..ReadFaults
        BY <1>0, <1>1 DEF MatchTypes
    <2> QED BY <1>0, <2>1, <2>2, TurnFailedKeeps
<1> QED BY <1>2, <1>3

\* The verification of a turn.
LEMMA VerifyKeeps ==
    ASSUME MatchInv, NEW r \in Runners, Verify(r)
    PROVE  MatchInv'
<1>0. RunnerFor(runner[r], table) /\ runner[r].pc = "verify" /\ runner[r].seat \in MSeats
      /\ UNCHANGED <<table, pending, spaces, server>>
    BY RunnerBefore DEF Verify
<1>1. StatusFor(status, table) /\ MatchTypes /\ TableIsSound
    BY DEF MatchInv
<1>2. failedReads' \in 0..ReadFaults
    BY ReadsInBounds DEF Verify
<1>3. CASE /\ Recorded(set_seat_status(update_public(status), runner[r].seat, "ready"))
           /\ Goto(r, "loop") /\ UNCHANGED faults
    <2>1. StatusFor(update_public(status), table)
        BY <1>1, PublicStatusIsFor
    <2>2. "ready" \in AgentSeatStatusKind /\ "loop" \in RunnerPc \ {"none", "lost"}
        BY DEF AgentSeatStatusKind, RunnerPc
    <2>3. StatusFor(set_seat_status(update_public(status), runner[r].seat, "ready"), table)
        BY <1>0, <2>1, <2>2, SeatStatusIsFor
    <2>4. MatchTypes' /\ GameGoesOn(table, table')
        BY <1>0, <1>1, <1>2, <1>3, GameStays DEF MatchTypes
    <2>5. StatusFor(status', table) /\ StatusFor(archive', table)
        BY <1>0, <1>3, <2>3, <2>4, RecordedIsFor
    <2> QED BY <1>0, <1>3, <2>2, <2>4, <2>5, RunnerGoesTo
<1>4. CASE TurnFailed(r)
    BY <1>0, <1>2, <1>4, TurnFailedKeeps
<1> QED BY <1>3, <1>4 DEF Verify, TurnFailed

\* abort_match and resign send the runner on, or to act for the seat to move.
LEMMA AbortKeeps ==
    ASSUME MatchInv, NEW r \in Runners, abort_match(r) \/ resign(r)
    PROVE  MatchInv'
<1>0. /\ RunnerFor(runner[r], table) /\ runner[r] \in Runner /\ table \in Table
      /\ runner[r].seat \in MSeats /\ runner[r].seen \in 0..(LastVersion + 1)
      /\ runner[r].then \in RunnerPc /\ runner[r].pc \in RunnerPc
      /\ runner = [q \in Runners |-> runner[q]]
    BY RunnerBefore
<1>1. StatusFor(status, table) /\ StatusFor(archive, table) /\ MatchTypes
    BY DEF MatchInv
<1>2. UNCHANGED <<table, status, archive, pending, spaces, server, faults>>
    BY DEF abort_match, resign
<1>3. failedReads' \in 0..ReadFaults
    BY ReadsInBounds DEF abort_match, resign
<1>4. MatchTypes' /\ StatusFor(status', table) /\ StatusFor(archive', table) /\ UNCHANGED table
    BY <1>1, <1>2, <1>3 DEF MatchTypes
<1>5. table.current \in MSeats /\ table.version \in 0..(LastVersion + 1)
    BY <1>0 DEF Table
<1>6. runner[r].then \in {"done", "finishing", "loop"}
    BY <1>0 DEF abort_match, resign, RunnerFor
<1>7. CASE Goto(r, runner[r].then)
    <2>1. runner[r].then \in RunnerPc \ {"none", "lost"}
        BY <1>0, <1>6
    <2> QED BY <1>4, <1>6, <1>7, <2>1, RunnerGoesTo
<1>8. CASE runner' = [runner EXCEPT ![r].pc = "resigning", ![r].seat = table.current]
    <2>1. runner' = [runner EXCEPT ![r] =
              MovedTo(runner[r], "resigning", table.current, runner[r].seen, runner[r].then)]
        BY <1>0, <1>8 DEF Runner, MovedTo
    <2>2. "resigning" \in RunnerPc \ {"none", "lost"}
        BY DEF RunnerPc
    <2> QED BY <1>0, <1>4, <1>5, <1>6, <2>1, <2>2, RunnerElsewhere
<1>9. CASE /\ table.current = runner[r].seat
           /\ runner' = [runner EXCEPT ![r].pc = "acting", ![r].seen = table.version]
    <2>1. runner' = [runner EXCEPT ![r] =
              MovedTo(runner[r], "acting", runner[r].seat, table.version, runner[r].then)]
        BY <1>0, <1>9 DEF Runner, MovedTo
    <2>2. "acting" \in RunnerPc \ {"none", "lost"} /\ table.version <= table.version
        BY <1>5 DEF RunnerPc
    <2>3. table.current = runner[r].seat
        BY <1>9
    <2> QED BY <1>0, <1>4, <1>5, <1>6, <2>1, <2>2, <2>3, RunnerElsewhere
<1> QED BY <1>7, <1>8, <1>9 DEF abort_match, resign

\* The status after a resignation was accepted.
ResignedStatus == [status EXCEPT !.version = table.version + 1, !.orchestration = "finished"]

\* The resignation, if the game is still where it was read.
LEMMA ResignActKeeps ==
    ASSUME MatchInv, NEW r \in Runners, ResignAct(r)
    PROVE  MatchInv'
<1>0. /\ RunnerFor(runner[r], table) /\ runner[r] \in Runner /\ table \in Table
      /\ runner[r].then \in RunnerPc /\ runner = [q \in Runners |-> runner[q]]
    BY RunnerBefore
<1>1. StatusFor(status, table) /\ StatusFor(archive, table) /\ MatchTypes /\ TableIsSound
    BY DEF MatchInv
<1>2. Goto(r, runner[r].then) /\ UNCHANGED <<pending, spaces, server, failedReads, faults>>
    BY DEF ResignAct
<1>3. MatchTypes'
    BY <1>1, <1>2 DEF MatchTypes
<1>4. runner[r].then \in {"done", "finishing", "loop"}
    BY <1>0 DEF ResignAct, RunnerFor
<1>5. CASE UNCHANGED <<table, status, archive>>
    <2>1. runner[r].then \in RunnerPc \ {"none", "lost"}
        BY <1>0, <1>4
    <2>2. StatusFor(status', table) /\ StatusFor(archive', table) /\ UNCHANGED table
        BY <1>1, <1>5
    <2> QED BY <1>2, <1>3, <1>4, <2>1, <2>2, RunnerGoesTo
<1>6. CASE /\ table.phase = "active"
           /\ table' = [table EXCEPT !.phase = "finished", !.version = @ + 1,
                                     !.by = "orchestrator"]
           /\ Recorded(ResignedStatus)
    <2>1. PICK n : n = table.version + 1
        OBVIOUS
    <2>2. n \in 0..(LastVersion + 1) /\ n \in Nat
        BY <1>0, <1>1, <1>6, <2>1, MatchAssumption DEF TableIsSound, Table
    <2>3. /\ table' \in Table /\ table'.phase = "finished"
          /\ table'.version = n
        <3>1. PICK u : u = [table EXCEPT !.phase = "finished", !.version = n,
                                        !.by = "orchestrator"]
            OBVIOUS
        <3>2. u \in Table /\ u.phase = "finished" /\ u.version = n
            BY <1>0, <2>2, <3>1 DEF Table
        <3>3. table' = u
            BY <1>0, <1>6, <2>1, <3>1 DEF Table
        <3> QED BY <3>2, <3>3
    <2>4. TableIsSound' /\ GameGoesOn(table, table')
        BY <1>0, <1>6, <2>1, <2>3 DEF TableIsSound, GameGoesOn
    <2>5. PICK new : new = ResignedStatus
        OBVIOUS
    <2>6. new \in MatchStatus /\ new.orchestration = "finished" /\ new.version = n
        <3>1. new = [status EXCEPT !.version = n, !.orchestration = "finished"]
            BY <2>1, <2>5 DEF ResignedStatus
        <3>2. status \in MatchStatus /\ "finished" \in AgentMatchLifecycle
            BY <1>1 DEF StatusFor, AgentMatchLifecycle
        <3> QED BY <2>2, <3>1, <3>2 DEF MatchStatus
    <2>7. new.version <= table'.version
        BY <2>2, <2>3, <2>6
    <2>8. StatusFor(new, table')
        BY <2>3, <2>6, <2>7 DEF StatusFor
    <2>9. StatusFor(status', table') /\ StatusFor(archive', table')
        BY <1>6, <2>4, <2>5, <2>8, RecordedIsFor
    <2>10. PICK p : p = [runner[r] EXCEPT !.pc = runner[r].then]
        OBVIOUS
    <2>11. p \in Runner /\ p.pc = runner[r].then /\ p.agents = runner[r].agents
        BY <1>0, <2>10 DEF Runner
    <2>12. RunnerFor(p, table') /\ p.pc \notin {"none", "lost"}
        BY <1>0, <1>4, <2>11 DEF RunnerFor
    <2>13. runner' = [runner EXCEPT ![r] = p]
        BY <1>2, <2>10 DEF Goto
    <2> QED BY <1>3, <2>4, <2>9, <2>12, <2>13, RunnerStepKeeps
<1> QED BY <1>5, <1>6 DEF ResignAct, ResignedStatus

\* The end of a runner: its agents are finished.
LEMMA FinishAgentsKeeps ==
    ASSUME MatchInv, NEW r \in Runners, finish_agents(r)
    PROVE  MatchInv'
<1>1. StatusFor(status, table) /\ MatchTypes
    BY DEF MatchInv
<1>2. UNCHANGED <<table, pending, server, failedReads, faults>> /\ Gone(r)
    BY DEF finish_agents
<1>3. spaces' \in [MSeats -> {"none", "present", "deleted"}]
    <2>1. PICK lost : spaces' = [s \in MSeats |-> IF s \in lost THEN "deleted" ELSE spaces[s]]
        BY DEF finish_agents
    <2> QED BY <1>1, <2>1 DEF MatchTypes
<1>4. MatchTypes' /\ GameGoesOn(table, table')
    BY <1>1, <1>2, <1>3, GameStays DEF MatchTypes
<1>5. PICK c : c = [s \in MSeats |-> IF status.seats[s] = "failed" THEN "failed" ELSE "finished"]
    OBVIOUS
<1>6. c \in [MSeats -> AgentSeatStatusKind]
    BY <1>5 DEF AgentSeatStatusKind
<1>7. StatusFor([status EXCEPT !.seats = c], table)
    BY <1>1, <1>6, SeatsStatusIsFor
<1>8. Recorded([status EXCEPT !.seats = c])
    BY <1>5 DEF finish_agents
<1>9. StatusFor(status', table) /\ StatusFor(archive', table)
    BY <1>2, <1>4, <1>7, <1>8, RecordedIsFor
<1> QED BY <1>2, <1>4, <1>9, GoneKeeps

\* The two statuses a match begins and is forgotten with.
LEMMA FirstStatuses ==
    /\ initial_status \in MatchStatus /\ initial_status.orchestration = "active"
    /\ initial_status.version = 0
    /\ NoStatus \in MatchStatus /\ NoStatus.orchestration = "interrupted"
    /\ NoStatus.version = 0 /\ NoStatus.known = FALSE
<1>1. [s \in MSeats |-> initial_seat_status(s)] \in [MSeats -> AgentSeatStatusKind]
    BY DEF initial_seat_status, AgentSeatStatusKind
<1>2. [s \in MSeats |-> "queued"] \in [MSeats -> AgentSeatStatusKind]
    BY DEF AgentSeatStatusKind
<1>3. 0 \in 0..(LastVersion + 1)
    BY MatchAssumption
<1> QED BY <1>1, <1>2, <1>3 DEF initial_status, NoStatus, MatchStatus, AgentMatchLifecycle

\* They are for any game.
LEMMA FirstStatusesAreFor ==
    ASSUME NEW t \in Table
    PROVE  StatusFor(initial_status, t) /\ StatusFor(NoStatus, t)
<1>1. 0 <= t.version
    BY DEF Table
<1> QED BY <1>1, FirstStatuses DEF StatusFor

\* The request: a new runner, or an answer without one.
LEMMA CreateMatchKeeps ==
    ASSUME MatchInv, NEW r \in Runners, create_agent_match(r)
    PROVE  MatchInv'
<1>0. UNCHANGED <<table, spaces, server, failedReads, faults>> /\ pending' = AgentSeats
    BY DEF create_agent_match
<1>1. StatusFor(status, table) /\ StatusFor(archive, table) /\ MatchTypes /\ table \in Table
    BY DEF MatchInv, TableIsSound
<1>2. MatchTypes'
    BY <1>0, <1>1 DEF MatchTypes
<1>3. "setup" \in RunnerPc \ {"none", "lost"} /\ "done" \in RunnerPc \ {"none", "lost"}
    BY DEF RunnerPc
<1>4. CASE status' = initial_status /\ archive' = initial_status /\ Goto(r, "setup")
    <2>1. StatusFor(status', table) /\ StatusFor(archive', table)
        BY <1>1, <1>4, FirstStatusesAreFor
    <2> QED BY <1>0, <1>2, <1>3, <1>4, <2>1, RunnerGoesTo
<1>5. CASE Goto(r, "done") /\ UNCHANGED <<status, archive>>
    <2>1. StatusFor(status', table) /\ StatusFor(archive', table)
        BY <1>1, <1>5
    <2> QED BY <1>0, <1>2, <1>3, <1>5, <2>1, RunnerGoesTo
<1> QED BY <1>4, <1>5 DEF create_agent_match, Goto

\* A move of a player, or for one.
LEMMA GameMoveKeeps ==
    ASSUME MatchInv, NEW ends \in BOOLEAN, GameMove(ends)
    PROVE  MatchInv'
<1>0. StatusFor(status, table) /\ StatusFor(archive, table) /\ MatchTypes /\ TableIsSound
      /\ RunnersAreSound /\ ActiveHasARunner /\ table \in Table
    BY DEF MatchInv, TableIsSound
<1>1. UNCHANGED <<status, archive, pending, spaces, runner, server, failedReads, faults>>
      /\ table.phase = "active" /\ (ends \/ table.version < LastVersion)
    BY DEF GameMove
<1>2. PICK n, c : n = table.version + 1 /\ c = IF ends THEN table.current ELSE MNext(table.current)
    OBVIOUS
<1>3. /\ n \in 0..(LastVersion + 1) /\ (~ends => n <= LastVersion)
    BY <1>0, <1>1, <1>2, MatchAssumption DEF TableIsSound, Table
<1>4. c \in MSeats
    BY <1>0, <1>2, MatchAssumption DEF Table, MNext, MSeats
<1>5. PICK u : u = [version |-> n, current |-> c,
                    phase |-> IF ends THEN "finished" ELSE "active",
                    by |-> IF ends THEN "player" ELSE "nobody"]
    OBVIOUS
<1>6. u \in Table /\ u.version = n /\ (u.phase = "active" => ~ends)
    BY <1>3, <1>4, <1>5 DEF Table
<1>7. table' = u
    BY <1>2, <1>5 DEF GameMove
<1>8. TableIsSound' /\ GameGoesOn(table, table')
    BY <1>0, <1>1, <1>2, <1>3, <1>6, <1>7 DEF TableIsSound, GameGoesOn
<1>9. StatusFor(status, table') /\ StatusFor(archive, table')
    BY <1>0, <1>8, StatusGoesOn
<1>10. \A q \in Runners : RunnerFor(runner[q], table')
    BY <1>0, <1>8, RunnerGoesOn DEF RunnersAreSound
<1>11. RunnersAreSound'
    BY <1>0, <1>1, <1>10 DEF RunnersAreSound
<1>12. ActiveHasARunner' /\ MatchTypes'
    BY <1>0, <1>1 DEF ActiveHasARunner, MatchTypes
<1> QED BY <1>1, <1>8, <1>9, <1>11, <1>12 DEF MatchInv

\* The two runners that are not at work.
LEMMA IdleRunners ==
    ASSUME NEW t
    PROVE  RunnerFor(NoRunner, t) /\ RunnerFor([NoRunner EXCEPT !.pc = "lost"], t)
<1>1. 1 \in MSeats /\ 0 \in 0..(LastVersion + 1)
    BY MatchAssumption DEF MSeats
<1>2. PICK p : p = [NoRunner EXCEPT !.pc = "lost"]
    OBVIOUS
<1>3. /\ NoRunner \in Runner /\ NoRunner.pc = "none" /\ NoRunner.agents = {}
      /\ p \in Runner /\ p.pc = "lost" /\ p.agents = {}
    BY <1>1, <1>2 DEF NoRunner, Runner, RunnerPc
<1> QED BY <1>2, <1>3 DEF RunnerFor

\* The server dies with its runners.
LEMMA CrashKeeps ==
    ASSUME MatchInv, Crash
    PROVE  MatchInv'
<1>0. StatusFor(archive, table) /\ MatchTypes /\ TableIsSound /\ table \in Table
    BY DEF MatchInv, TableIsSound
<1>1. /\ UNCHANGED <<table, archive, spaces, failedReads, faults>>
      /\ server' = FALSE /\ status' = NoStatus /\ pending' = {}
      /\ runner' = [r \in Runners |-> IF runner[r].pc = "none" THEN NoRunner
                                      ELSE [NoRunner EXCEPT !.pc = "lost"]]
    BY DEF Crash
<1>2. runner' = [r \in Runners |-> runner'[r]]
      /\ \A r \in Runners : RunnerFor(runner'[r], table')
    BY <1>1, IdleRunners
<1>3. RunnersAreSound'
    BY <1>2 DEF RunnersAreSound
<1>4. StatusFor(status', table') /\ StatusFor(archive', table')
    BY <1>0, <1>1, FirstStatusesAreFor
<1>5. ActiveHasARunner'
    BY <1>1, FirstStatuses DEF ActiveHasARunner
<1>6. TableIsSound' /\ MatchTypes'
    BY <1>0, <1>1 DEF TableIsSound, MatchTypes
<1> QED BY <1>3, <1>4, <1>5, <1>6 DEF MatchInv

\* The server starts again: what was active is interrupted.
LEMMA RestoreKeeps ==
    ASSUME MatchInv, manager_restore
    PROVE  MatchInv'
<1>0. StatusFor(archive, table) /\ MatchTypes /\ TableIsSound /\ RunnersAreSound
    BY DEF MatchInv
<1>1. /\ UNCHANGED <<table, pending, spaces, runner, failedReads, faults>>
      /\ server' = TRUE /\ archive' = status'
      /\ status' = IF archive.known /\ archive.orchestration = "active"
                   THEN [fail_agents(archive) EXCEPT !.orchestration = "interrupted"]
                   ELSE archive
    BY DEF manager_restore
<1>2. StatusFor(status', table) /\ ~(status'.known /\ status'.orchestration = "active")
    <2>1. CASE archive.known /\ archive.orchestration = "active"
        <3>1. PICK st : st = fail_agents(archive)
            OBVIOUS
        <3>2. StatusFor(st, table)
            BY <1>0, <3>1, FailedStatusIsFor
        <3>3. PICK new : new = [st EXCEPT !.orchestration = "interrupted"]
            OBVIOUS
        <3>4. new \in MatchStatus /\ new.orchestration = "interrupted" /\ new.version = st.version
            BY <3>2, <3>3 DEF StatusFor, MatchStatus, AgentMatchLifecycle
        <3>5. status' = new
            BY <1>1, <2>1, <3>1, <3>3
        <3>6. StatusFor(new, table)
            BY <3>2, <3>4 DEF StatusFor
        <3> QED BY <3>4, <3>5, <3>6
    <2>2. CASE ~(archive.known /\ archive.orchestration = "active")
        BY <1>0, <1>1, <2>2
    <2> QED BY <2>1, <2>2
<1>3. StatusFor(status', table') /\ StatusFor(archive', table')
    BY <1>1, <1>2
<1>4. ActiveHasARunner'
    BY <1>2 DEF ActiveHasARunner
<1>5. TableIsSound' /\ MatchTypes' /\ RunnersAreSound'
    BY <1>0, <1>1 DEF TableIsSound, MatchTypes, RunnersAreSound
<1> QED BY <1>3, <1>4, <1>5 DEF MatchInv

\* The first state.
LEMMA MatchInitially == MatchInit => MatchInv
<1> SUFFICES ASSUME MatchInit PROVE MatchInv
    OBVIOUS
<1>1. table = [version |-> 0, current |-> 1, phase |-> "active", by |-> "nobody"]
    BY DEF MatchInit
<1>2. 1 \in MSeats /\ 0 \in 0..(LastVersion + 1) /\ 0 <= LastVersion
    BY MatchAssumption DEF MSeats
<1>3. TableIsSound /\ table \in Table
    BY <1>1, <1>2 DEF TableIsSound, Table
<1>4. MatchTypes
    BY MatchAssumption DEF MatchInit, MatchTypes
<1>5. RunnersAreSound
    BY IdleRunners DEF MatchInit, RunnersAreSound
<1>6. StatusFor(status, table) /\ StatusFor(archive, table)
    BY <1>3, FirstStatusesAreFor DEF MatchInit
<1>7. ActiveHasARunner
    BY FirstStatuses DEF MatchInit, ActiveHasARunner
<1> QED BY <1>3, <1>4, <1>5, <1>6, <1>7 DEF MatchInv

\* Every step keeps the invariant.
LEMMA MatchStep == MatchInv /\ [MatchNext]_matchVars => MatchInv'
<1> SUFFICES ASSUME MatchInv, [MatchNext]_matchVars PROVE MatchInv'
    OBVIOUS
<1>1. CASE UNCHANGED matchVars
    BY <1>1 DEF matchVars, MatchInv, TableIsSound, MatchTypes, RunnersAreSound, ActiveHasARunner
<1> QED BY <1>1, CreateMatchKeeps, SetupKeeps, StartSeatKeeps, StartAgentKeeps, LoopKeeps,
           TurnEndsKeeps, VerifyKeeps, AbortKeeps, ResignActKeeps, FinishAgentsKeeps,
           GameMoveKeeps, CrashKeeps, RestoreKeeps DEF MatchNext

\* Only ResignAct lets the orchestrator end a game, for the turn it has read.
LEMMA ResignationStep ==
    ASSUME MatchInv, [MatchNext]_matchVars, NEW r \in Runners,
           runner[r].pc = "acting", runner'[r].pc # "acting",
           table'.by = "orchestrator", table.by # "orchestrator"
    PROVE  table.version = runner[r].seen /\ table.current = runner[r].seat
<1>0. RunnerFor(runner[r], table) /\ runner = [q \in Runners |-> runner[q]]
    BY RunnerBefore
<1>1. ~UNCHANGED table
    OBVIOUS
<1>2. \A ends \in BOOLEAN : ~GameMove(ends)
    BY DEF GameMove
<1>3. PICK q \in Runners : ResignAct(q)
    BY <1>1, <1>2 DEF MatchNext, matchVars, create_agent_match, Setup, StartSeat, start_agent, Loop,
        TurnEnds, Verify, abort_match, resign, finish_agents, Crash, manager_restore
<1>4. runner' = [runner EXCEPT ![q].pc = runner[q].then]
    BY <1>3 DEF ResignAct, Goto
<1>5. q = r
    BY <1>0, <1>4
<1>6. table.phase = "active" /\ table.version = runner[r].seen
    BY <1>1, <1>3, <1>5 DEF ResignAct
<1> QED BY <1>0, <1>6 DEF RunnerFor

\* Only finish_agents deletes a workspace, and not that of a failed seat.
LEMMA WorkspaceStepKeepsFailed ==
    ASSUME MatchInv, [MatchNext]_matchVars, NEW s \in MSeats,
           spaces[s] = "present", spaces'[s] = "deleted"
    PROVE  status.seats[s] # "failed"
<1>0. spaces \in [MSeats -> {"none", "present", "deleted"}]
    BY DEF MatchInv, MatchTypes
<1>1. ~UNCHANGED spaces
    OBVIOUS
<1>2. \A r \in Runners : ~start_agent(r)
    <2> SUFFICES ASSUME NEW r \in Runners, start_agent(r) PROVE FALSE
        OBVIOUS
    <2>1. spaces' \in {spaces, [spaces EXCEPT ![runner[r].seat] = "present"]}
        BY DEF start_agent
    <2> QED BY <1>0, <2>1
<1>3. PICK r \in Runners : finish_agents(r)
    BY <1>1, <1>2 DEF MatchNext, matchVars, create_agent_match, Setup, StartSeat, Loop,
        TurnEnds, Verify, abort_match, resign, ResignAct, GameMove, Crash, manager_restore
<1>4. PICK lost \in SUBSET (runner[r].agents \ {q \in runner[r].agents : status.seats[q] = "failed"}) :
          spaces' = [q \in MSeats |-> IF q \in lost THEN "deleted" ELSE spaces[q]]
    BY <1>3 DEF finish_agents
<1> QED BY <1>4

\* For any number of seats, humans and runners, and through every failed read
\* or write, repeated request and restart: a match is reported finished only if
\* its game is, the report is never ahead of the game, one that is listed as
\* active has a runner here, a resignation is for the turn that was read, and a
\* failed seat keeps its workspace.
THEOREM MatchesAreSafe == MatchSpec => AgentMatchSafety
<1>1. MatchInv => MatchTypeOK /\ ReportedFinishedIsFinished /\ ActiveHasARunner
    <2> SUFFICES ASSUME MatchInv PROVE MatchTypeOK /\ ReportedFinishedIsFinished /\ ActiveHasARunner
        OBVIOUS
    <2>1. ReportedFinishedIsFinished
        BY DEF MatchInv, StatusFor, ReportedFinishedIsFinished
    <2>2. \A r \in Runners : runner[r] \in Runner
        BY RunnerBefore
    <2>3. runner \in [Runners -> Runner]
        BY <2>2 DEF MatchInv, RunnersAreSound
    <2>4. MatchTypeOK
        BY <2>3 DEF MatchInv, TableIsSound, StatusFor, MatchTypes, MatchTypeOK
    <2> QED BY <2>1, <2>4 DEF MatchInv
<1>2. MatchInv /\ [MatchNext]_matchVars =>
        [\A r \in Runners : runner[r].pc = "acting" /\ runner'[r].pc # "acting"
            /\ table'.by = "orchestrator" /\ table.by # "orchestrator" =>
                table.version = runner[r].seen /\ table.current = runner[r].seat]_matchVars
    BY ResignationStep
<1>3. MatchInv /\ [MatchNext]_matchVars =>
        [\A s \in MSeats : spaces[s] = "present" /\ spaces'[s] = "deleted" =>
            status.seats[s] # "failed"]_matchVars
    BY WorkspaceStepKeepsFailed
<1> QED BY <1>1, <1>2, <1>3, MatchInitially, MatchStep, PTL
        DEF MatchSpec, AgentMatchSafety, ResignationIsForTheTurnSeen, FailedSeatKeepsWorkspace

-----------------------------------------------------------------------------
(* The driver of an agent *)

Ended == {"pending", "terminated", "crashed"}

\* What the state of a driver says of its process, for a driver of kind k: a
\* handle stands for a process that was lost, a process is there or its state
\* is one that can have none.
DriverSound(d, k) ==
    /\ d \in Driver
    /\ d.handle # NoPid => k = "generic" /\ d.state = "ready" /\ d.process = NoPid
    /\ d.process # NoPid => d.state \notin Ended /\ (k = "native" => d.state # "ready")
    /\ k = "generic" /\ d.state = "ready" => d.process # NoPid \/ d.handle # NoPid
    /\ k = "generic" /\ d.state = "turn_running" => d.process # NoPid
    /\ d.buffer \in {NoPid, d.process}
    /\ k = "native" => d.buffer = NoPid
    /\ ~d.exists => d.process = NoPid

\* What a call in progress says of its driver, await by await.
CallSound(c, d, k) ==
    /\ c \in DriverCall
    /\ c.phase \in {"spawning", "reattaching"} => d.process = NoPid
    /\ c.phase = "spawning" =>
          /\ d.state \notin {"pending", "terminated"}
          /\ k = "native" \/ c.op = "start" => d.state \in {"starting", "turn_running"}
    /\ c.phase = "reattaching" => k = "generic" /\ d.state = "ready" /\ c.op = "resume"
    /\ c.phase \in {"writing", "reading"} => k = "generic" /\ d.state = "turn_running"
    /\ c.phase = "capturing" => k = "native"
    /\ c.phase \in {"capturing", "cancelling", "failing", "killing"} => d.process # NoPid
    /\ c.phase = "killing" => c.previous \notin Ended /\ (k = "native" => c.previous # "ready")
    /\ ~d.exists => c.phase = "idle"

\* What a checkpoint holds: a driver between two calls, without its process.
SavedSound(d, k) ==
    /\ d \in Driver
    /\ d.exists =>
          /\ d.process = NoPid /\ d.buffer = NoPid /\ d.state \notin Transient
          /\ k = "generic" => (d.state = "ready") = (d.handle # NoPid)
          /\ k = "native" => d.handle = NoPid

DriverTypes ==
    /\ kind \in {"generic", "native"} /\ cancelled \in BOOLEAN
    /\ procs \in [Pids -> ProcState] /\ orphans \subseteq Pids

DriverInv ==
    /\ DriverTypes /\ NoRunawayProcess
    /\ DriverSound(driver, kind) /\ CallSound(call, driver, kind) /\ SavedSound(saved, kind)

\* What every step keeps: the invariant, and the end of a terminated driver.
DriverKept ==
    /\ DriverInv'
    /\ driver.exists /\ driver.state = "terminated" /\ driver'.exists =>
          driver'.state = "terminated" /\ driver'.process = NoPid

\* No call is in progress.
LEMMA NoCallIsSound ==
    ASSUME NEW d, NEW k
    PROVE  CallSound(NoDriverCall, d, k)
<1>1. NoDriverCall \in DriverCall /\ NoDriverCall.phase = "idle"
    BY DEF NoDriverCall, DriverCall, DriverOp, DriverPhase, DriverLifecycleState
<1> QED BY <1>1 DEF CallSound

\* The driver that was never started, and none at all.
LEMMA NewDriverIsSound ==
    ASSUME kind \in {"generic", "native"}
    PROVE  /\ DriverSound(DriverNew, kind) /\ DriverSound(NoDriver, kind)
           /\ DriverNew.process = NoPid /\ NoDriver.process = NoPid /\ ~NoDriver.exists
           /\ SavedSound(NoDriver, kind)
<1>1. /\ DriverNew \in Driver /\ DriverNew.process = NoPid /\ DriverNew.handle = NoPid
      /\ DriverNew.buffer = NoPid /\ DriverNew.state = "pending"
    BY DEF DriverNew, Driver, DriverLifecycleState
<1>2. PICK d : d = NoDriver
    OBVIOUS
<1>3. /\ d \in Driver /\ d.process = NoPid /\ d.handle = NoPid
      /\ d.buffer = NoPid /\ d.state = "pending" /\ ~d.exists
    BY <1>1, <1>2 DEF NoDriver, Driver
<1> QED BY <1>1, <1>2, <1>3 DEF DriverSound, SavedSound

\* A driver that has ended: no process, no handle, no bytes.
LEMMA EndedIsSound ==
    ASSUME DriverSound(driver, kind), NEW st \in {"terminated", "crashed"}, EndedAs(st)
    PROVE  /\ DriverSound(driver', kind) /\ driver'.process = NoPid /\ driver'.state = st
           /\ driver'.exists = driver.exists
<1>1. PICK d : d = [driver EXCEPT !.state = st, !.process = NoPid, !.handle = NoPid,
                                  !.buffer = NoPid]
    OBVIOUS
<1>2. /\ d \in Driver /\ d.state = st /\ d.process = NoPid /\ d.handle = NoPid
      /\ d.buffer = NoPid /\ d.exists = driver.exists
    BY <1>1 DEF DriverSound, Driver, DriverLifecycleState
<1>3. DriverSound(d, kind)
    BY <1>2 DEF DriverSound
<1>4. driver' = d
    BY <1>1 DEF EndedAs
<1> QED BY <1>2, <1>3, <1>4

\* What is left of the processes when the driver's own is dropped or killed.
LEMMA ReleasedFacts ==
    ASSUME DriverInv, Released(driver.process) \/ Terminated(driver.process)
    PROVE  /\ procs' \in [Pids -> ProcState]
           /\ \A p \in Pids : procs'[p] = "running" => procs[p] = "running" /\ p # driver.process
<1>0. procs \in [Pids -> ProcState]
    BY DEF DriverInv, DriverTypes
<1>1. CASE driver.process \in Pids /\ procs[driver.process] = "running"
    <2>1. PICK s \in {"stray", "gone"} : procs' = [procs EXCEPT ![driver.process] = s]
        BY <1>1 DEF Released, Terminated
    <2> QED BY <1>0, <2>1 DEF ProcState
<1>2. CASE ~(driver.process \in Pids /\ procs[driver.process] = "running")
    <2>1. procs' = procs
        BY <1>2 DEF Released, Terminated
    <2> QED BY <1>0, <1>2, <2>1
<1> QED BY <1>1, <1>2

\* What has to be shown of a step that leaves kind and checkpoint alone.
LEMMA DriverGoesOn ==
    ASSUME DriverInv, UNCHANGED <<kind, saved>>, cancelled' \in BOOLEAN,
           procs' \in [Pids -> ProcState], orphans' \subseteq Pids,
           DriverSound(driver', kind), CallSound(call', driver', kind),
           \A p \in Pids : procs'[p] = "running" => driver'.process = p \/ p \in orphans',
           driver.exists /\ driver.state = "terminated" /\ driver'.exists =>
               driver'.state = "terminated" /\ driver'.process = NoPid
    PROVE  DriverKept
<1>1. DriverTypes'
    BY DEF DriverInv, DriverTypes
<1>2. NoRunawayProcess'
    BY DEF NoRunawayProcess
<1>3. SavedSound(saved', kind') /\ DriverSound(driver', kind') /\ CallSound(call', driver', kind')
    BY DEF DriverInv
<1> QED BY <1>1, <1>2, <1>3 DEF DriverInv, DriverKept

\* The same for the steps that leave the processes alone too, and the driver
\* the process it has.
LEMMA DriverStays ==
    ASSUME DriverInv, UNCHANGED <<kind, saved, cancelled, procs, orphans>>,
           DriverSound(driver', kind), CallSound(call', driver', kind),
           driver'.process = driver.process,
           driver.state = "terminated" => driver'.state = "terminated"
    PROVE  DriverKept
<1>1. /\ cancelled' \in BOOLEAN /\ procs' \in [Pids -> ProcState] /\ orphans' \subseteq Pids
    BY DEF DriverInv, DriverTypes
<1>2. \A p \in Pids : procs'[p] = "running" => driver'.process = p \/ p \in orphans'
    BY DEF DriverInv, NoRunawayProcess
<1>3. driver.state = "terminated" => driver.process = NoPid
    BY DEF DriverInv, DriverSound, Ended
<1> QED BY <1>1, <1>2, <1>3, DriverGoesOn

\* A call that changes its await and nothing else.
LEMMA CallSoundPhase ==
    ASSUME NEW c, NEW d, NEW k, CallSound(c, d, k), NEW phase \in DriverPhase,
           phase \in {"spawning", "reading", "capturing", "failing"}, d.exists,
           phase = "spawning" => d.process = NoPid /\ d.state = "ready" /\ k = "generic"
                                 /\ c.op # "start",
           phase = "reading" => k = "generic" /\ d.state = "turn_running",
           phase = "capturing" => k = "native",
           phase \in {"capturing", "failing"} => d.process # NoPid
    PROVE  \A n : n = [c EXCEPT !.phase = phase] => CallSound(n, d, k)
<1> SUFFICES ASSUME NEW n, n = [c EXCEPT !.phase = phase] PROVE CallSound(n, d, k)
    OBVIOUS
<1>1. n \in DriverCall /\ n.phase = phase /\ n.op = c.op
    BY DEF CallSound, DriverCall
<1> QED BY <1>1 DEF CallSound

\* CancelNow: without a process the driver is terminated at once, with one it
\* waits for the end of it.
LEMMA CancelNowKeeps ==
    ASSUME DriverInv, driver.exists, NEW op \in DriverOp, CancelNow(op),
           UNCHANGED <<kind, saved, cancelled, procs, orphans>>
    PROVE  DriverKept
<1>0. DriverSound(driver, kind)
    BY DEF DriverInv
<1>1. CASE driver.process = NoPid
    <2>1. EndedAs("terminated") /\ call' = NoDriverCall
        BY <1>1 DEF CancelNow
    <2>2. DriverSound(driver', kind) /\ driver'.process = NoPid /\ driver'.state = "terminated"
        BY <1>0, <2>1, EndedIsSound
    <2> QED BY <1>1, <2>1, <2>2, NoCallIsSound, DriverStays
<1>2. CASE driver.process # NoPid
    <2>1. UNCHANGED driver /\ call' = [NoDriverCall EXCEPT !.op = op, !.phase = "cancelling"]
        BY <1>2 DEF CancelNow
    <2>2. call' \in DriverCall /\ call'.phase = "cancelling"
        BY <2>1 DEF NoDriverCall, DriverCall, DriverPhase, DriverLifecycleState
    <2>3. CallSound(call', driver', kind)
        BY <1>2, <2>1, <2>2 DEF CallSound
    <2> QED BY <1>0, <2>1, <2>3, DriverStays
<1> QED BY <1>1, <1>2

\* A driver that moves to a state of a call, with no handle of a lost process.
LEMMA MovedIsSound ==
    ASSUME DriverSound(driver, kind), NEW st \in {"starting", "turn_running", "terminating"},
           driver.handle = NoPid,
           st = "turn_running" /\ kind = "generic" => driver.process # NoPid,
           driver' = [driver EXCEPT !.state = st]
    PROVE  /\ DriverSound(driver', kind) /\ driver'.process = driver.process
           /\ driver'.state = st /\ driver'.exists = driver.exists
<1>1. /\ driver' \in Driver /\ driver'.state = st /\ driver'.process = driver.process
      /\ driver'.handle = driver.handle /\ driver'.buffer = driver.buffer
      /\ driver'.exists = driver.exists
    BY DEF DriverSound, Driver, DriverLifecycleState
<1> QED BY <1>1 DEF DriverSound, Ended

\* start: the driver is starting and the process is being spawned.
LEMMA DriverStartKeeps ==
    ASSUME DriverInv, start
    PROVE  DriverKept
<1>0. DriverSound(driver, kind)
    BY DEF DriverInv
<1>1. driver.exists /\ driver.state = "pending" /\ driver.process = NoPid /\ driver.handle = NoPid
    BY <1>0 DEF start, Callable, DriverSound, Ended
<1>2. UNCHANGED <<kind, cancelled, procs, saved, orphans>>
    BY DEF start
<1>3. CASE cancelled /\ kind = "generic"
    <2>1. CancelNow("start")
        BY <1>3 DEF start
    <2> QED BY <1>1, <1>2, <2>1, CancelNowKeeps DEF DriverOp
<1>4. CASE ~(cancelled /\ kind = "generic")
    <2>1. /\ driver' = [driver EXCEPT !.state = "starting"]
          /\ call' = [NoDriverCall EXCEPT !.op = "start", !.phase = "spawning"]
        BY <1>4 DEF start
    <2>2. /\ DriverSound(driver', kind) /\ driver'.process = NoPid
          /\ driver'.state = "starting" /\ driver'.exists
        BY <1>0, <1>1, <2>1, MovedIsSound
    <2>3. call' \in DriverCall /\ call'.phase = "spawning"
        BY <2>1 DEF NoDriverCall, DriverCall, DriverOp, DriverPhase, DriverLifecycleState
    <2>4. CallSound(call', driver', kind)
        BY <2>2, <2>3 DEF CallSound
    <2> QED BY <1>1, <1>2, <2>2, <2>4, DriverStays
<1> QED BY <1>3, <1>4

\* request_turn: the generic driver writes to its process, the native one
\* spawns one.
LEMMA DriverTurnKeeps ==
    ASSUME DriverInv, NEW t \in Turns, request_turn(t)
    PROVE  DriverKept
<1>0. DriverSound(driver, kind) /\ kind \in {"generic", "native"}
    BY DEF DriverInv, DriverTypes
<1>1. /\ driver.exists /\ driver.state = "ready" /\ driver.handle = NoPid
      /\ kind = "generic" => driver.process # NoPid
      /\ kind = "native" => driver.process = NoPid
    BY <1>0 DEF request_turn, Callable, DriverSound
<1>2. UNCHANGED <<kind, cancelled, procs, saved, orphans>>
    BY DEF request_turn
<1>3. CASE cancelled
    <2>1. CancelNow("request_turn")
        BY <1>3 DEF request_turn
    <2> QED BY <1>1, <1>2, <2>1, CancelNowKeeps DEF DriverOp
<1>4. CASE ~cancelled
    <2>0. /\ driver' = [driver EXCEPT !.state = "turn_running"]
          /\ call' = [NoDriverCall EXCEPT !.op = "request_turn", !.turn = t,
                   !.phase = IF kind = "generic" THEN "writing" ELSE "spawning"]
        BY <1>4 DEF request_turn
    <2>2. /\ DriverSound(driver', kind) /\ driver'.process = driver.process
          /\ driver'.state = "turn_running" /\ driver'.exists
        BY <1>0, <1>1, <2>0, MovedIsSound
    <2>3. /\ call' \in DriverCall /\ call'.op = "request_turn"
          /\ call'.phase = IF kind = "generic" THEN "writing" ELSE "spawning"
        BY <2>0 DEF NoDriverCall, DriverCall, DriverOp, DriverPhase, DriverLifecycleState
    <2>4. CallSound(call', driver', kind)
        BY <1>0, <1>1, <2>2, <2>3 DEF CallSound
    <2> QED BY <1>1, <1>2, <2>2, <2>4, DriverStays
<1> QED BY <1>3, <1>4

\* resume: a lost process is looked for, or another one is spawned.
LEMMA DriverResumeKeeps ==
    ASSUME DriverInv, resume
    PROVE  DriverKept
<1>0. DriverSound(driver, kind) /\ driver.exists
    BY DEF DriverInv, resume, Callable
<1>2. UNCHANGED <<kind, cancelled, procs, saved, orphans>>
    BY DEF resume
<1>3. CASE kind = "generic" /\ cancelled
    <2>1. CancelNow("resume")
        BY <1>3 DEF resume
    <2> QED BY <1>0, <1>2, <2>1, CancelNowKeeps DEF DriverOp
<1>4. CASE kind = "generic" /\ ~cancelled
    <2>1. /\ driver.process = NoPid /\ driver.state \in {"ready", "crashed"}
          /\ call' = [NoDriverCall EXCEPT !.op = "resume", !.phase =
                        IF driver.state = "ready" THEN "reattaching" ELSE "spawning"]
          /\ UNCHANGED driver
        BY <1>4 DEF resume
    <2>2. /\ call' \in DriverCall /\ call'.op = "resume"
          /\ call'.phase = IF driver.state = "ready" THEN "reattaching" ELSE "spawning"
        BY <2>1 DEF NoDriverCall, DriverCall, DriverOp, DriverPhase, DriverLifecycleState
    <2>3. CallSound(call', driver', kind)
        BY <1>0, <1>4, <2>1, <2>2 DEF CallSound
    <2> QED BY <1>0, <1>2, <2>1, <2>3, DriverStays
<1>5. CASE kind # "generic"
    <2>1. /\ kind = "native" /\ driver.state \in {"ready", "crashed"}
          /\ driver' = [driver EXCEPT !.state = "starting"]
          /\ call' = [NoDriverCall EXCEPT !.op = "resume", !.phase = "spawning"]
        BY <1>5 DEF resume
    <2>2. driver.process = NoPid /\ driver.handle = NoPid
        BY <1>0, <2>1 DEF DriverSound, Ended
    <2>3. /\ DriverSound(driver', kind) /\ driver'.process = driver.process
          /\ driver'.state = "starting" /\ driver'.exists
        BY <1>0, <2>1, <2>2, MovedIsSound
    <2>4. call' \in DriverCall /\ call'.phase = "spawning"
        BY <2>1 DEF NoDriverCall, DriverCall, DriverOp, DriverPhase, DriverLifecycleState
    <2>5. CallSound(call', driver', kind)
        BY <2>2, <2>3, <2>4 DEF CallSound
    <2> QED BY <1>2, <2>1, <2>3, <2>5, DriverStays
<1> QED BY <1>3, <1>4, <1>5

\* terminate: without a process the driver ends at once.
LEMMA DriverTerminateKeeps ==
    ASSUME DriverInv, terminate
    PROVE  DriverKept
<1>0. DriverSound(driver, kind) /\ driver.exists /\ driver.state # "terminated"
    BY DEF DriverInv, terminate, Callable
<1>1. UNCHANGED <<kind, cancelled, procs, saved, orphans>>
    BY DEF terminate
<1>2. CASE driver.process = NoPid
    <2>1. EndedAs("terminated") /\ call' = NoDriverCall
        BY <1>2 DEF terminate, Callable
    <2>2. DriverSound(driver', kind) /\ driver'.process = NoPid /\ driver'.state = "terminated"
        BY <1>0, <2>1, EndedIsSound
    <2> QED BY <1>1, <1>2, <2>1, <2>2, NoCallIsSound, DriverStays
<1>3. CASE driver.process # NoPid
    <2>1. /\ driver' = [driver EXCEPT !.state = "terminating"]
          /\ call' = [NoDriverCall EXCEPT !.op = "terminate", !.phase = "killing",
                                          !.previous = driver.state]
        BY <1>3 DEF terminate
    <2>2. /\ DriverSound(driver', kind) /\ driver'.process = driver.process
          /\ driver'.state = "terminating" /\ driver'.exists
        BY <1>0, <1>3, <2>1, MovedIsSound DEF DriverSound
    <2>3. driver.state \in DriverLifecycleState
        BY <1>0 DEF DriverSound, Driver
    <2>4. call' \in DriverCall /\ call'.phase = "killing" /\ call'.previous = driver.state
        BY <2>1, <2>3 DEF NoDriverCall, DriverCall, DriverOp, DriverPhase
    <2>5. driver.state \notin Ended /\ (kind = "native" => driver.state # "ready")
        BY <1>0, <1>3 DEF DriverSound
    <2>6. CallSound(call', driver', kind)
        BY <1>3, <2>2, <2>4, <2>5 DEF CallSound
    <2> QED BY <1>0, <1>1, <2>2, <2>6, DriverStays
<1> QED BY <1>2, <1>3

\* A call that is in progress has a driver.
LEMMA InCallExists ==
    ASSUME DriverInv, call.phase # "idle"
    PROVE  driver.exists
BY DEF DriverInv, CallSound

\* The biased select: the cancelled token ends the call.
LEMMA CancelWinsKeeps ==
    ASSUME DriverInv, CancelWins
    PROVE  DriverKept
<1>1. driver.exists
    BY InCallExists DEF CancelWins
<1>2. CancelNow(call.op) /\ UNCHANGED <<kind, saved, cancelled, procs, orphans>>
    BY DEF CancelWins
<1>3. call.op \in DriverOp
    BY DEF DriverInv, CallSound, DriverCall
<1> QED BY <1>1, <1>2, <1>3, CancelNowKeeps

\* SpawnDone: while a process is spawned the driver has none, so the new one is
\* the only one it may lose sight of.
LEMMA SpawnDoneKeeps ==
    ASSUME DriverInv, NEW p \in Pids, SpawnDone(p)
    PROVE  DriverKept
<1>0. DriverSound(driver, kind) /\ CallSound(call, driver, kind) /\ DriverTypes
    BY DEF DriverInv
<1>1. /\ driver.exists /\ driver.process = NoPid /\ driver.buffer = NoPid
      /\ driver.state \notin {"pending", "terminated"} /\ p # NoPid
      /\ kind = "native" => driver.state \in {"starting", "turn_running"}
    BY <1>0, InCallExists, DriverAssumption DEF SpawnDone, CallSound, DriverSound
<1>2. UNCHANGED <<kind, cancelled, saved, orphans>> /\ procs' = [procs EXCEPT ![p] = "running"]
    BY DEF SpawnDone, Spawned
<1>3. /\ cancelled' \in BOOLEAN /\ procs' \in [Pids -> ProcState] /\ orphans' \subseteq Pids
    BY <1>0, <1>2 DEF DriverTypes, ProcState
<1>4. /\ driver'.process = p /\ driver'.exists /\ driver'.state # "terminated"
      /\ DriverSound(driver', kind) /\ CallSound(call', driver', kind)
    <2>1. CASE kind = "generic"
        <3>1. /\ driver' = [driver EXCEPT !.process = p, !.handle = NoPid, !.state = "ready"]
              /\ call' = NoDriverCall
            BY <2>1 DEF SpawnDone
        <3>2. /\ driver' \in Driver /\ driver'.process = p /\ driver'.handle = NoPid
              /\ driver'.state = "ready" /\ driver'.buffer = NoPid /\ driver'.exists
            BY <1>0, <1>1, <3>1 DEF DriverSound, Driver, DriverLifecycleState
        <3>3. DriverSound(driver', kind)
            BY <1>1, <2>1, <3>2 DEF DriverSound, Ended
        <3> QED BY <3>1, <3>2, <3>3, NoCallIsSound
    <2>2. CASE kind = "native"
        <3>1. /\ driver' = [driver EXCEPT !.process = p]
              /\ call' = [call EXCEPT !.phase = "capturing"]
            BY <2>2 DEF SpawnDone
        <3>2. /\ driver' \in Driver /\ driver'.process = p /\ driver'.handle = driver.handle
              /\ driver'.state = driver.state /\ driver'.buffer = NoPid /\ driver'.exists
            BY <1>0, <1>1, <3>1 DEF DriverSound, Driver
        <3>3. DriverSound(driver', kind)
            BY <1>0, <1>1, <2>2, <3>2 DEF DriverSound, Ended
        <3>4. call' \in DriverCall /\ call'.phase = "capturing"
            BY <1>0, <3>1 DEF CallSound, DriverCall, DriverPhase
        <3>5. CallSound(call', driver', kind)
            BY <1>1, <2>2, <3>2, <3>4 DEF CallSound
        <3> QED BY <1>1, <3>2, <3>3, <3>5
    <2> QED BY <1>0, <2>1, <2>2 DEF DriverTypes
<1>5. \A q \in Pids : procs'[q] = "running" => driver'.process = q \/ q \in orphans'
    <2> SUFFICES ASSUME NEW q \in Pids, procs'[q] = "running", q # p
                 PROVE  q \in orphans'
        BY <1>4
    <2>1. procs[q] = "running" /\ q # NoPid
        BY <1>0, <1>2, DriverAssumption DEF DriverTypes
    <2> QED BY <1>1, <1>2, <2>1 DEF DriverInv, NoRunawayProcess
<1> QED BY <1>1, <1>2, <1>3, <1>4, <1>5, DriverGoesOn

\* SpawnFails: what crashes has no process and no handle.
LEMMA SpawnFailsKeeps ==
    ASSUME DriverInv, SpawnFails
    PROVE  DriverKept
<1>0. DriverSound(driver, kind) /\ CallSound(call, driver, kind)
    BY DEF DriverInv
<1>1. /\ UNCHANGED <<kind, saved, cancelled, procs, orphans>> /\ call' = NoDriverCall
      /\ call.phase = "spawning"
    BY DEF SpawnFails
<1>2. driver.process = NoPid /\ driver.state # "terminated"
    BY <1>0, <1>1 DEF CallSound
<1>3. CASE kind = "native" \/ call.op = "start"
    <2>1. driver' = [driver EXCEPT !.state = "crashed"]
        BY <1>3 DEF SpawnFails
    <2>2. driver.handle = NoPid
        BY <1>0, <1>1, <1>3 DEF CallSound, DriverSound
    <2>3. /\ driver' \in Driver /\ driver'.process = NoPid /\ driver'.handle = NoPid
          /\ driver'.state = "crashed" /\ driver'.buffer = driver.buffer
        BY <1>0, <1>2, <2>1, <2>2 DEF DriverSound, Driver, DriverLifecycleState
    <2>4. DriverSound(driver', kind)
        BY <1>0, <1>2, <2>3 DEF DriverSound
    <2> QED BY <1>1, <1>2, <2>3, <2>4, NoCallIsSound, DriverStays
<1>4. CASE ~(kind = "native" \/ call.op = "start")
    <2>1. driver' = driver
        BY <1>4 DEF SpawnFails
    <2> QED BY <1>0, <1>1, <2>1, NoCallIsSound, DriverStays
<1> QED BY <1>3, <1>4

\* ReattachDone: the process found is the orphan the handle names.
LEMMA ReattachDoneKeeps ==
    ASSUME DriverInv, ReattachDone
    PROVE  DriverKept
<1>0. DriverSound(driver, kind) /\ CallSound(call, driver, kind) /\ DriverTypes
    BY DEF DriverInv
<1>1. /\ UNCHANGED <<kind, saved, cancelled, procs>> /\ call.phase = "reattaching"
      /\ driver.process = NoPid /\ kind = "generic" /\ driver.state = "ready"
      /\ driver.handle # NoPid /\ driver.exists /\ driver.buffer = NoPid
    BY <1>0, InCallExists DEF ReattachDone, CallSound, DriverSound
<1>2. CASE /\ driver' = [driver EXCEPT !.process = driver.handle, !.handle = NoPid]
           /\ orphans' = orphans \ {driver.handle}
           /\ call' = NoDriverCall
    <2>1. /\ driver' \in Driver /\ driver'.process = driver.handle /\ driver'.handle = NoPid
          /\ driver'.state = "ready" /\ driver'.buffer = NoPid /\ driver'.exists
        BY <1>0, <1>1, <1>2 DEF DriverSound, Driver
    <2>2. DriverSound(driver', kind)
        BY <1>1, <2>1 DEF DriverSound, Ended
    <2>3. \A p \in Pids : procs'[p] = "running" => driver'.process = p \/ p \in orphans'
        BY <1>1, <1>2, <2>1, DriverAssumption DEF DriverInv, NoRunawayProcess
    <2>4. /\ cancelled' \in BOOLEAN /\ procs' \in [Pids -> ProcState] /\ orphans' \subseteq Pids
        BY <1>0, <1>1, <1>2 DEF DriverTypes
    <2>5. CallSound(call', driver', kind)
        BY <1>2, NoCallIsSound
    <2> QED BY <1>1, <2>2, <2>3, <2>4, <2>5, DriverGoesOn
<1>3. CASE call' = [call EXCEPT !.phase = "spawning"] /\ UNCHANGED <<driver, orphans>>
    <2>1. call' \in DriverCall /\ call'.phase = "spawning" /\ call'.op = call.op
        BY <1>0, <1>3 DEF CallSound, DriverCall, DriverPhase
    <2>2. CallSound(call', driver', kind)
        BY <1>0, <1>1, <1>3, <2>1 DEF CallSound
    <2> QED BY <1>0, <1>1, <1>3, <2>2, DriverStays
<1>4. CASE call' = NoDriverCall /\ UNCHANGED <<driver, orphans>>
    BY <1>0, <1>1, <1>4, NoCallIsSound, DriverStays
<1> QED BY <1>2, <1>3, <1>4 DEF ReattachDone

\* The steps that only move a call of the generic driver to its next await.
LEMMA NextAwaitKeeps ==
    ASSUME DriverInv, NEW phase \in {"reading", "failing"}, driver.exists,
           phase = "reading" => call.phase = "writing",
           driver.process # NoPid,
           call' = [call EXCEPT !.phase = phase],
           UNCHANGED <<kind, driver, cancelled, procs, saved, orphans>>
    PROVE  DriverKept
<1>1. CallSound(call, driver, kind) /\ DriverSound(driver, kind)
    BY DEF DriverInv
<1>2. call' \in DriverCall /\ call'.phase = phase
    BY <1>1 DEF CallSound, DriverCall, DriverPhase
<1>3. CallSound(call', driver', kind)
    BY <1>1, <1>2 DEF CallSound
<1> QED BY <1>1, <1>3, DriverStays

\* WriteDone.
LEMMA WriteDoneKeeps ==
    ASSUME DriverInv, WriteDone
    PROVE  DriverKept
<1>1. driver.process # NoPid /\ driver.exists
    BY DEF DriverInv, WriteDone, CallSound, DriverSound
<1>2. UNCHANGED <<kind, driver, cancelled, procs, saved, orphans>> /\ call.phase = "writing"
    BY DEF WriteDone
<1>3. \/ call' = [call EXCEPT !.phase = "reading"]
      \/ call' = [call EXCEPT !.phase = "failing"]
    BY DEF WriteDone
<1> QED BY <1>1, <1>2, <1>3, NextAwaitKeeps

\* ReadFails.
LEMMA ReadFailsKeeps ==
    ASSUME DriverInv, ReadFails
    PROVE  DriverKept
<1>1. driver.process # NoPid /\ driver.exists
    BY DEF DriverInv, ReadFails, CallSound, DriverSound
<1>2. UNCHANGED <<kind, driver, cancelled, procs, saved, orphans>>
    BY DEF ReadFails
<1>3. call' = [call EXCEPT !.phase = "failing"]
    BY DEF ReadFails
<1> QED BY <1>1, <1>2, <1>3, NextAwaitKeeps

\* ReadFrame: a partial line is of the process that is there; a frame of the
\* turn makes the driver ready with its process.
LEMMA ReadFrameKeeps ==
    ASSUME DriverInv, ReadFrame
    PROVE  DriverKept
<1>0. DriverSound(driver, kind) /\ CallSound(call, driver, kind)
    BY DEF DriverInv
<1>1. /\ UNCHANGED <<kind, cancelled, procs, saved, orphans>> /\ call.phase = "reading"
      /\ driver.process # NoPid /\ driver.exists /\ kind = "generic"
      /\ driver.state = "turn_running" /\ driver.handle = NoPid
    BY <1>0 DEF ReadFrame, CallSound, DriverSound
<1>2. CASE driver' = [driver EXCEPT !.buffer = driver.process] /\ UNCHANGED call
    <2>1. /\ driver' \in Driver /\ driver'.process = driver.process /\ driver'.handle = NoPid
          /\ driver'.state = driver.state /\ driver'.buffer = driver.process /\ driver'.exists
        BY <1>0, <1>1, <1>2 DEF DriverSound, Driver
    <2>2. DriverSound(driver', kind)
        BY <1>1, <2>1 DEF DriverSound, Ended
    <2>3. CallSound(call', driver', kind)
        BY <1>0, <1>1, <1>2, <2>1 DEF CallSound
    <2> QED BY <1>1, <2>1, <2>2, <2>3, DriverStays
<1>3. CASE UNCHANGED <<driver, call>>
    BY <1>0, <1>1, <1>3, DriverStays
<1>4. CASE driver' = [driver EXCEPT !.buffer = NoPid, !.state = "ready"] /\ call' = NoDriverCall
    <2>1. /\ driver' \in Driver /\ driver'.process = driver.process /\ driver'.handle = NoPid
          /\ driver'.state = "ready" /\ driver'.buffer = NoPid /\ driver'.exists
        BY <1>0, <1>1, <1>4 DEF DriverSound, Driver, DriverLifecycleState
    <2>2. DriverSound(driver', kind)
        BY <1>1, <2>1 DEF DriverSound, Ended
    <2> QED BY <1>1, <1>4, <2>1, <2>2, NoCallIsSound, DriverStays
<1>5. CASE call' = [call EXCEPT !.phase = "failing"] /\ UNCHANGED driver
    BY <1>1, <1>5, NextAwaitKeeps
<1> QED BY <1>2, <1>3, <1>4, <1>5 DEF ReadFrame

\* A call that ends with the driver, once its process does not run any more.
LEMMA EndKeeps ==
    ASSUME DriverInv, driver.exists, NEW st \in {"terminated", "crashed"}, EndedAs(st),
           call' = NoDriverCall, UNCHANGED <<kind, cancelled, saved, orphans>>,
           procs' \in [Pids -> ProcState],
           \A p \in Pids : procs'[p] = "running" => procs[p] = "running" /\ p # driver.process,
           driver.state # "terminated"
    PROVE  DriverKept
<1>1. DriverSound(driver', kind)
    BY EndedIsSound DEF DriverInv
<1>2. \A p \in Pids : procs'[p] = "running" => driver'.process = p \/ p \in orphans'
    BY DEF DriverInv, NoRunawayProcess
<1>3. cancelled' \in BOOLEAN /\ orphans' \subseteq Pids
    BY DEF DriverInv, DriverTypes
<1> QED BY <1>1, <1>2, <1>3, NoCallIsSound, DriverGoesOn

\* A driver that has a process is not terminated.
LEMMA HeldIsNotEnded ==
    ASSUME DriverInv, driver.process # NoPid
    PROVE  driver.state # "terminated" /\ driver.exists
BY DEF DriverInv, DriverSound, Ended

\* ReadExit: the process has exited before it answered.
LEMMA ReadExitKeeps ==
    ASSUME DriverInv, ReadExit
    PROVE  DriverKept
<1>1. driver.process # NoPid
    BY DEF DriverInv, ReadExit, CallSound, DriverSound
<1>2. /\ EndedAs("crashed") /\ call' = NoDriverCall
      /\ UNCHANGED <<kind, cancelled, procs, saved, orphans>>
      /\ procs[driver.process] # "running"
    BY DEF ReadExit
<1>3. procs \in [Pids -> ProcState]
    BY DEF DriverInv, DriverTypes
<1>4. /\ procs' \in [Pids -> ProcState]
      /\ \A p \in Pids : procs'[p] = "running" => procs[p] = "running" /\ p # driver.process
    BY <1>2, <1>3
<1>5. driver.state # "terminated" /\ driver.exists
    BY <1>1, HeldIsNotEnded
<1> QED BY <1>2, <1>4, <1>5, EndKeeps

\* Captured: the native driver forgets its process only when it has exited.
LEMMA CapturedKeeps ==
    ASSUME DriverInv, NEW good \in BOOLEAN, Captured(good)
    PROVE  DriverKept
<1>0. DriverSound(driver, kind) /\ CallSound(call, driver, kind) /\ DriverTypes
    BY DEF DriverInv
<1>1. /\ UNCHANGED <<kind, cancelled, procs, saved, orphans>> /\ call' = NoDriverCall
      /\ procs[driver.process] # "running" /\ kind = "native" /\ driver.process # NoPid
    BY <1>0 DEF Captured, CallSound
<1>2. driver.state # "terminated" /\ driver.exists /\ driver.handle = NoPid /\ driver.buffer = NoPid
    BY <1>0, <1>1, HeldIsNotEnded DEF DriverSound
<1>3. PICK st, np : driver' = [driver EXCEPT !.process = NoPid, !.state = st, !.needs_probe = np]
                    /\ st \in {"ready", "crashed"} /\ np \in BOOLEAN
    <2>1. driver.needs_probe \in BOOLEAN
        BY <1>0 DEF DriverSound, Driver
    <2>2. PICK st \in {"ready", "crashed"} : st = IF good THEN "ready" ELSE "crashed"
        OBVIOUS
    <2>3. PICK np \in BOOLEAN :
              np = IF good /\ call.op # "request_turn" THEN FALSE ELSE driver.needs_probe
        BY <2>1
    <2>4. driver' = [driver EXCEPT !.process = NoPid, !.state = st, !.needs_probe = np]
        BY <2>2, <2>3 DEF Captured
    <2> QED BY <2>2, <2>3, <2>4
<1>4. /\ driver' \in Driver /\ driver'.process = NoPid /\ driver'.handle = NoPid
      /\ driver'.state = st /\ driver'.buffer = NoPid
    BY <1>0, <1>2, <1>3 DEF DriverSound, Driver, DriverLifecycleState
<1>5. DriverSound(driver', kind)
    BY <1>1, <1>3, <1>4 DEF DriverSound
<1>6. \A p \in Pids : procs'[p] = "running" => driver'.process = p \/ p \in orphans'
    BY <1>1 DEF DriverInv, NoRunawayProcess
<1>7. cancelled' \in BOOLEAN /\ procs' \in [Pids -> ProcState] /\ orphans' \subseteq Pids
    BY <1>0, <1>1 DEF DriverTypes
<1>8. CallSound(call', driver', kind)
    BY <1>1, NoCallIsSound
<1> QED BY <1>1, <1>2, <1>5, <1>6, <1>7, <1>8, DriverGoesOn

\* CaptureFails: the process is dropped, or is to be terminated.
LEMMA CaptureFailsKeeps ==
    ASSUME DriverInv, CaptureFails
    PROVE  DriverKept
<1>1. driver.process # NoPid
    BY DEF DriverInv, CaptureFails, CallSound
<1>2. driver.state # "terminated" /\ driver.exists
    BY <1>1, HeldIsNotEnded
<1>3. UNCHANGED <<kind, cancelled, saved, orphans>>
    BY DEF CaptureFails
<1>4. CASE Released(driver.process) /\ EndedAs("crashed") /\ call' = NoDriverCall
    BY <1>2, <1>3, <1>4, ReleasedFacts, EndKeeps
<1>5. CASE call' = [call EXCEPT !.phase = "failing"] /\ UNCHANGED <<driver, pipe, procs>>
    BY <1>1, <1>2, <1>3, <1>5, NextAwaitKeeps
<1> QED BY <1>4, <1>5 DEF CaptureFails

\* CleanupDone: the process is terminated and the driver has ended.
LEMMA CleanupDoneKeeps ==
    ASSUME DriverInv, CleanupDone
    PROVE  DriverKept
<1>1. driver.process # NoPid
    BY DEF DriverInv, CleanupDone, CallSound
<1>2. driver.state # "terminated" /\ driver.exists
    BY <1>1, HeldIsNotEnded
<1>3. PICK st \in {"terminated", "crashed"} : EndedAs(st)
    BY DEF CleanupDone
<1>4. /\ Terminated(driver.process) /\ call' = NoDriverCall
      /\ UNCHANGED <<kind, cancelled, saved, orphans>>
    BY DEF CleanupDone
<1> QED BY <1>2, <1>3, <1>4, ReleasedFacts, EndKeeps

\* KillDone: the driver has ended, or it is what it was and keeps its process.
LEMMA KillDoneKeeps ==
    ASSUME DriverInv, KillDone
    PROVE  DriverKept
<1>0. DriverSound(driver, kind) /\ CallSound(call, driver, kind)
    BY DEF DriverInv
<1>1. driver.process # NoPid /\ call.phase = "killing"
    BY <1>0 DEF KillDone, CallSound
<1>2. driver.state # "terminated" /\ driver.exists
    BY <1>1, HeldIsNotEnded
<1>3. UNCHANGED <<kind, cancelled, saved, orphans>> /\ call' = NoDriverCall
    BY DEF KillDone
<1>4. CASE Terminated(driver.process) /\ EndedAs("terminated")
    BY <1>2, <1>3, <1>4, ReleasedFacts, EndKeeps
<1>5. CASE driver' = [driver EXCEPT !.state = call.previous] /\ UNCHANGED <<procs, pipe>>
    <2>1. call.previous \in DriverLifecycleState
        BY <1>0 DEF CallSound, DriverCall
    <2>2. /\ driver' \in Driver /\ driver'.process = driver.process
          /\ driver'.handle = driver.handle /\ driver'.state = call.previous
          /\ driver'.buffer = driver.buffer /\ driver'.exists
        BY <1>0, <1>2, <1>5, <2>1 DEF DriverSound, Driver
    <2>3. DriverSound(driver', kind)
        BY <1>0, <1>1, <2>2 DEF DriverSound, CallSound
    <2> QED BY <1>2, <1>3, <1>5, <2>2, <2>3, NoCallIsSound, DriverStays
<1> QED BY <1>4, <1>5 DEF KillDone

\* Cancel, and the drop of a call at its await: the driver keeps its process.
LEMMA CancelAndDropKeep ==
    ASSUME DriverInv, Cancel \/ DropCall
    PROVE  DriverKept
<1>0. DriverSound(driver, kind) /\ CallSound(call, driver, kind) /\ DriverTypes
    BY DEF DriverInv
<1>1. UNCHANGED <<kind, driver, procs, saved, orphans>> /\ cancelled' \in BOOLEAN
    BY <1>0 DEF Cancel, DropCall, DriverTypes
<1>2. CallSound(call', driver', kind)
    <2>1. CASE call' = call
        BY <1>0, <1>1, <2>1
    <2>2. CASE call' = NoDriverCall
        BY <2>2, NoCallIsSound
    <2> QED BY <2>1, <2>2 DEF Cancel, DropCall
<1>3. \A p \in Pids : procs'[p] = "running" => driver'.process = p \/ p \in orphans'
    BY <1>1 DEF DriverInv, NoRunawayProcess
<1>4. procs' \in [Pids -> ProcState] /\ orphans' \subseteq Pids
    BY <1>0, <1>1 DEF DriverTypes
<1>5. driver.state = "terminated" => driver.process = NoPid
    BY <1>0 DEF DriverSound, Ended
<1> QED BY <1>0, <1>1, <1>2, <1>3, <1>4, <1>5, DriverGoesOn

\* checkpoint: of a driver between two calls; its process becomes the handle.
LEMMA CheckpointKeeps ==
    ASSUME DriverInv, checkpoint
    PROVE  DriverKept
<1>0. DriverSound(driver, kind) /\ driver.exists /\ driver.state \notin Transient
    BY DEF DriverInv, checkpoint, Callable
<1>1. UNCHANGED <<kind, driver, call, cancelled, procs, pipe, orphans>>
    BY DEF checkpoint
<1>2. PICK h \in Pids \cup {NoPid} :
          h = IF driver.process # NoPid THEN driver.process ELSE driver.handle
    BY <1>0 DEF DriverSound, Driver
<1>3. saved' = [driver EXCEPT !.handle = h, !.process = NoPid, !.buffer = NoPid]
    BY <1>2 DEF checkpoint
<1>4. /\ saved' \in Driver /\ saved'.handle = h /\ saved'.process = NoPid
      /\ saved'.buffer = NoPid /\ saved'.state = driver.state
    BY <1>0, <1>2, <1>3 DEF DriverSound, Driver
<1>5. driver.process # NoPid => driver.state = "ready" /\ kind # "native"
    BY <1>0 DEF DriverSound, Ended, Transient, Driver, DriverLifecycleState
<1>6. SavedSound(saved', kind)
    BY <1>0, <1>2, <1>4, <1>5 DEF SavedSound, DriverSound
<1>7. DriverInv'
    <2>1. DriverTypes' /\ NoRunawayProcess'
        BY <1>1 DEF DriverInv, DriverTypes, NoRunawayProcess
    <2>2. DriverSound(driver', kind') /\ CallSound(call', driver', kind') /\ SavedSound(saved', kind')
        BY <1>1, <1>6 DEF DriverInv
    <2> QED BY <2>1, <2>2 DEF DriverInv
<1>8. driver.state = "terminated" => driver.process = NoPid
    BY <1>0 DEF DriverSound, Ended
<1> QED BY <1>1, <1>7, <1>8 DEF DriverKept

\* DropDriver: the process is dropped with the value.
LEMMA DropDriverKeeps ==
    ASSUME DriverInv, DropDriver
    PROVE  DriverKept
<1>0. DriverTypes
    BY DEF DriverInv
<1>1. /\ UNCHANGED <<kind, call, saved, orphans>> /\ driver' = NoDriver /\ call = NoDriverCall
      /\ cancelled' = FALSE /\ Released(driver.process)
    BY DEF DropDriver, Callable
<1>2. DriverSound(driver', kind) /\ driver'.process = NoPid /\ ~driver'.exists
    BY <1>0, <1>1, NewDriverIsSound DEF DriverTypes
<1>3. /\ procs' \in [Pids -> ProcState]
      /\ \A p \in Pids : procs'[p] = "running" => procs[p] = "running" /\ p # driver.process
    BY <1>1, ReleasedFacts
<1>4. \A p \in Pids : procs'[p] = "running" => driver'.process = p \/ p \in orphans'
    BY <1>1, <1>3 DEF DriverInv, NoRunawayProcess
<1>5. CallSound(call', driver', kind)
    BY <1>1, NoCallIsSound
<1>6. orphans' \subseteq Pids /\ cancelled' \in BOOLEAN
    BY <1>0, <1>1 DEF DriverTypes
<1> QED BY <1>1, <1>2, <1>3, <1>4, <1>5, <1>6, DriverGoesOn

\* OwnerDies: what the driver held is an orphan.
LEMMA OwnerDiesKeeps ==
    ASSUME DriverInv, OwnerDies
    PROVE  DriverKept
<1>0. DriverTypes /\ DriverSound(driver, kind)
    BY DEF DriverInv
<1>1. /\ UNCHANGED <<kind, procs, saved>> /\ driver' = NoDriver /\ call' = NoDriverCall
      /\ cancelled' = FALSE
      /\ orphans' = IF driver.process # NoPid THEN orphans \cup {driver.process} ELSE orphans
    BY DEF OwnerDies
<1>2. DriverSound(driver', kind) /\ driver'.process = NoPid /\ ~driver'.exists
    BY <1>0, <1>1, NewDriverIsSound DEF DriverTypes
<1>3. driver.process \in Pids \cup {NoPid}
    BY <1>0 DEF DriverSound, Driver
<1>4. \A p \in Pids : procs'[p] = "running" => driver'.process = p \/ p \in orphans'
    BY <1>1, <1>3, DriverAssumption DEF DriverInv, NoRunawayProcess
<1>5. CallSound(call', driver', kind)
    BY <1>1, NoCallIsSound
<1>6. /\ cancelled' \in BOOLEAN /\ procs' \in [Pids -> ProcState] /\ orphans' \subseteq Pids
    BY <1>0, <1>1, <1>3 DEF DriverTypes
<1> QED BY <1>1, <1>2, <1>4, <1>5, <1>6, DriverGoesOn

\* restore: only what the checkpoint was, with its handle and no process.
LEMMA RestoreDriverKeeps ==
    ASSUME DriverInv, restore
    PROVE  DriverKept
<1>0. /\ DriverTypes /\ DriverSound(driver, kind) /\ CallSound(call, driver, kind)
      /\ SavedSound(saved, kind)
    BY DEF DriverInv
<1>1. /\ UNCHANGED <<kind, call, cancelled, procs, saved, orphans>> /\ ~driver.exists
      /\ saved.exists
    BY DEF restore
<1>2. call \in DriverCall /\ call.phase = "idle" /\ driver.process = NoPid
    BY <1>0, <1>1 DEF CallSound, DriverSound
<1>3. PICK np \in BOOLEAN : driver' = [saved EXCEPT !.needs_probe = np]
    BY DEF restore
<1>4. /\ driver' \in Driver /\ driver'.process = NoPid /\ driver'.buffer = NoPid
      /\ driver'.handle = saved.handle /\ driver'.state = saved.state /\ driver'.exists
    BY <1>0, <1>1, <1>3 DEF SavedSound, Driver
<1>5. kind \in {"generic", "native"}
    BY <1>0 DEF DriverTypes
<1>6. DriverSound(driver', kind)
    BY <1>0, <1>1, <1>4, <1>5 DEF DriverSound, SavedSound, Transient
<1>7. CallSound(call', driver', kind)
    BY <1>1, <1>2 DEF CallSound
<1>8. \A p \in Pids : procs'[p] = "running" => driver'.process = p \/ p \in orphans'
    BY <1>1, <1>2, DriverAssumption DEF DriverInv, NoRunawayProcess
<1>9. /\ cancelled' \in BOOLEAN /\ procs' \in [Pids -> ProcState] /\ orphans' \subseteq Pids
    BY <1>0, <1>1 DEF DriverTypes
<1> QED BY <1>1, <1>6, <1>7, <1>8, <1>9, DriverGoesOn

\* The processes exit and write by themselves.
LEMMA ProcessStepKeeps ==
    ASSUME DriverInv, (\E p \in Pids : ProcessExits(p)) \/ (\E chunk \in Chunks : ProcessWrites(chunk))
    PROVE  DriverKept
<1>0. DriverTypes /\ DriverSound(driver, kind) /\ CallSound(call, driver, kind)
    BY DEF DriverInv
<1>1. UNCHANGED <<kind, driver, call, cancelled, saved, orphans>>
    BY DEF ProcessExits, ProcessWrites
<1>2. /\ procs' \in [Pids -> ProcState]
      /\ \A p \in Pids : procs'[p] = "running" => procs[p] = "running"
    <2>1. CASE \E p \in Pids : ProcessExits(p)
        <3>1. PICK p \in Pids, s \in {"stray", "gone"} : procs' = [procs EXCEPT ![p] = s]
            BY <2>1 DEF ProcessExits
        <3> QED BY <1>0, <3>1 DEF DriverTypes, ProcState
    <2>2. CASE \E chunk \in Chunks : ProcessWrites(chunk)
        BY <1>0, <2>2 DEF DriverTypes, ProcessWrites
    <2> QED BY <2>1, <2>2
<1>3. \A p \in Pids : procs'[p] = "running" => driver'.process = p \/ p \in orphans'
    BY <1>1, <1>2 DEF DriverInv, NoRunawayProcess
<1>4. driver.state = "terminated" => driver.process = NoPid
    BY <1>0 DEF DriverSound, Ended
<1>5. cancelled' \in BOOLEAN /\ orphans' \subseteq Pids
    BY <1>0, <1>1 DEF DriverTypes
<1> QED BY <1>0, <1>1, <1>2, <1>3, <1>4, <1>5, DriverGoesOn

\* The invariant at the start.
LEMMA DriverInitially == DriverInit => DriverInv
<1> SUFFICES ASSUME DriverInit PROVE DriverInv
    OBVIOUS
<1>1. DriverTypes /\ NoRunawayProcess
    BY DEF DriverInit, DriverTypes, NoRunawayProcess, ProcState
<1>2. DriverSound(driver, kind) /\ SavedSound(saved, kind)
    BY NewDriverIsSound DEF DriverInit
<1>3. CallSound(call, driver, kind)
    BY NoCallIsSound DEF DriverInit
<1> QED BY <1>1, <1>2, <1>3 DEF DriverInv

\* Every step of the driver, of its owner and of its process keeps it.
LEMMA DriverStepKeeps == DriverInv /\ [DriverNext]_driverVars => DriverKept
<1> SUFFICES ASSUME DriverInv, [DriverNext]_driverVars PROVE DriverKept
    OBVIOUS
<1>1. CASE DriverStep
    <2>1. CASE \E p \in Pids : SpawnDone(p)
        BY <2>1, SpawnDoneKeeps
    <2>2. CASE \E good \in BOOLEAN : Captured(good)
        BY <2>2, CapturedKeeps
    <2> QED BY <1>1, <2>1, <2>2, CancelWinsKeeps, SpawnFailsKeeps, ReattachDoneKeeps,
               WriteDoneKeeps, ReadFrameKeeps, ReadFailsKeeps, ReadExitKeeps, CaptureFailsKeeps,
               CleanupDoneKeeps, KillDoneKeeps DEF DriverStep
<1>2. CASE \E t \in Turns : request_turn(t)
    BY <1>2, DriverTurnKeeps
<1>3. CASE UNCHANGED driverVars
    <2>1. /\ UNCHANGED <<kind, saved, cancelled, procs, orphans>>
          /\ UNCHANGED <<driver, call>>
        BY <1>3 DEF driverVars
    <2>2. DriverSound(driver', kind) /\ CallSound(call', driver', kind)
        BY <2>1 DEF DriverInv
    <2> QED BY <2>1, <2>2, DriverStays
<1> QED BY <1>1, <1>2, <1>3, DriverStartKeeps, DriverResumeKeeps, DriverTerminateKeeps,
           CancelAndDropKeep, CheckpointKeeps, DropDriverKeeps, OwnerDiesKeeps,
           RestoreDriverKeeps, ProcessStepKeeps DEF DriverNext

\* What the invariant says between calls.
LEMMA DriverInvSays ==
    ASSUME DriverInv
    PROVE  /\ DriverTypeOK /\ NoRunawayProcess /\ ReadyMeansReachable
           /\ FramesOfOneProcess /\ CheckpointIsRestorable
<1>1. DriverTypeOK /\ NoRunawayProcess
    BY DEF DriverInv, DriverTypeOK, DriverTypes, DriverSound, CallSound, SavedSound
<1>2. ReadyMeansReachable
    BY DEF DriverInv, ReadyMeansReachable, DriverSound, Ended
<1>3. FramesOfOneProcess
    BY DEF DriverInv, FramesOfOneProcess, DriverSound
<1>4. CheckpointIsRestorable
    BY DEF DriverInv, CheckpointIsRestorable, RestoreAccepts, SavedSound
<1> QED BY <1>1, <1>2, <1>3, <1>4

\* However the calls of a driver are cancelled, dropped, failed, checkpointed and
\* restored, for any processes and any output of theirs: no process is left
\* behind but by the death of the owner, a ready driver reaches its process,
\* frames are of one process, a checkpoint restores, and terminated is the end.
THEOREM DriverIsSafe == DriverSpec => DriverSafety
<1>1. DriverInv /\ [DriverNext]_driverVars => DriverInv'
    BY DriverStepKeeps DEF DriverKept
<1>2. DriverSpec => []DriverInv
    BY <1>1, DriverInitially, PTL DEF DriverSpec
<1>3. DriverInv => (DriverTypeOK /\ NoRunawayProcess /\ ReadyMeansReachable)
                   /\ (FramesOfOneProcess /\ CheckpointIsRestorable)
    BY DriverInvSays
<1>4. DriverInv /\ [DriverNext]_driverVars =>
          [driver.exists /\ driver.state = "terminated" /\ driver'.exists =>
              driver'.state = "terminated" /\ driver'.process = NoPid]_driverVars
    BY DriverStepKeeps DEF DriverKept
<1> QED BY <1>2, <1>3, <1>4, PTL DEF DriverSpec, DriverSafety, TerminatedIsTheEnd

-----------------------------------------------------------------------------
(* The redacting process *)

\* What is left of a stream once secrets are replaced.
Symbols == Bytes \cup {Marker}

\* The text t stands in x from a place on.
OccursAt(t, x, from) ==
    /\ from + Len(t) - 1 <= Len(x)
    /\ \A j \in 1..Len(t) : x[from + j - 1] = t[j]

Hides(x, t) == \A from \in 1..Len(x) : ~OccursAt(t, x, from)

\* Every place of x is copied to y, or a marker stands in y there or before.
Follows(x, y) ==
    \A k \in 1..Len(x) :
        \/ k <= Len(y) /\ y[k] = x[k]
        \/ \E j \in 1..Len(y) : j <= k /\ y[j] = Marker

\* The piece of the text between two cuts is what a symbol stands for.
PieceOf(text, low, high, symbol) ==
    IF symbol = Marker
    THEN \E m \in 1..Len(Secrets) :
            /\ high = low + Len(Secrets[m])
            /\ \A j \in 1..Len(Secrets[m]) : text[low + j] = Secrets[m][j]
    ELSE high = low + 1 /\ text[high] = symbol

\* The cuts that divide the text among the symbols of x.
Cuts(cut, text, x) ==
    /\ cut \in [0..Len(x) -> 0..Len(text)]
    /\ cut[0] = 0 /\ cut[Len(x)] = Len(text)
    /\ \A i, j \in 0..Len(x) : i <= j => cut[i] <= cut[j]
    /\ \A i \in 1..Len(x) : PieceOf(text, cut[i - 1], cut[i], x[i])

Spells(text, x) == text \in Seq(Bytes) /\ \E cut : Cuts(cut, text, x)

\* What a scan for the secret t makes of x.
ScanOf(x, y, t) ==
    /\ y \in Seq(Symbols) /\ Len(y) <= Len(x)
    /\ Follows(x, y)
    /\ Hides(y, t)
    /\ \A u \in Seq(Bytes) : Len(u) > 0 /\ Hides(x, u) => Hides(y, u)
    /\ Hides(x, t) => y = x
    /\ \A text : Spells(text, x) => Spells(text, y)

\* Secrets are sequences of bytes, newlines and markers not among them.
LEMMA SecretsAreBytes ==
    /\ Marker \notin Bytes /\ Newline \in Bytes
    /\ Secrets \in Seq(Seq(Bytes)) /\ Len(Secrets) \in Nat
    /\ \A m \in 1..Len(Secrets) :
        /\ Secrets[m] \in Seq(Bytes) /\ Len(Secrets[m]) \in Nat
        /\ \A j \in 1..Len(Secrets[m]) : Secrets[m][j] \in Bytes /\ Secrets[m][j] # Newline
<1>1. Secrets \in Seq(Seq(Bytes \ {Newline}))
    BY RedactionAssumption
<1>2. \A m \in 1..Len(Secrets) :
        /\ Secrets[m] \in Seq(Bytes \ {Newline}) /\ Len(Secrets[m]) \in Nat
        /\ \A j \in 1..Len(Secrets[m]) : Secrets[m][j] \in Bytes \ {Newline}
    BY <1>1
<1>3. \A m \in 1..Len(Secrets) : Secrets[m] \in Seq(Bytes)
    BY <1>2
<1>4. Secrets \in Seq(Seq(Bytes))
    BY <1>1, <1>3
<1> QED BY <1>1, <1>2, <1>3, <1>4, RedactionAssumption

\* A symbol put before a sequence.
LEMMA PutBefore ==
    ASSUME NEW D, NEW b \in D, NEW x \in Seq(D), NEW y, y = <<b>> \o x
    PROVE  /\ y \in Seq(D) /\ Len(y) = Len(x) + 1 /\ Len(x) \in Nat
           /\ y[1] = b /\ \A k \in 1..Len(x) : y[k + 1] = x[k]
           /\ \A k \in 2..Len(y) : y[k] = x[k - 1] /\ k - 1 \in 1..Len(x)
OBVIOUS

\* A text that does not begin here and is hidden behind, is hidden.
LEMMA HiddenBehind ==
    ASSUME NEW D, NEW b \in D, NEW x \in Seq(D), NEW y, y = <<b>> \o x,
           NEW t \in Seq(D), Len(t) > 0, Hides(x, t), ~OccursAt(t, y, 1)
    PROVE  Hides(y, t)
<1> SUFFICES ASSUME NEW from \in 1..Len(y), OccursAt(t, y, from)
             PROVE  FALSE
    BY DEF Hides
<1>1. from # 1
    OBVIOUS
<1>2. from - 1 \in 1..Len(x) /\ Len(y) = Len(x) + 1 /\ Len(x) \in Nat /\ Len(t) \in Nat
    BY <1>1, PutBefore
<1>3. OccursAt(t, x, from - 1)
    <2>1. (from - 1) + Len(t) - 1 <= Len(x)
        BY <1>2 DEF OccursAt
    <2>2. ASSUME NEW j \in 1..Len(t)
          PROVE  x[(from - 1) + j - 1] = t[j]
        <3>1. (from - 1) + j - 1 \in 1..Len(x) /\ ((from - 1) + j - 1) + 1 = from + j - 1
            BY <1>2, <2>1
        <3>2. y[((from - 1) + j - 1) + 1] = x[(from - 1) + j - 1]
            BY <3>1, PutBefore
        <3> QED BY <3>1, <3>2 DEF OccursAt
    <2> QED BY <2>1, <2>2 DEF OccursAt
<1> QED BY <1>2, <1>3 DEF Hides

\* A text hidden in a sequence is hidden in what is left of it.
LEMMA HiddenInTail ==
    ASSUME NEW D, NEW b \in D, NEW x \in Seq(D), NEW y, y = <<b>> \o x,
           NEW t \in Seq(D), Hides(y, t)
    PROVE  Hides(x, t)
<1> SUFFICES ASSUME NEW from \in 1..Len(x), OccursAt(t, x, from)
             PROVE  FALSE
    BY DEF Hides
<1>2. from + 1 \in 1..Len(y) /\ Len(y) = Len(x) + 1 /\ Len(x) \in Nat /\ Len(t) \in Nat
    BY PutBefore
<1>3. OccursAt(t, y, from + 1)
    <2>1. from + Len(t) - 1 <= Len(x)
        BY DEF OccursAt
    <2>2. ASSUME NEW j \in 1..Len(t)
          PROVE  y[(from + 1) + j - 1] = t[j]
        <3>1. from + j - 1 \in 1..Len(x) /\ (from + j - 1) + 1 = (from + 1) + j - 1
            BY <1>2, <2>1
        <3>2. y[(from + j - 1) + 1] = x[from + j - 1]
            BY <3>1, PutBefore
        <3> QED BY <3>1, <3>2 DEF OccursAt
    <2>3. (from + 1) + Len(t) - 1 <= Len(y)
        BY <1>2, <2>1
    <2> QED BY <2>2, <2>3 DEF OccursAt
<1> QED BY <1>2, <1>3 DEF Hides

\* As far as no marker stands in y, what follows x is x: a text of bytes that
\* begins behind the same symbol in y begins there in x.
LEMMA BeginsInBoth ==
    ASSUME NEW b \in Symbols, NEW x \in Seq(Symbols), NEW y \in Seq(Symbols),
           Follows(x, y), Len(y) <= Len(x), NEW t \in Seq(Bytes), Len(t) > 0,
           OccursAt(t, <<b>> \o y, 1)
    PROVE  OccursAt(t, <<b>> \o x, 1)
<1>0. PICK u, w : u = <<b>> \o x /\ w = <<b>> \o y
    OBVIOUS
<1>1. /\ Len(u) = Len(x) + 1 /\ Len(w) = Len(y) + 1 /\ Len(x) \in Nat /\ Len(y) \in Nat
      /\ Len(t) \in Nat /\ u[1] = b /\ w[1] = b
      /\ \A k \in 1..Len(x) : u[k + 1] = x[k]
      /\ \A k \in 1..Len(y) : w[k + 1] = y[k]
    BY <1>0, PutBefore
<1>2. Len(t) <= Len(w) /\ \A j \in 1..Len(t) : w[j] = t[j]
    <2>1. \A j \in 1..Len(t) : 1 + j - 1 = j
        OBVIOUS
    <2> QED BY <1>0, <1>1, <2>1 DEF OccursAt
<1>3. ASSUME NEW j \in 1..Len(t)
      PROVE  u[1 + j - 1] = t[j]
    <2>1. CASE j = 1
        BY <1>1, <1>2, <2>1
    <2>2. CASE j # 1
        <3>1. j - 1 \in 1..Len(y) /\ j - 1 \in 1..Len(x) /\ (j - 1) + 1 = j
            BY <1>1, <1>2, <2>2
        <3>2. \A i \in 1..Len(y) : i <= j - 1 => y[i] # Marker
            <4> TAKE i \in 1..Len(y)
            <4> HAVE i <= j - 1
            <4>1. i + 1 \in 1..Len(t)
                BY <1>1
            <4>2. t[i + 1] \in Bytes /\ w[i + 1] = t[i + 1] /\ w[i + 1] = y[i]
                BY <1>1, <1>2, <4>1
            <4> QED BY <4>2, SecretsAreBytes
        <3>3. y[j - 1] = x[j - 1]
            BY <3>1, <3>2 DEF Follows
        <3>4. u[j] = x[j - 1] /\ w[j] = y[j - 1]
            BY <1>1, <3>1
        <3> QED BY <1>1, <1>2, <3>3, <3>4
    <2> QED BY <2>1, <2>2
<1>4. 1 + Len(t) - 1 <= Len(u)
    BY <1>1, <1>2
<1> QED BY <1>0, <1>3, <1>4 DEF OccursAt

\* Texts end to end, and where their bytes are.
LEMMA EndToEnd ==
    ASSUME NEW D, NEW x \in Seq(D), NEW y \in Seq(D), NEW z, z = x \o y
    PROVE  /\ z \in Seq(D) /\ Len(z) = Len(x) + Len(y) /\ Len(x) \in Nat /\ Len(y) \in Nat
           /\ \A k \in 1..Len(x) : z[k] = x[k]
           /\ \A k \in 1..Len(y) : z[Len(x) + k] = y[k]
OBVIOUS

\* The pieces between two cuts, in a text that continues the first one or that
\* has it behind.
Shifted(text, other, low, high, shift) ==
    /\ low \in Nat /\ high \in Nat /\ shift \in Int
    /\ \A k \in low + 1..high : other[shift + k] = text[k]

LEMMA PieceMoves ==
    ASSUME NEW text, NEW other, NEW low, NEW high, NEW shift, NEW symbol,
           PieceOf(text, low, high, symbol), Shifted(text, other, low, high, shift)
    PROVE  PieceOf(other, shift + low, shift + high, symbol)
<1>0. low \in Nat /\ high \in Nat /\ shift \in Int
    BY DEF Shifted
<1>1. CASE symbol = Marker
    <2>1. PICK m \in 1..Len(Secrets) :
            /\ high = low + Len(Secrets[m])
            /\ \A j \in 1..Len(Secrets[m]) : text[low + j] = Secrets[m][j]
        BY <1>1 DEF PieceOf
    <2>2. Len(Secrets[m]) \in Nat
        BY SecretsAreBytes
    <2>3. shift + high = (shift + low) + Len(Secrets[m])
        <3>1. high = low + Len(Secrets[m])
            BY <2>1
        <3>2. \A n \in Nat : high = low + n => shift + high = (shift + low) + n
            BY <1>0
        <3> QED BY <2>2, <3>1, <3>2
    <2>4. ASSUME NEW j \in 1..Len(Secrets[m])
          PROVE  other[(shift + low) + j] = Secrets[m][j]
        <3>1. low + j \in low + 1..high /\ shift + (low + j) = (shift + low) + j
            BY <1>0, <2>1, <2>2
        <3> QED BY <2>1, <3>1 DEF Shifted
    <2> QED BY <1>1, <2>3, <2>4 DEF PieceOf
<1>2. CASE symbol # Marker
    <2>1. high = low + 1 /\ text[high] = symbol
        BY <1>2 DEF PieceOf
    <2>2. high \in low + 1..high /\ shift + high = (shift + low) + 1
        BY <1>0, <2>1
    <2> QED BY <1>2, <2>1, <2>2 DEF PieceOf, Shifted
<1> QED BY <1>1, <1>2

\* The empty text, a byte and a secret.
LEMMA SpellsNothing == Spells(<<>>, <<>>)
<1>1. Cuts([i \in 0..0 |-> 0], <<>>, <<>>)
    BY DEF Cuts
<1> QED BY <1>1 DEF Spells

\* A byte stands for itself.
LEMMA SpellsByte ==
    ASSUME NEW b \in Bytes
    PROVE  Spells(<<b>>, <<b>>)
<1>1. Cuts([i \in 0..1 |-> i], <<b>>, <<b>>)
    <2>1. PieceOf(<<b>>, 0, 1, b)
        BY SecretsAreBytes DEF PieceOf
    <2> QED BY <2>1 DEF Cuts
<1> QED BY <1>1 DEF Spells

\* A marker stands for any secret.
LEMMA SpellsSecret ==
    ASSUME NEW m \in 1..Len(Secrets)
    PROVE  Spells(Secrets[m], <<Marker>>)
<1>0. Secrets[m] \in Seq(Bytes) /\ Len(Secrets[m]) \in Nat
    BY SecretsAreBytes
<1>1. PICK cut : cut = [i \in 0..1 |-> IF i = 0 THEN 0 ELSE Len(Secrets[m])]
    OBVIOUS
<1>2. PieceOf(Secrets[m], 0, Len(Secrets[m]), Marker)
    <2>1. \A j \in 1..Len(Secrets[m]) : 0 + j = j
        BY <1>0
    <2> QED BY <1>0, <2>1 DEF PieceOf
<1>3. Cuts(cut, Secrets[m], <<Marker>>)
    <2>1. \A i \in 1..Len(<<Marker>>) : PieceOf(Secrets[m], cut[i - 1], cut[i], <<Marker>>[i])
        BY <1>1, <1>2
    <2> QED BY <1>0, <1>1, <2>1 DEF Cuts
<1> QED BY <1>0, <1>3 DEF Spells

\* Texts for two sequences, end to end, are a text for both end to end.
LEMMA SpellsBoth ==
    ASSUME NEW x \in Seq(Symbols), NEW y \in Seq(Symbols), NEW t, NEW u,
           Spells(t, x), Spells(u, y)
    PROVE  Spells(t \o u, x \o y)
<1>1. PICK c : Cuts(c, t, x)
    BY DEF Spells
<1>2. PICK d : Cuts(d, u, y)
    BY DEF Spells
<1>c. c \in [0..Len(x) -> 0..Len(t)] /\ c[0] = 0 /\ c[Len(x)] = Len(t)
    BY <1>1, Zenon DEF Cuts
<1>d. d \in [0..Len(y) -> 0..Len(u)] /\ d[0] = 0 /\ d[Len(y)] = Len(u)
    BY <1>2, Zenon DEF Cuts
<1>3. PICK z, v : z = x \o y /\ v = t \o u
    OBVIOUS
<1>4. t \in Seq(Bytes) /\ u \in Seq(Bytes)
    BY DEF Spells
<1>5. /\ Len(z) = Len(x) + Len(y) /\ Len(x) \in Nat /\ Len(y) \in Nat
      /\ \A k \in 1..Len(x) : z[k] = x[k]
      /\ \A k \in 1..Len(y) : z[Len(x) + k] = y[k]
    BY <1>3, EndToEnd
<1>6. /\ v \in Seq(Bytes) /\ Len(v) = Len(t) + Len(u) /\ Len(t) \in Nat /\ Len(u) \in Nat
      /\ \A k \in 1..Len(t) : v[k] = t[k]
      /\ \A k \in 1..Len(u) : v[Len(t) + k] = u[k]
    BY <1>3, <1>4, EndToEnd
<1>n. Len(z) = Len(x) + Len(y) /\ Len(x) \in Nat /\ Len(y) \in Nat
    BY <1>5
<1>v. Len(v) = Len(t) + Len(u) /\ Len(t) \in Nat /\ Len(u) \in Nat
    BY <1>6
<1>7. PICK e : e = [i \in 0..Len(z) |-> IF i <= Len(x) THEN c[i] ELSE Len(t) + d[i - Len(x)]]
    OBVIOUS
<1>8. /\ \A i \in 0..Len(x) : e[i] = c[i] /\ c[i] \in 0..Len(t)
      /\ \A i \in 0..Len(y) : e[Len(x) + i] = Len(t) + d[i] /\ d[i] \in 0..Len(u)
    <2>1. \A i \in 0..Len(x) : e[i] = c[i] /\ c[i] \in 0..Len(t)
        <3> TAKE i \in 0..Len(x)
        <3>1. i \in 0..Len(z) /\ i <= Len(x)
            BY <1>n
        <3> QED BY <1>c, <1>7, <3>1
    <2>2. \A i \in 0..Len(y) : d[i] \in 0..Len(u)
        BY <1>d
    <2>3. ASSUME NEW i \in 0..Len(y)
          PROVE  e[Len(x) + i] = Len(t) + d[i]
        <3>1. CASE i = 0
            <4>1. e[Len(x)] = Len(t) /\ d[0] = 0
                BY SMTT(40), <1>c, <1>d, <1>5, <2>1
            <4> QED BY <1>5, <1>6, <3>1, <4>1
        <3>2. CASE i # 0
            <4>1. Len(x) + i \in 0..Len(z) /\ ~(Len(x) + i <= Len(x)) /\ (Len(x) + i) - Len(x) = i
                BY <1>n, <3>2
            <4> QED BY <1>7, <4>1
        <3> QED BY <3>1, <3>2
    <2> QED BY <2>1, <2>2, <2>3
<1>9. e \in [0..Len(z) -> 0..Len(v)]
    <2>1. ASSUME NEW i \in 0..Len(z)
          PROVE  e[i] \in 0..Len(v)
        <3>1. CASE i <= Len(x)
            <4>1. i \in 0..Len(x)
                BY <1>n, <3>1
            <4>2. e[i] \in 0..Len(t)
                BY <1>8, <4>1
            <4> QED BY <1>v, <4>2
        <3>2. CASE ~(i <= Len(x))
            <4>1. i - Len(x) \in 0..Len(y) /\ Len(x) + (i - Len(x)) = i
                BY <1>n, <3>2
            <4>2. e[i] = Len(t) + d[i - Len(x)] /\ d[i - Len(x)] \in 0..Len(u)
                BY <1>8, <4>1
            <4> QED BY <1>v, <4>2
        <3> QED BY <3>1, <3>2
    <2> QED BY <1>7, <2>1
<1>10. e[0] = 0 /\ e[Len(z)] = Len(v)
    <2>1. 0 \in 0..Len(x) /\ Len(y) \in 0..Len(y)
        BY <1>n
    <2>2. e[0] = c[0] /\ e[Len(x) + Len(y)] = Len(t) + d[Len(y)]
        BY <1>8, <2>1
    <2> QED BY <1>c, <1>d, <1>n, <1>v, <2>2
<1>11. ASSUME NEW i \in 0..Len(z), NEW j \in 0..Len(z), i <= j
       PROVE  e[i] <= e[j]
    <2>1. CASE j <= Len(x)
        <3>1. i \in 0..Len(x) /\ j \in 0..Len(x)
            BY <1>n, <1>11, <2>1
        <3> QED BY <1>1, <1>8, <1>11, <3>1 DEF Cuts
    <2>2. CASE i <= Len(x) /\ ~(j <= Len(x))
        <3>1. i \in 0..Len(x) /\ j - Len(x) \in 0..Len(y) /\ Len(x) + (j - Len(x)) = j
            BY <1>n, <2>2
        <3>2. e[i] = c[i] /\ c[i] \in 0..Len(t) /\ e[j] = Len(t) + d[j - Len(x)] /\ d[j - Len(x)] \in 0..Len(u)
            BY <1>8, <3>1
        <3> QED BY <1>v, <3>2
    <2>3. CASE ~(i <= Len(x))
        <3>1. /\ i - Len(x) \in 0..Len(y) /\ Len(x) + (i - Len(x)) = i
              /\ j - Len(x) \in 0..Len(y) /\ Len(x) + (j - Len(x)) = j
              /\ i - Len(x) <= j - Len(x)
            BY <1>n, <1>11, <2>3
        <3>2. d[i - Len(x)] <= d[j - Len(x)]
            BY <1>2, <3>1 DEF Cuts
        <3>3. e[i] = Len(t) + d[i - Len(x)] /\ e[j] = Len(t) + d[j - Len(x)]
              /\ d[i - Len(x)] \in 0..Len(u) /\ d[j - Len(x)] \in 0..Len(u)
            BY <1>8, <3>1
        <3> QED BY <1>v, <3>2, <3>3
    <2> QED BY <2>1, <2>2, <2>3
<1>12. ASSUME NEW i \in 1..Len(z)
       PROVE  PieceOf(v, e[i - 1], e[i], z[i])
    <2>1. CASE i <= Len(x)
        <3>1. i \in 1..Len(x) /\ i - 1 \in 0..Len(x) /\ i \in 0..Len(x)
            BY <1>n, <2>1
        <3>2. PieceOf(t, c[i - 1], c[i], x[i]) /\ c[i - 1] \in 0..Len(t) /\ c[i] \in 0..Len(t)
            BY <1>1, <3>1 DEF Cuts
        <3>3. Shifted(t, v, c[i - 1], c[i], 0)
            <4>1. c[i - 1] \in 0..Len(t) /\ c[i] \in 0..Len(t)
                BY <3>2
            <4>2. \A k \in c[i - 1] + 1..c[i] : k \in 1..Len(t) /\ 0 + k = k
                BY <1>v, <4>1
            <4>3. \A k \in c[i - 1] + 1..c[i] : v[0 + k] = t[k]
                BY <1>6, <4>2
            <4>4. c[i - 1] \in Nat /\ c[i] \in Nat /\ 0 \in Int
                BY <4>1
            <4> QED BY <4>3, <4>4 DEF Shifted
        <3>4. PieceOf(v, 0 + c[i - 1], 0 + c[i], x[i])
            BY <3>2, <3>3, PieceMoves
        <3>6. c[i - 1] = e[i - 1] /\ c[i] = e[i] /\ z[i] = x[i]
            BY <1>5, <1>8, <3>1, Zenon
        <3>5. 0 + c[i - 1] = e[i - 1] /\ 0 + c[i] = e[i] /\ z[i] = x[i]
            <4>1. c[i - 1] \in Nat /\ c[i] \in Nat
                BY <3>2
            <4> QED BY <3>6, <4>1
        <3> QED BY <3>4, <3>5
    <2>2. CASE ~(i <= Len(x))
        <3>1. PICK h : h = i - Len(x)
            OBVIOUS
        <3>2. /\ h \in 1..Len(y) /\ h \in 0..Len(y) /\ h - 1 \in 0..Len(y)
              /\ Len(x) + h = i /\ Len(x) + (h - 1) = i - 1
            BY <1>n, <2>2, <3>1
        <3>3. PieceOf(u, d[h - 1], d[h], y[h]) /\ d[h - 1] \in 0..Len(u) /\ d[h] \in 0..Len(u)
            BY <1>2, <3>2 DEF Cuts
        <3>4. Shifted(u, v, d[h - 1], d[h], Len(t))
            <4>1. d[h - 1] \in 0..Len(u) /\ d[h] \in 0..Len(u)
                BY <3>3
            <4>2. \A k \in d[h - 1] + 1..d[h] : k \in 1..Len(u)
                BY <1>v, <4>1
            <4>3. \A k \in d[h - 1] + 1..d[h] : v[Len(t) + k] = u[k]
                BY <1>6, <4>2
            <4>4. d[h - 1] \in Nat /\ d[h] \in Nat /\ Len(t) \in Int
                BY <1>v, <4>1
            <4> QED BY <4>3, <4>4 DEF Shifted
        <3>5. PieceOf(v, Len(t) + d[h - 1], Len(t) + d[h], y[h])
            BY <3>3, <3>4, PieceMoves
        <3>6. Len(t) + d[h - 1] = e[i - 1] /\ Len(t) + d[h] = e[i] /\ z[i] = y[h]
            BY <1>5, <1>8, <3>2
        <3> QED BY <3>5, <3>6
    <2> QED BY <2>1, <2>2
<1>13. Cuts(e, v, z)
    BY <1>9, <1>10, <1>11, <1>12 DEF Cuts
<1> QED BY <1>3, <1>6, <1>13 DEF Spells

\* A sequence cut in two.
CutAt(v, a, t, u, D) ==
    /\ t \in Seq(D) /\ u \in Seq(D) /\ v = t \o u
    /\ Len(t) = a /\ Len(u) = Len(v) - a
    /\ \A k \in 1..a : t[k] = v[k]
    /\ \A k \in 1..Len(v) - a : u[k] = v[a + k]

LEMMA CutInTwo ==
    ASSUME NEW D, NEW v \in Seq(D), NEW a \in 0..Len(v),
           NEW t, t = SubSeq(v, 1, a), NEW u, u = SubSeq(v, a + 1, Len(v))
    PROVE  CutAt(v, a, t, u, D)
<1>0. Len(v) \in Nat /\ a \in Nat /\ \A k \in 1..Len(v) : v[k] \in D
    OBVIOUS
<1>1. t \in Seq(D) /\ Len(t) = a /\ \A k \in 1..a : t[k] = v[k]
    BY <1>0
<1>2. u \in Seq(D) /\ Len(u) = Len(v) - a
    BY <1>0
<1>3. \A k \in 1..Len(v) - a : u[k] = v[a + k]
    BY <1>0
<1>4. PICK w : w = t \o u
    OBVIOUS
<1>5. /\ w \in Seq(D) /\ Len(w) = a + (Len(v) - a)
      /\ \A k \in 1..a : w[k] = t[k]
      /\ \A k \in 1..Len(v) - a : w[a + k] = u[k]
    <2>1. /\ w \in Seq(D) /\ Len(w) = Len(t) + Len(u)
          /\ \A k \in 1..Len(t) : w[k] = t[k]
          /\ \A k \in 1..Len(u) : w[Len(t) + k] = u[k]
        <3>1. \A p, q \in Seq(D) :
                /\ p \o q \in Seq(D) /\ Len(p \o q) = Len(p) + Len(q)
                /\ \A k \in 1..Len(p) : (p \o q)[k] = p[k]
                /\ \A k \in 1..Len(q) : (p \o q)[Len(p) + k] = q[k]
            BY EndToEnd
        <3>2. /\ t \o u \in Seq(D) /\ Len(t \o u) = Len(t) + Len(u)
              /\ \A k \in 1..Len(t) : (t \o u)[k] = t[k]
              /\ \A k \in 1..Len(u) : (t \o u)[Len(t) + k] = u[k]
            BY <1>1, <1>2, <3>1
        <3> QED BY <1>4, <3>2, Zenon
    <2> QED BY <1>1, <1>2, <2>1, Zenon
<1>6. \A k \in 1..Len(v) : w[k] = v[k]
    <2> TAKE k \in 1..Len(v)
    <2>1. CASE k <= a
        BY <1>0, <1>1, <1>5, <2>1
    <2>2. CASE ~(k <= a)
        <3>1. k - a \in 1..Len(v) - a /\ a + (k - a) = k
            BY <1>0, <2>2
        <3> QED BY <1>3, <1>5, <3>1
    <2> QED BY <2>1, <2>2
<1>7. Len(w) = Len(v)
    BY <1>0, <1>5
<1>8. w = v
    BY <1>5, <1>6, <1>7
<1> QED BY <1>1, <1>2, <1>3, <1>4, <1>8 DEF CutAt

\* A text for two sequences end to end is one for each, end to end.
LEMMA SpellsApart ==
    ASSUME NEW x \in Seq(Symbols), NEW y \in Seq(Symbols), NEW v, Spells(v, x \o y)
    PROVE  \E t, u : v = t \o u /\ Spells(t, x) /\ Spells(u, y)
<1>1. PICK z : z = x \o y
    OBVIOUS
<1>2. PICK e : Cuts(e, v, z)
    BY <1>1 DEF Spells
<1>3. v \in Seq(Bytes) /\ Len(v) \in Nat
    BY DEF Spells
<1>4. /\ Len(z) = Len(x) + Len(y) /\ Len(x) \in Nat /\ Len(y) \in Nat
      /\ \A k \in 1..Len(x) : z[k] = x[k]
      /\ \A k \in 1..Len(y) : z[Len(x) + k] = y[k]
    BY <1>1, EndToEnd
<1>5. e \in [0..Len(z) -> 0..Len(v)] /\ e[0] = 0 /\ e[Len(z)] = Len(v)
    BY <1>2, Zenon DEF Cuts
<1>6. \A i, j \in 0..Len(z) : i <= j => e[i] <= e[j]
    BY <1>2, Zenon DEF Cuts
<1>7. \A i \in 1..Len(z) : PieceOf(v, e[i - 1], e[i], z[i])
    BY <1>2, Zenon DEF Cuts
<1>8. PICK a : a = e[Len(x)]
    OBVIOUS
<1>9. a \in 0..Len(v)
    <2>1. Len(x) \in 0..Len(z)
        BY <1>4
    <2> QED BY <1>5, <1>8, <2>1
<1>10. PICK t, u : t = SubSeq(v, 1, a) /\ u = SubSeq(v, a + 1, Len(v))
    OBVIOUS
<1>11. /\ t \in Seq(Bytes) /\ u \in Seq(Bytes) /\ v = t \o u
       /\ Len(t) = a /\ Len(u) = Len(v) - a
       /\ \A k \in 1..a : t[k] = v[k]
       /\ \A k \in 1..Len(v) - a : u[k] = v[a + k]
    <2>1. CutAt(v, a, t, u, Bytes)
        BY <1>3, <1>9, <1>10, CutInTwo
    <2> QED BY <2>1 DEF CutAt
<1>12. Cuts([i \in 0..Len(x) |-> e[i]], t, x)
    <2>1. PICK c : c = [i \in 0..Len(x) |-> e[i]]
        OBVIOUS
    <2>2. ASSUME NEW i \in 0..Len(x)
          PROVE  c[i] = e[i] /\ c[i] \in 0..a /\ i \in 0..Len(z)
        <3>1. i \in 0..Len(z) /\ Len(x) \in 0..Len(z) /\ i <= Len(x)
            BY <1>4
        <3>2. c[i] = e[i] /\ e[i] \in 0..Len(v) /\ e[i] <= a
            BY <1>5, <1>6, <1>8, <2>1, <3>1
        <3> QED BY <1>3, <1>9, <3>1, <3>2
    <2>3. c \in [0..Len(x) -> 0..Len(t)]
        BY <1>11, <2>1, <2>2
    <2>4. c[0] = 0 /\ c[Len(x)] = Len(t)
        BY <1>4, <1>5, <1>8, <1>11, <2>2
    <2>5. \A i, j \in 0..Len(x) : i <= j => c[i] <= c[j]
        BY <1>6, <2>2
    <2>6. ASSUME NEW i \in 1..Len(x)
          PROVE  PieceOf(t, c[i - 1], c[i], x[i])
        <3>1. i \in 1..Len(z) /\ i \in 0..Len(x) /\ i - 1 \in 0..Len(x)
            BY <1>4
        <3>2. PieceOf(v, e[i - 1], e[i], z[i])
            BY <1>7, <3>1
        <3>3. Shifted(v, t, e[i - 1], e[i], 0)
            <4>1. e[i - 1] \in 0..a /\ e[i] \in 0..a
                BY <2>2, <3>1
            <4>2. \A k \in e[i - 1] + 1..e[i] : k \in 1..a /\ 0 + k = k
                BY <1>9, <4>1
            <4> QED BY <1>11, <4>1, <4>2 DEF Shifted
        <3>4. PieceOf(t, 0 + e[i - 1], 0 + e[i], z[i])
            BY <3>2, <3>3, PieceMoves
        <3>5. z[i] = x[i] /\ 0 + e[i - 1] = c[i - 1] /\ 0 + e[i] = c[i]
            BY <1>4, <1>9, <2>2, <3>1
        <3> QED BY <3>4, <3>5
    <2> QED BY <2>1, <2>3, <2>4, <2>5, <2>6 DEF Cuts
<1>13. Cuts([i \in 0..Len(y) |-> e[Len(x) + i] - a], u, y)
    <2>1. PICK d : d = [i \in 0..Len(y) |-> e[Len(x) + i] - a]
        OBVIOUS
    <2>2. ASSUME NEW i \in 0..Len(y)
          PROVE  /\ Len(x) + i \in 0..Len(z) /\ d[i] = e[Len(x) + i] - a
                 /\ e[Len(x) + i] \in 0..Len(v) /\ a <= e[Len(x) + i]
        <3>1. Len(x) + i \in 0..Len(z) /\ Len(x) \in 0..Len(z) /\ Len(x) <= Len(x) + i
            BY <1>4
        <3>2. e[Len(x) + i] \in 0..Len(v) /\ a <= e[Len(x) + i]
            BY <1>5, <1>6, <1>8, <3>1
        <3> QED BY <2>1, <3>1, <3>2
    <2>3. d \in [0..Len(y) -> 0..Len(u)]
        <3>1. \A i \in 0..Len(y) : d[i] \in 0..Len(u)
            <4> TAKE i \in 0..Len(y)
            <4>1. d[i] = e[Len(x) + i] - a /\ e[Len(x) + i] \in 0..Len(v) /\ a <= e[Len(x) + i]
                BY <2>2
            <4>2. Len(u) = Len(v) - a
                BY <1>11
            <4> QED BY <1>3, <1>9, <4>1, <4>2
        <3> QED BY <2>1, <3>1
    <2>4. d[0] = 0 /\ d[Len(y)] = Len(u)
        <3>1. 0 \in 0..Len(y) /\ Len(y) \in 0..Len(y) /\ Len(x) + 0 = Len(x)
            BY <1>4
        <3>2. d[0] = a - a /\ d[Len(y)] = Len(v) - a
            BY <1>4, <1>5, <1>8, <2>2, <3>1
        <3> QED BY <1>9, <1>11, <3>2
    <2>5. \A i, j \in 0..Len(y) : i <= j => d[i] <= d[j]
        <3> TAKE i, j \in 0..Len(y)
        <3> HAVE i <= j
        <3>1. Len(x) + i <= Len(x) + j
            BY <1>4
        <3>2. e[Len(x) + i] <= e[Len(x) + j]
            BY <1>6, <2>2, <3>1
        <3> QED BY <1>9, <2>2, <3>2
    <2>6. ASSUME NEW i \in 1..Len(y)
          PROVE  PieceOf(u, d[i - 1], d[i], y[i])
        <3>1. /\ Len(x) + i \in 1..Len(z) /\ i \in 0..Len(y) /\ i - 1 \in 0..Len(y)
              /\ (Len(x) + i) - 1 = Len(x) + (i - 1)
            BY <1>4
        <3>2. PICK low, high : low = e[Len(x) + (i - 1)] /\ high = e[Len(x) + i]
            OBVIOUS
        <3>3. PieceOf(v, low, high, z[Len(x) + i])
            BY <1>7, <3>1, <3>2
        <3>4. /\ low \in 0..Len(v) /\ high \in 0..Len(v) /\ a <= low
              /\ d[i - 1] = low - a /\ d[i] = high - a
            BY <2>2, <3>1, <3>2
        <3>5. Shifted(v, u, low, high, -a)
            <4>1. \A k \in low + 1..high : k - a \in 1..Len(v) - a /\ a + (k - a) = k /\ (-a) + k = k - a
                BY <1>3, <1>9, <3>4
            <4>2. \A k \in low + 1..high : u[(-a) + k] = v[k]
                BY <1>11, <4>1
            <4>3. low \in Nat /\ high \in Nat /\ -a \in Int
                BY <1>9, <3>4
            <4> QED BY <4>2, <4>3 DEF Shifted
        <3>6. PieceOf(u, (-a) + low, (-a) + high, z[Len(x) + i])
            BY <3>3, <3>5, PieceMoves
        <3>7. z[Len(x) + i] = y[i] /\ (-a) + low = d[i - 1] /\ (-a) + high = d[i]
            BY <1>4, <1>9, <3>4
        <3> QED BY <3>6, <3>7
    <2> QED BY <2>1, <2>3, <2>4, <2>5, <2>6 DEF Cuts
<1> QED BY <1>11, <1>12, <1>13 DEF Spells

\* Bytes stand for themselves only.
LEMMA SpellsBytes ==
    ASSUME NEW x \in Seq(Bytes), NEW v, Spells(v, x)
    PROVE  v = x
<1>1. PICK e : Cuts(e, v, x)
    BY DEF Spells
<1>2. v \in Seq(Bytes) /\ Len(v) \in Nat /\ Len(x) \in Nat
    BY DEF Spells
<1>3. e[0] = 0 /\ e[Len(x)] = Len(v)
    BY <1>1, Zenon DEF Cuts
<1>4. \A i \in 1..Len(x) : PieceOf(v, e[i - 1], e[i], x[i])
    BY <1>1, Zenon DEF Cuts
<1>5. \A i \in 1..Len(x) : e[i] = e[i - 1] + 1 /\ v[e[i]] = x[i]
    <2> TAKE i \in 1..Len(x)
    <2>1. x[i] # Marker
        BY SecretsAreBytes
    <2> QED BY <1>4, <2>1 DEF PieceOf
<1>6. \A i \in 0..Len(x) : e[i] = i
    <2> DEFINE Bad == { i \in 0..Len(x) : e[i] # i }
    <2> SUFFICES ASSUME Bad # {}
                 PROVE  FALSE
        OBVIOUS
    <2>1. Bad \subseteq Nat
        OBVIOUS
    <2>2. PICK i \in Bad : \A j \in Bad : i <= j
        BY <2>1, LeastOf
    <2>3. i # 0
        BY <1>3
    <2>4. i \in 1..Len(x) /\ i - 1 \in 0..Len(x) /\ ~(i <= i - 1)
        BY <2>3
    <2>5. e[i - 1] = i - 1
        BY <2>2, <2>4
    <2>6. e[i] = (i - 1) + 1
        BY <1>5, <2>4, <2>5
    <2> QED BY <2>4, <2>6
<1>7. Len(v) = Len(x) /\ \A i \in 1..Len(x) : v[i] = x[i]
    BY <1>2, <1>3, <1>5, <1>6
<1> QED BY <1>2, <1>7

\* Bytes stand for themselves.
LEMMA SpellsItself ==
    ASSUME NEW x \in Seq(Bytes)
    PROVE  Spells(x, x)
<1>1. PICK e : e = [i \in 0..Len(x) |-> i]
    OBVIOUS
<1>2. Cuts(e, x, x)
    <2>1. ASSUME NEW i \in 1..Len(x)
          PROVE  PieceOf(x, e[i - 1], e[i], x[i])
        <3>1. x[i] # Marker /\ e[i - 1] = i - 1 /\ e[i] = i
            BY <1>1, SecretsAreBytes
        <3> QED BY <3>1 DEF PieceOf
    <2> QED BY <1>1, <2>1 DEF Cuts
<1> QED BY <1>2 DEF Spells

\* The three ways a scan goes on.  At the end nothing is left.
LEMMA ScanEnds ==
    ASSUME NEW t \in Seq(Bytes), Len(t) > 0
    PROVE  ScanOf(<<>>, <<>>, t)
BY DEF ScanOf, Follows, Hides

\* The secret does not begin here: the symbol is copied.
LEMMA ScanCopies ==
    ASSUME NEW b \in Symbols, NEW x \in Seq(Symbols), NEW y, NEW t \in Seq(Bytes), Len(t) > 0,
           ScanOf(x, y, t), ~OccursAt(t, <<b>> \o x, 1)
    PROVE  ScanOf(<<b>> \o x, <<b>> \o y, t)
<1>0. PICK u, w : u = <<b>> \o x /\ w = <<b>> \o y
    OBVIOUS
<1>a. y \in Seq(Symbols) /\ Len(y) <= Len(x) /\ Follows(x, y)
    BY DEF ScanOf
<1>1. /\ u \in Seq(Symbols) /\ Len(u) = Len(x) + 1 /\ Len(x) \in Nat /\ u[1] = b
      /\ \A k \in 2..Len(u) : u[k] = x[k - 1] /\ k - 1 \in 1..Len(x)
    BY <1>0
<1>2. /\ w \in Seq(Symbols) /\ Len(w) = Len(y) + 1 /\ Len(y) \in Nat /\ w[1] = b
      /\ \A k \in 1..Len(y) : w[k + 1] = y[k]
    BY <1>0, <1>a
<1>3. Len(w) <= Len(u)
    BY <1>a, <1>1, <1>2
<1>4. Follows(u, w)
    <2> SUFFICES ASSUME NEW k \in 1..Len(u)
                 PROVE  \/ k <= Len(w) /\ w[k] = u[k]
                        \/ \E j \in 1..Len(w) : j <= k /\ w[j] = Marker
        BY DEF Follows
    <2>1. CASE k = 1
        BY <1>1, <1>2, <2>1
    <2>2. CASE k # 1
        <3>1. k \in 2..Len(u) /\ k - 1 \in 1..Len(x) /\ u[k] = x[k - 1] /\ (k - 1) + 1 = k
            BY <1>1, <2>2
        <3>2. CASE k - 1 <= Len(y) /\ y[k - 1] = x[k - 1]
            <4>1. k - 1 \in 1..Len(y) /\ k <= Len(w)
                BY <1>2, <3>1, <3>2
            <4>2. w[(k - 1) + 1] = y[k - 1]
                BY <1>2, <4>1
            <4> QED BY <3>1, <3>2, <4>1, <4>2
        <3>3. ASSUME NEW j \in 1..Len(y), j <= k - 1, y[j] = Marker
              PROVE  \E h \in 1..Len(w) : h <= k /\ w[h] = Marker
            <4>1. j + 1 \in 1..Len(w) /\ j + 1 <= k /\ w[j + 1] = y[j]
                BY <1>2, <3>1, <3>3
            <4> QED BY <3>3, <4>1
        <3> QED BY <1>a, <3>1, <3>2, <3>3 DEF Follows
    <2> QED BY <2>1, <2>2
<1>b. t \in Seq(Symbols) /\ Seq(Bytes) \subseteq Seq(Symbols)
    BY DEF Symbols
<1>5. ASSUME NEW s \in Seq(Bytes), Len(s) > 0, Hides(y, s), ~OccursAt(s, u, 1)
      PROVE  Hides(w, s)
    <2>1. ~OccursAt(s, w, 1)
        BY <1>0, <1>a, <1>5, BeginsInBoth
    <2>2. s \in Seq(Symbols)
        BY <1>b
    <2> QED BY <1>0, <1>a, <1>5, <2>1, <2>2, HiddenBehind, Zenon
<1>6. Hides(w, t)
    BY <1>0, <1>5 DEF ScanOf
<1>7. ASSUME NEW s \in Seq(Bytes), Len(s) > 0, Hides(u, s)
      PROVE  Hides(w, s)
    <2>1. Hides(x, s)
        BY <1>0, <1>b, <1>7, HiddenInTail, Zenon
    <2>2. Hides(y, s)
        BY <1>7, <2>1 DEF ScanOf
    <2>3. ~OccursAt(s, u, 1)
        BY <1>1, <1>7 DEF Hides
    <2> QED BY <1>5, <1>7, <2>2, <2>3
<1>8. ASSUME Hides(u, t)
      PROVE  w = u
    <2>1. Hides(x, t)
        BY <1>0, <1>b, <1>8, HiddenInTail, Zenon
    <2> QED BY <1>0, <2>1 DEF ScanOf
<1>9. ASSUME NEW text, Spells(text, u)
      PROVE  Spells(text, w)
    <2>0. <<b>> \in Seq(Symbols)
        OBVIOUS
    <2>1. PICK p, q : text = p \o q /\ Spells(p, <<b>>) /\ Spells(q, x)
        BY <1>0, <1>9, <2>0, SpellsApart
    <2>2. Spells(q, y)
        BY <2>1 DEF ScanOf
    <2> QED BY <1>0, <1>a, <2>0, <2>1, <2>2, SpellsBoth
<1> QED BY <1>0, <1>2, <1>3, <1>4, <1>6, <1>7, <1>8, <1>9 DEF ScanOf

\* The secret begins here: a marker takes its place.
LEMMA ScanReplaces ==
    ASSUME NEW m \in 1..Len(Secrets), NEW t, t = Secrets[m], Len(t) > 0,
           NEW x \in Seq(Symbols), NEW y, ScanOf(x, y, t)
    PROVE  ScanOf(t \o x, <<Marker>> \o y, t)
<1>0. PICK u, w : u = t \o x /\ w = <<Marker>> \o y
    OBVIOUS
<1>a. y \in Seq(Symbols) /\ Len(y) <= Len(x) /\ Follows(x, y) /\ Marker \in Symbols
    BY DEF ScanOf, Symbols
<1>b. t \in Seq(Bytes) /\ Seq(Bytes) \subseteq Seq(Symbols) /\ t \in Seq(Symbols)
    BY SecretsAreBytes DEF Symbols
<1>1. /\ u \in Seq(Symbols) /\ Len(u) = Len(t) + Len(x) /\ Len(x) \in Nat /\ Len(t) \in Nat
      /\ \A k \in 1..Len(t) : u[k] = t[k]
      /\ \A k \in 1..Len(x) : u[Len(t) + k] = x[k]
    BY <1>0, <1>b
<1>2. /\ w \in Seq(Symbols) /\ Len(w) = Len(y) + 1 /\ Len(y) \in Nat /\ w[1] = Marker
    BY <1>0, <1>a
<1>3. Len(w) <= Len(u)
    BY <1>a, <1>1, <1>2
<1>4. Follows(u, w)
    BY <1>1, <1>2 DEF Follows
<1>5. ASSUME NEW s \in Seq(Bytes), Len(s) > 0, Hides(y, s)
      PROVE  Hides(w, s)
    <2>1. ~OccursAt(s, w, 1)
        <3>1. s[1] \in Bytes /\ 1 \in 1..Len(s) /\ 1 + 1 - 1 = 1
            BY <1>5
        <3> QED BY <1>2, <3>1, SecretsAreBytes DEF OccursAt
    <2>2. s \in Seq(Symbols)
        BY <1>b
    <2> QED BY <1>0, <1>a, <1>5, <2>1, <2>2, HiddenBehind, Zenon
<1>6. Hides(w, t)
    BY <1>b, <1>5 DEF ScanOf
<1>7. ASSUME NEW s \in Seq(Bytes), Len(s) > 0, Hides(u, s)
      PROVE  Hides(w, s)
    <2>1. Hides(x, s)
        <3> SUFFICES ASSUME NEW from \in 1..Len(x), OccursAt(s, x, from)
                     PROVE  FALSE
            BY DEF Hides
        <3>1. Len(t) + from \in 1..Len(u) /\ Len(s) \in Nat
            BY <1>1
        <3>2. OccursAt(s, u, Len(t) + from)
            <4>1. from + Len(s) - 1 <= Len(x)
                BY DEF OccursAt
            <4>2. ASSUME NEW j \in 1..Len(s)
                  PROVE  u[(Len(t) + from) + j - 1] = s[j]
                <5>1. from + j - 1 \in 1..Len(x) /\ Len(t) + (from + j - 1) = (Len(t) + from) + j - 1
                    <6>1. Len(t) \in Nat /\ Len(x) \in Nat
                        BY <1>1
                    <6>2. \A n \in Nat : n + (from + j - 1) = (n + from) + j - 1
                        BY <3>1, <6>1
                    <6>3. from + j - 1 \in 1..Len(x)
                        BY <3>1, <4>1, <6>1
                    <6> QED BY <6>1, <6>2, <6>3
                <5> QED BY <1>1, <5>1 DEF OccursAt
            <4>3. (Len(t) + from) + Len(s) - 1 <= Len(u)
                BY <1>1, <3>1, <4>1
            <4> QED BY <4>2, <4>3 DEF OccursAt
        <3> QED BY <1>7, <3>1, <3>2 DEF Hides
    <2>2. Hides(y, s)
        BY <1>7, <2>1 DEF ScanOf
    <2> QED BY <1>5, <1>7, <2>2
<1>8. ~Hides(u, t)
    <2>1. OccursAt(t, u, 1) /\ 1 \in 1..Len(u)
        BY <1>1 DEF OccursAt
    <2> QED BY <2>1 DEF Hides
<1>9. ASSUME NEW text, Spells(text, u)
      PROVE  Spells(text, w)
    <2>1. PICK p, q : text = p \o q /\ Spells(p, t) /\ Spells(q, x)
        BY <1>0, <1>b, <1>9, SpellsApart
    <2>2. Spells(q, y)
        BY <2>1 DEF ScanOf
    <2>3. Spells(p, <<Marker>>) /\ <<Marker>> \in Seq(Symbols)
        <3>1. p = t
            BY <1>b, <2>1, SpellsBytes
        <3> QED BY <1>a, <3>1, SpellsSecret
    <2> QED BY <1>0, <1>a, <2>1, <2>2, <2>3, SpellsBoth
<1> QED BY <1>0, <1>2, <1>3, <1>4, <1>6, <1>7, <1>8, <1>9 DEF ScanOf

\* One step of the scan of v for t, from the rest of the scan.
Matches(v, t, i) ==
    i + Len(t) - 1 <= Len(v) /\ SubSeq(v, i, i + Len(t) - 1) = t
ScanStep(f, v, t, i) ==
    CASE i > Len(v) -> <<>>
      [] i + Len(t) - 1 <= Len(v) /\ SubSeq(v, i, i + Len(t) - 1) = t
           -> <<Marker>> \o f[i + Len(t)]
      [] OTHER -> <<v[i]>> \o f[i + 1]

ScansFrom(f, v, t, low) == f = [i \in low..Len(v) + 1 |-> ScanStep(f, v, t, i)]

StepIs(f, v, t, i) ==
    /\ i > Len(v) => ScanStep(f, v, t, i) = <<>>
    /\ Matches(v, t, i) => ScanStep(f, v, t, i) = <<Marker>> \o f[i + Len(t)]
    /\ i <= Len(v) /\ ~Matches(v, t, i) => ScanStep(f, v, t, i) = <<v[i]>> \o f[i + 1]

\* What a step of the scan is, case by case.
LEMMA ScanStepIs ==
    ASSUME NEW f, NEW v, NEW t, NEW i \in Int, Len(v) \in Nat, Len(t) \in Nat, Len(t) > 0
    PROVE  StepIs(f, v, t, i)
<1>1. i > Len(v) => ~(i <= Len(v)) /\ ~(i + Len(t) - 1 <= Len(v))
    OBVIOUS
<1>2. Matches(v, t, i) => ~(i > Len(v))
    BY DEF Matches
<1>3. i <= Len(v) => ~(i > Len(v))
    OBVIOUS
<1> QED BY <1>1, <1>2, <1>3, Zenon DEF ScanStep, Matches, StepIs

\* A step depends on the rest of the scan only.
LEMMA ScanStepAgrees ==
    ASSUME NEW f, NEW g, NEW v, NEW t, NEW i \in Nat, Len(v) \in Nat, Len(t) \in Nat, Len(t) > 0,
           \A k \in i + 1..Len(v) + 1 : f[k] = g[k]
    PROVE  ScanStep(f, v, t, i) = ScanStep(g, v, t, i)
<1>0. StepIs(f, v, t, i) /\ StepIs(g, v, t, i)
    BY ScanStepIs
<1>1. CASE i > Len(v)
    BY <1>0, <1>1 DEF StepIs
<1>2. CASE Matches(v, t, i)
    <2>1. i + Len(t) \in i + 1..Len(v) + 1
        BY <1>2 DEF Matches
    <2>2. f[i + Len(t)] = g[i + Len(t)]
        BY <2>1
    <2> QED BY <1>0, <1>2, <2>2 DEF StepIs
<1>3. CASE i <= Len(v) /\ ~Matches(v, t, i)
    <2>1. i + 1 \in i + 1..Len(v) + 1
        BY <1>3
    <2>2. f[i + 1] = g[i + 1]
        BY <2>1
    <2> QED BY <1>0, <1>3, <2>2 DEF StepIs
<1> QED BY <1>1, <1>2, <1>3

\* Every sequence can be scanned.
LEMMA ScanExists ==
    ASSUME NEW v, NEW t, Len(v) \in Nat, Len(t) \in Nat, Len(t) > 0
    PROVE  \E f : ScansFrom(f, v, t, 1)
<1> DEFINE L == Len(v)
           Bad == { m \in 0..L : ~ \E f : ScansFrom(f, v, t, L + 1 - m) }
<1> HIDE DEF L
<1>0. L \in Nat /\ L = Len(v)
    BY DEF L
<1> SUFFICES ASSUME ~ \E f : ScansFrom(f, v, t, 1)
             PROVE  FALSE
    OBVIOUS
<1>1. L \in Bad
    <2>1. L + 1 - L = 1 /\ L \in 0..L
        BY <1>0
    <2> QED BY <2>1
<1>2. Bad \subseteq Nat
    OBVIOUS
<1>3. PICK m \in Bad : \A k \in Bad : m <= k
    BY <1>1, <1>2, LeastOf
<1>4. m # 0
    <2>1. ASSUME m = 0
          PROVE  \E f : ScansFrom(f, v, t, L + 1 - m)
        <3>0. L + 1 - m = L + 1 /\ L + 1 \in Int /\ L + 1 > Len(v)
            BY <1>0, <2>1
        <3>1. PICK f : f = [i \in L + 1..L + 1 |-> <<>>]
            OBVIOUS
        <3>2. \A i \in L + 1..L + 1 : i = L + 1
            BY <1>0
        <3>3. \A i \in L + 1..L + 1 : ScanStep(f, v, t, i) = <<>>
            <4>1. StepIs(f, v, t, L + 1)
                BY <3>0, ScanStepIs
            <4> QED BY <3>0, <3>2, <4>1 DEF StepIs
        <3>4. f = [i \in L + 1..L + 1 |-> ScanStep(f, v, t, i)]
            BY <3>1, <3>3
        <3> QED BY <1>0, <3>0, <3>4, Zenon DEF ScansFrom
    <2> QED BY <2>1
<1>5. PICK low : low = L + 1 - m
    OBVIOUS
<1>6. low \in 1..L /\ L + 1 - (m - 1) = low + 1 /\ m - 1 \in 0..L /\ ~(m <= m - 1)
    BY <1>0, <1>4, <1>5
<1>7. PICK f : ScansFrom(f, v, t, low + 1)
    BY <1>3, <1>6
<1>8. PICK g : g = [i \in low..L + 1 |-> IF i = low THEN ScanStep(f, v, t, low) ELSE f[i]]
    OBVIOUS
<1>9. ASSUME NEW i \in low..L + 1
      PROVE  g[i] = ScanStep(g, v, t, i)
    <2>1. \A k \in i + 1..L + 1 : f[k] = g[k]
        <3> TAKE k \in i + 1..L + 1
        <3>1. k \in low..L + 1 /\ k # low
            BY <1>0, <1>6
        <3> QED BY <1>8, <3>1
    <2>2. ScanStep(f, v, t, i) = ScanStep(g, v, t, i)
        <3>1. i \in Nat
            BY <1>0, <1>6
        <3> QED BY <1>0, <2>1, <3>1, ScanStepAgrees
    <2>3. CASE i = low
        BY <1>8, <2>2, <2>3
    <2>4. CASE i # low
        <3>1. i \in low + 1..L + 1
            BY <1>0, <1>6, <2>4
        <3>2. f[i] = ScanStep(f, v, t, i)
            BY <1>0, <1>7, <3>1, Zenon DEF ScansFrom
        <3> QED BY <1>8, <2>2, <2>4, <3>2
    <2> QED BY <2>3, <2>4
<1>10. ScansFrom(g, v, t, low)
    <2>1. g = [i \in low..L + 1 |-> g[i]]
        BY <1>8
    <2>2. g = [i \in low..L + 1 |-> ScanStep(g, v, t, i)]
        BY <1>9, <2>1, Zenon
    <2> QED BY <1>0, <2>2, Zenon DEF ScansFrom
<1> QED BY <1>5, <1>10

\* What ReplaceSecret returns.
LEMMA ReplaceSecretIs ==
    ASSUME NEW v, NEW t, Len(v) \in Nat, Len(t) \in Nat, Len(t) > 0
    PROVE  \E f : /\ ReplaceSecret(v, t) = f[1]
                  /\ \A i \in 1..Len(v) + 1 : f[i] = ScanStep(f, v, t, i)
<1>1. PICK f : f = CHOOSE g : ScansFrom(g, v, t, 1)
    OBVIOUS
<1>2. ScansFrom(f, v, t, 1)
    BY <1>1, ScanExists, Zenon
<1>3. \A i \in 1..Len(v) + 1 : f[i] = ScanStep(f, v, t, i)
    BY <1>2, Zenon DEF ScansFrom
<1>4. ReplaceSecret(v, t) = f[1]
    <2>1. Len(t) # 0
        OBVIOUS
    <2> QED BY <1>1, <2>1, Zenon DEF ReplaceSecret, ScansFrom, ScanStep
<1> QED BY <1>3, <1>4

\* The rest of a sequence, from a place and behind it.
LEMMA RestFrom ==
    ASSUME NEW D, NEW v \in Seq(D), NEW i \in 1..Len(v), NEW n \in Nat, i + n - 1 <= Len(v)
    PROVE  SubSeq(v, i, Len(v)) = SubSeq(v, i, i + n - 1) \o SubSeq(v, i + n, Len(v))
<1>0. Len(v) \in Nat /\ \A k \in 1..Len(v) : v[k] \in D
    OBVIOUS
<1>1. PICK p, x, y, z : /\ p = i + n /\ x = SubSeq(v, i, i + n - 1)
                        /\ y = SubSeq(v, p, Len(v)) /\ z = SubSeq(v, i, Len(v))
    OBVIOUS
<1>a. p \in 1..Len(v) + 1 /\ p = i + n
    BY <1>0, <1>1
<1>2. /\ x \in Seq(D) /\ Len(x) = n /\ \A k \in 1..n : x[k] = v[i + k - 1]
    BY <1>0, <1>1
<1>3. /\ y \in Seq(D) /\ Len(y) = Len(v) - p + 1
      /\ \A k \in 1..Len(y) : y[k] = v[p + k - 1]
    <2>1. y = SubSeq(v, p, Len(v))
        BY <1>1
    <2>2. CASE p \in 1..Len(v)
        BY <1>0, <2>1, <2>2
    <2>3. CASE p = Len(v) + 1
        <3>1. y = <<>>
            BY <1>0, <2>1, <2>3
        <3> QED BY <1>0, <2>3, <3>1
    <2> QED BY <1>0, <1>a, <2>2, <2>3
<1>4. /\ z \in Seq(D) /\ Len(z) = Len(v) - i + 1
      /\ \A k \in 1..Len(z) : z[k] = v[i + k - 1]
    BY <1>0, <1>1
<1>5. PICK w : w = x \o y
    OBVIOUS
<1>6. /\ w \in Seq(D) /\ Len(w) = Len(x) + Len(y)
      /\ \A k \in 1..Len(x) : w[k] = x[k]
      /\ \A k \in 1..Len(y) : w[Len(x) + k] = y[k]
    <2>1. x \in Seq(D) /\ y \in Seq(D)
        BY <1>2, <1>3
    <2> QED BY <1>5, <2>1
<1>8. Len(w) = Len(z) /\ Len(z) \in Nat
    BY <1>0, <1>a, <1>2, <1>3, <1>4, <1>6
<1>7. ASSUME NEW k \in 1..Len(z)
      PROVE  w[k] = z[k]
    <2>1. CASE k <= n
        <3>1. k \in 1..n
            BY <1>8, <2>1
        <3> QED BY <1>2, <1>4, <1>6, <3>1
    <2>2. CASE ~(k <= n)
        <3>0. Len(x) = n /\ Len(y) = Len(v) - p + 1 /\ Len(z) = Len(v) - i + 1
            BY <1>2, <1>3, <1>4
        <3>1. k - n \in 1..Len(y) /\ n + (k - n) = k /\ p + (k - n) - 1 = i + k - 1
            BY <1>0, <1>a, <2>2, <3>0
        <3>2. w[n + (k - n)] = y[k - n]
            BY <1>6, <3>0, <3>1
        <3>3. y[k - n] = v[p + (k - n) - 1]
            BY <1>3, <3>1
        <3> QED BY <1>4, <3>1, <3>2, <3>3
    <2> QED BY <2>1, <2>2
<1>9. w = z
    <2>1. w \in Seq(D) /\ z \in Seq(D)
        BY <1>4, <1>6
    <2> QED BY <1>7, <1>8, <2>1
<1> QED BY <1>1, <1>5, <1>9

\* A secret matches where the rest of the sequence begins with it.
LEMMA MatchIsOccurrence ==
    ASSUME NEW D, NEW v \in Seq(D), NEW i \in 1..Len(v), NEW t \in Seq(D), Len(t) > 0,
           OccursAt(t, SubSeq(v, i, Len(v)), 1)
    PROVE  Matches(v, t, i)
<1>0. Len(v) \in Nat /\ Len(t) \in Nat /\ \A k \in 1..Len(v) : v[k] \in D
    OBVIOUS
<1>1. PICK z : z = SubSeq(v, i, Len(v))
    OBVIOUS
<1>2. Len(z) = Len(v) - i + 1 /\ \A k \in 1..Len(z) : z[k] = v[i + k - 1]
    BY <1>0, <1>1
<1>3. 1 + Len(t) - 1 <= Len(z) /\ \A j \in 1..Len(t) : z[1 + j - 1] = t[j]
    BY <1>1, Zenon DEF OccursAt
<1>4. i + Len(t) - 1 <= Len(v)
    BY <1>0, <1>2, <1>3
<1>5. \A j \in 1..Len(t) : v[i + j - 1] = t[j]
    <2> TAKE j \in 1..Len(t)
    <2>1. 1 + j - 1 = j /\ j \in 1..Len(z)
        BY <1>0, <1>2, <1>3
    <2> QED BY <1>2, <1>3, <2>1
<1>6. PICK x : x = SubSeq(v, i, i + Len(t) - 1)
    OBVIOUS
<1>7. x \in Seq(D) /\ Len(x) = Len(t) /\ \A k \in 1..Len(t) : x[k] = v[i + k - 1]
    BY <1>0, <1>4, <1>6
<1>8. x = t
    BY <1>5, <1>7
<1> QED BY <1>4, <1>6, <1>8 DEF Matches

\* A slice of one symbol.
LEMMA OneSymbol ==
    ASSUME NEW D, NEW v \in Seq(D), NEW i \in 1..Len(v)
    PROVE  SubSeq(v, i, i) = <<v[i]>>
<1>1. PICK w : w = SubSeq(v, i, i)
    OBVIOUS
<1>2. w \in Seq(D) /\ Len(w) = 1 /\ w[1] = v[i]
    <2>1. i \in Nat /\ i - i + 1 = 1 /\ i + 1 - 1 = i /\ v[i] \in D
        OBVIOUS
    <2>2. SubSeq(v, i, i) \in Seq(D) /\ Len(SubSeq(v, i, i)) = 1
        BY <2>1
    <2>3. SubSeq(v, i, i)[1] = v[i]
        BY <2>1
    <2> QED BY <1>1, <2>2, <2>3
<1>3. w = <<w[1]>>
    BY <1>2
<1> QED BY <1>1, <1>2, <1>3

\* ReplaceSecret is a scan for the secret.
LEMMA ReplaceSecretScans ==
    ASSUME NEW v \in Seq(Symbols), NEW m \in 1..Len(Secrets), NEW t, t = Secrets[m], Len(t) > 0
    PROVE  ScanOf(v, ReplaceSecret(v, t), t)
<1> DEFINE L == Len(v)
<1>0. L \in Nat /\ Len(t) \in Nat /\ t \in Seq(Bytes) /\ t \in Seq(Symbols)
      /\ \A k \in 1..L : v[k] \in Symbols
    BY SecretsAreBytes DEF Symbols
<1>1. PICK f : /\ ReplaceSecret(v, t) = f[1]
               /\ \A i \in 1..L + 1 : f[i] = ScanStep(f, v, t, i)
    BY <1>0, ReplaceSecretIs
<1> DEFINE Bad == { k \in 0..L : ~ScanOf(SubSeq(v, L + 1 - k, L), f[L + 1 - k], t) }
<1>2. Bad = {}
    <2> SUFFICES ASSUME Bad # {}
                 PROVE  FALSE
        OBVIOUS
    <2>1. Bad \subseteq Nat
        OBVIOUS
    <2>2. PICK k \in Bad : \A j \in Bad : k <= j
        BY <2>1, LeastOf
    <2>3. PICK i : i = L + 1 - k
        OBVIOUS
    <2>4. i \in 1..L + 1 /\ L + 1 - k = i
        BY <1>0, <2>3
    <2>5. ~ScanOf(SubSeq(v, i, L), f[i], t)
        BY <2>3
    <2>6. ASSUME NEW h \in i + 1..L + 1
          PROVE  ScanOf(SubSeq(v, h, L), f[h], t)
        <3>1. L + 1 - h \in 0..L /\ ~(k <= L + 1 - h) /\ L + 1 - (L + 1 - h) = h
            BY <1>0, <2>4
        <3> QED BY <2>2, <3>1
    <2>7. StepIs(f, v, t, i)
        BY <1>0, <2>4, ScanStepIs
    <2>8. f[i] = ScanStep(f, v, t, i)
        BY <1>1, <2>4
    <2>9. CASE i > L
        <3>1. SubSeq(v, i, L) = <<>> /\ f[i] = <<>>
            BY <1>0, <2>4, <2>7, <2>8, <2>9 DEF StepIs
        <3> QED BY <1>0, <2>5, <3>1, ScanEnds
    <2>10. CASE Matches(v, t, i)
        <3>1. i \in 1..L /\ i + Len(t) - 1 <= L /\ i + Len(t) \in i + 1..L + 1
            BY <1>0, <2>4, <2>10 DEF Matches
        <3>2. PICK x : x = SubSeq(v, i + Len(t), L)
            OBVIOUS
        <3>3. SubSeq(v, i, L) = t \o x
            BY <1>0, <2>10, <3>1, <3>2, RestFrom DEF Matches
        <3>4. ScanOf(x, f[i + Len(t)], t)
            BY <2>6, <3>1, <3>2
        <3>5. x \in Seq(Symbols)
            BY <1>0, <3>1, <3>2
        <3>6. f[i] = <<Marker>> \o f[i + Len(t)]
            BY <2>7, <2>8, <2>10 DEF StepIs
        <3> QED BY <2>5, <3>3, <3>4, <3>5, <3>6, ScanReplaces
    <2>11. CASE i <= L /\ ~Matches(v, t, i)
        <3>1. i \in 1..L /\ i + 1 \in i + 1..L + 1 /\ i + 1 - 1 = i
            BY <1>0, <2>4, <2>11
        <3>2. PICK x : x = SubSeq(v, i + 1, L)
            OBVIOUS
        <3>3. SubSeq(v, i, L) = <<v[i]>> \o x
            <4>1. SubSeq(v, i, L) = SubSeq(v, i, i + 1 - 1) \o SubSeq(v, i + 1, L)
                BY <1>0, <3>1, RestFrom
            <4>2. SubSeq(v, i, i) = <<v[i]>>
                BY <3>1, OneSymbol
            <4> QED BY <3>1, <3>2, <4>1, <4>2
        <3>4. ScanOf(x, f[i + 1], t)
            BY <2>6, <3>1, <3>2
        <3>5. x \in Seq(Symbols) /\ v[i] \in Symbols
            BY <1>0, <3>1, <3>2
        <3>6. f[i] = <<v[i]>> \o f[i + 1]
            BY <2>7, <2>8, <2>11 DEF StepIs
        <3>7. ~OccursAt(t, <<v[i]>> \o x, 1)
            BY <1>0, <2>11, <3>1, <3>3, MatchIsOccurrence
        <3> QED BY <1>0, <2>5, <3>3, <3>4, <3>5, <3>6, <3>7, ScanCopies
    <2> QED BY <1>0, <2>4, <2>9, <2>10, <2>11
<1>3. L \in 0..L /\ L + 1 - L = 1
    BY <1>0
<1>4. ScanOf(SubSeq(v, 1, L), f[1], t)
    BY <1>2, <1>3
<1>5. SubSeq(v, 1, L) = v
    OBVIOUS
<1> QED BY <1>1, <1>4, <1>5

\* f[k] is what the first k secrets leave of v, for every k up to m.
RedactsTo(f, v, m) ==
    f = [k \in 0..m |-> IF k = 0 THEN v ELSE ReplaceSecret(f[k - 1], Secrets[k])]

\* Every sequence can be redacted.
LEMMA RedactExists ==
    ASSUME NEW v, NEW m \in Nat
    PROVE  \E f : RedactsTo(f, v, m)
<1> SUFFICES ASSUME ~ \E f : RedactsTo(f, v, m)
             PROVE  FALSE
    OBVIOUS
<1> DEFINE Bad == { n \in Nat : ~ \E f : RedactsTo(f, v, n) }
<1>1. PICK n \in Bad : \A k \in Bad : n <= k
    BY LeastOf
<1>2. n # 0
    <2>1. RedactsTo([i \in 0..0 |-> v], v, 0)
        BY DEF RedactsTo
    <2> QED BY <2>1
<1>3. PICK f : RedactsTo(f, v, n - 1)
    <2>1. n \in Nat /\ n - 1 \in Nat /\ ~(n <= n - 1)
        BY <1>2
    <2> QED BY <1>1, <2>1
<1>4. PICK g : g = [k \in 0..n |-> IF k = n THEN ReplaceSecret(f[n - 1], Secrets[n]) ELSE f[k]]
    OBVIOUS
<1>5. ASSUME NEW k \in 0..n
      PROVE  g[k] = IF k = 0 THEN v ELSE ReplaceSecret(g[k - 1], Secrets[k])
    <2>1. \A i \in 0..n - 1 : g[i] = f[i]
        BY <1>2, <1>4
    <2>2. CASE k = n
        <3>1. n - 1 \in 0..n - 1
            BY <1>2
        <3> QED BY <1>2, <1>4, <2>1, <2>2, <3>1
    <2>3. CASE k # n
        <3>1. k \in 0..n - 1
            BY <2>3
        <3>2. f[k] = IF k = 0 THEN v ELSE ReplaceSecret(f[k - 1], Secrets[k])
            BY <1>3, <3>1 DEF RedactsTo
        <3>3. k # 0 => k - 1 \in 0..n - 1
            BY <3>1
        <3> QED BY <2>1, <3>1, <3>2, <3>3
    <2> QED BY <2>2, <2>3
<1>6. RedactsTo(g, v, n)
    <2>1. g = [k \in 0..n |-> g[k]]
        BY <1>4
    <2> QED BY <1>5, <2>1, Zenon DEF RedactsTo
<1> QED BY <1>6

\* What is left of x once the first m secrets are replaced.
HidesUpto(x, m) == \A k \in 1..m : Len(Secrets[k]) > 0 => Hides(x, Secrets[k])
RedactedOf(x, y, m) ==
    /\ y \in Seq(Symbols) /\ Len(y) <= Len(x)
    /\ Follows(x, y)
    /\ HidesUpto(y, m)
    /\ HidesUpto(x, m) => y = x
    /\ \A text : Spells(text, x) => Spells(text, y)

\* One more secret.
LEMMA RedactOneMore ==
    ASSUME NEW x \in Seq(Symbols), NEW y, NEW m \in Nat, m + 1 <= Len(Secrets), RedactedOf(x, y, m)
    PROVE  RedactedOf(x, ReplaceSecret(y, Secrets[m + 1]), m + 1)
<1>0. PICK t, z : t = Secrets[m + 1] /\ z = ReplaceSecret(y, t)
    OBVIOUS
<1>1. m + 1 \in 1..Len(Secrets) /\ t \in Seq(Bytes) /\ Len(t) \in Nat /\ y \in Seq(Symbols)
    BY <1>0, SecretsAreBytes DEF RedactedOf
<1>a. \A k \in 1..m + 1 : k = m + 1 \/ k \in 1..m
    OBVIOUS
<1>b. \A k \in 1..m : k \in 1..m + 1 /\ k \in 1..Len(Secrets)
    BY SecretsAreBytes
<1>2. CASE Len(t) = 0
    <2>1. z = y
        BY <1>0, <1>2 DEF ReplaceSecret
    <2>2. HidesUpto(y, m + 1)
        BY <1>0, <1>2, <1>a DEF RedactedOf, HidesUpto
    <2>3. HidesUpto(x, m + 1) => HidesUpto(x, m)
        BY <1>b DEF HidesUpto
    <2> QED BY <1>0, <2>1, <2>2, <2>3, Zenon DEF RedactedOf
<1>3. CASE Len(t) > 0
    <2>1. ScanOf(y, z, t)
        BY <1>0, <1>1, <1>3, ReplaceSecretScans
    <2>2. z \in Seq(Symbols) /\ Len(z) <= Len(y) /\ Follows(y, z) /\ Hides(z, t)
        BY <2>1 DEF ScanOf
    <2>3. Len(z) <= Len(x)
        <3>1. Len(x) \in Nat /\ Len(y) \in Nat /\ Len(z) \in Nat /\ Len(y) <= Len(x)
            BY <1>1, <2>2 DEF RedactedOf
        <3> QED BY <2>2, <3>1
    <2>4. Follows(x, z)
        <3> SUFFICES ASSUME NEW k \in 1..Len(x)
                     PROVE  \/ k <= Len(z) /\ z[k] = x[k]
                            \/ \E j \in 1..Len(z) : j <= k /\ z[j] = Marker
            BY DEF Follows
        <3>0. Len(x) \in Nat /\ Len(y) \in Nat /\ Len(z) \in Nat
            BY <1>1, <2>2
        <3>1. CASE k <= Len(y) /\ y[k] = x[k]
            <4>1. k \in 1..Len(y)
                BY <3>0, <3>1
            <4> QED BY <2>2, <3>1, <4>1 DEF Follows
        <3>2. ASSUME NEW j \in 1..Len(y), j <= k, y[j] = Marker
              PROVE  \E i \in 1..Len(z) : i <= k /\ z[i] = Marker
            <4>1. CASE j <= Len(z) /\ z[j] = y[j]
                <5>1. j \in 1..Len(z)
                    BY <3>0, <4>1
                <5> QED BY <3>2, <4>1, <5>1
            <4>2. ASSUME NEW i \in 1..Len(z), i <= j, z[i] = Marker
                  PROVE  i <= k
                BY <3>0, <3>2, <4>2
            <4> QED BY <2>2, <4>1, <4>2 DEF Follows
        <3>3. \/ k <= Len(y) /\ y[k] = x[k]
              \/ \E j \in 1..Len(y) : j <= k /\ y[j] = Marker
            BY DEF RedactedOf, Follows
        <3> QED BY <3>1, <3>2, <3>3
    <2>5. HidesUpto(z, m + 1)
        <3> SUFFICES ASSUME NEW k \in 1..m + 1, Len(Secrets[k]) > 0
                     PROVE  Hides(z, Secrets[k])
            BY DEF HidesUpto
        <3>1. CASE k = m + 1
            BY <1>0, <2>2, <3>1
        <3>2. CASE k \in 1..m
            <4>1. Secrets[k] \in Seq(Bytes) /\ Hides(y, Secrets[k])
                BY <1>b, <3>2, SecretsAreBytes DEF RedactedOf, HidesUpto
            <4> QED BY <2>1, <4>1 DEF ScanOf
        <3> QED BY <1>a, <3>1, <3>2
    <2>6. ASSUME HidesUpto(x, m + 1)
          PROVE  z = x
        <3>1. y = x
            BY <1>b, <2>6 DEF RedactedOf, HidesUpto
        <3>2. Hides(x, t)
            <4>1. m + 1 \in 1..m + 1
                OBVIOUS
            <4> QED BY <1>0, <1>3, <2>6, <4>1 DEF HidesUpto
        <3> QED BY <2>1, <3>1, <3>2 DEF ScanOf
    <2>7. \A text : Spells(text, x) => Spells(text, z)
        BY <2>1, Zenon DEF RedactedOf, ScanOf
    <2> QED BY <1>0, <2>2, <2>3, <2>4, <2>5, <2>6, <2>7 DEF RedactedOf
<1> QED BY <1>1, <1>2, <1>3

\* What redact_bytes leaves.
HidesAll(x) == HidesUpto(x, Len(Secrets))

LEMMA RedactIs ==
    ASSUME NEW x \in Seq(Symbols)
    PROVE  RedactedOf(x, redact_bytes(x), Len(Secrets))
<1> DEFINE N == Len(Secrets)
<1>0. N \in Nat
    BY SecretsAreBytes
<1>1. PICK f : f = CHOOSE g : RedactsTo(g, x, N)
    OBVIOUS
<1>2. RedactsTo(f, x, N)
    BY <1>0, <1>1, RedactExists, Zenon
<1>3. redact_bytes(x) = f[N]
    BY <1>1, Zenon DEF redact_bytes, RedactsTo
<1>4. \A k \in 0..N : f[k] = IF k = 0 THEN x ELSE ReplaceSecret(f[k - 1], Secrets[k])
    BY <1>2, Zenon DEF RedactsTo
<1> DEFINE Bad == { k \in 0..N : ~RedactedOf(x, f[k], k) }
<1>5. Bad = {}
    <2> SUFFICES ASSUME Bad # {}
                 PROVE  FALSE
        OBVIOUS
    <2>1. Bad \subseteq Nat
        OBVIOUS
    <2>2. PICK k \in Bad : \A j \in Bad : k <= j
        BY <2>1, LeastOf
    <2>3. k # 0
        <3>1. RedactedOf(x, x, 0)
            BY DEF RedactedOf, Follows, HidesUpto
        <3>2. 0 \in 0..N => f[0] = x
            BY <1>4
        <3> QED BY <1>0, <3>1, <3>2
    <2>4. k - 1 \in 0..N /\ ~(k <= k - 1) /\ k \in 0..N /\ (k - 1) + 1 = k /\ (k - 1) + 1 <= N /\ k - 1 \in Nat
        BY <1>0, <2>3
    <2>5. RedactedOf(x, f[k - 1], k - 1)
        BY <2>2, <2>4
    <2>6. RedactedOf(x, ReplaceSecret(f[k - 1], Secrets[k]), k)
        BY <2>4, <2>5, RedactOneMore
    <2> QED BY <1>4, <2>3, <2>4, <2>6
<1>6. N \in 0..N
    BY <1>0
<1> QED BY <1>3, <1>5, <1>6

\* Whatever begins among the first p symbols of z differs from every secret
\* inside z: nothing that arrives later can complete one.
Settled(z, p) ==
    \A m \in 1..Len(Secrets) : Len(Secrets[m]) > 0 =>
        \A from \in 1..p : \E j \in 1..Len(Secrets[m]) :
            from + j - 1 <= Len(z) /\ z[from + j - 1] # Secrets[m][j]

\* A stream of which e has left and x is held, of a process that wrote w.
StreamSound(e, x, w) ==
    /\ e \in Seq(Symbols) /\ x \in Seq(Symbols) /\ w \in Seq(Bytes)
    /\ Settled(e \o x, Len(e)) /\ HidesAll(x)
    /\ Spells(w, e \o x)

\* A stream that left.
StreamDone(e, w) ==
    e \in Seq(Symbols) /\ w \in Seq(Bytes) /\ HidesAll(e) /\ Spells(w, e)

\* A secret that occurs is not different.
LEMMA OccursEqual ==
    ASSUME NEW t, NEW x, NEW from, OccursAt(t, x, from), NEW j \in 1..Len(t)
    PROVE  x[from + j - 1] = t[j]
BY DEF OccursAt

\* What left hides the secrets, and so does all of it when the rest leaves.
LEMMA SoundHides ==
    ASSUME NEW e, NEW x, NEW w, StreamSound(e, x, w)
    PROVE  HidesAll(e) /\ HidesAll(e \o x) /\ StreamDone(e \o x, w)
<1>0. PICK z : z = e \o x
    OBVIOUS
<1>1. /\ e \in Seq(Symbols) /\ x \in Seq(Symbols) /\ w \in Seq(Bytes)
      /\ Settled(z, Len(e)) /\ HidesAll(x) /\ Spells(w, z)
    BY <1>0 DEF StreamSound
<1>2. /\ z \in Seq(Symbols) /\ Len(z) = Len(e) + Len(x) /\ Len(e) \in Nat /\ Len(x) \in Nat
      /\ \A k \in 1..Len(e) : z[k] = e[k]
      /\ \A k \in 1..Len(x) : z[Len(e) + k] = x[k]
    BY <1>0, <1>1
<1>3. HidesAll(e)
    <2> SUFFICES ASSUME NEW m \in 1..Len(Secrets), Len(Secrets[m]) > 0,
                        NEW from \in 1..Len(e), OccursAt(Secrets[m], e, from)
                 PROVE  FALSE
        BY DEF HidesAll, HidesUpto, Hides
    <2>0. Len(Secrets[m]) \in Nat
        BY SecretsAreBytes
    <2>1. PICK j \in 1..Len(Secrets[m]) :
            from + j - 1 <= Len(z) /\ z[from + j - 1] # Secrets[m][j]
        BY <1>1 DEF Settled
    <2>2. e[from + j - 1] = Secrets[m][j] /\ from + Len(Secrets[m]) - 1 <= Len(e)
        BY DEF OccursAt
    <2>3. from + j - 1 \in 1..Len(e)
        BY <1>2, <2>0, <2>2
    <2> QED BY <1>2, <2>1, <2>2, <2>3
<1>4. HidesAll(z)
    <2> SUFFICES ASSUME NEW m \in 1..Len(Secrets), Len(Secrets[m]) > 0,
                        NEW from \in 1..Len(z), OccursAt(Secrets[m], z, from)
                 PROVE  FALSE
        BY DEF HidesAll, HidesUpto, Hides
    <2>0. Len(Secrets[m]) \in Nat
        BY SecretsAreBytes
    <2>a. from + Len(Secrets[m]) - 1 <= Len(z)
        BY DEF OccursAt
    <2>1. CASE from <= Len(e)
        <3>1. from \in 1..Len(e)
            BY <1>2, <2>1
        <3>2. PICK j \in 1..Len(Secrets[m]) :
                from + j - 1 <= Len(z) /\ z[from + j - 1] # Secrets[m][j]
            BY <1>1, <3>1 DEF Settled
        <3> QED BY <3>2, OccursEqual
    <2>2. CASE ~(from <= Len(e))
        <3>1. PICK h : h = from - Len(e)
            OBVIOUS
        <3>2. h \in 1..Len(x) /\ from = Len(e) + h
            BY <1>2, <2>2, <3>1
        <3>3. h + Len(Secrets[m]) - 1 <= Len(x)
            <4>1. Len(z) = Len(e) + Len(x) /\ Len(e) \in Nat /\ Len(x) \in Nat
                BY <1>2
            <4>2. \A n \in Nat : from + n - 1 <= Len(z) => h + n - 1 <= Len(x)
                BY <3>2, <4>1
            <4> QED BY <2>0, <2>a, <4>2
        <3>4. ASSUME NEW j \in 1..Len(Secrets[m])
              PROVE  x[h + j - 1] = Secrets[m][j]
            <4>1. h + j - 1 \in 1..Len(x) /\ Len(e) + (h + j - 1) = from + j - 1
                BY <1>2, <2>0, <3>2, <3>3
            <4>2. z[from + j - 1] = Secrets[m][j]
                BY OccursEqual
            <4> QED BY <1>2, <4>1, <4>2
        <3>5. OccursAt(Secrets[m], x, h)
            BY <3>3, <3>4 DEF OccursAt
        <3> QED BY <1>1, <3>2, <3>5 DEF HidesAll, HidesUpto, Hides
    <2> QED BY <2>1, <2>2
<1> QED BY <1>0, <1>1, <1>2, <1>3, <1>4 DEF StreamDone

\* What may leave of x, if n symbols of it do.
MayLeave(x, n) ==
    \/ n = 0
    \/ n \in 1..Len(x) /\ x[n] = Newline
    \/ n \in 1..Len(x) /\ \A m \in 1..Len(Secrets) : Len(Secrets[m]) - 1 <= Len(x) - n

\* Some of what is held leaves.
LEMMA LeaveKeeps ==
    ASSUME NEW e, NEW x, NEW w, StreamSound(e, x, w), NEW n \in 0..Len(x), MayLeave(x, n),
           NEW a, NEW b, CutAt(x, n, a, b, Symbols)
    PROVE  StreamSound(e \o a, b, w)
<1>0. PICK z, y : z = e \o x /\ y = e \o a
    OBVIOUS
<1>1. /\ e \in Seq(Symbols) /\ x \in Seq(Symbols) /\ w \in Seq(Bytes)
      /\ Settled(z, Len(e)) /\ HidesAll(x) /\ Spells(w, z)
    BY <1>0 DEF StreamSound
<1>2. /\ z \in Seq(Symbols) /\ Len(z) = Len(e) + Len(x) /\ Len(e) \in Nat /\ Len(x) \in Nat
      /\ \A k \in 1..Len(x) : z[Len(e) + k] = x[k]
    BY <1>0, <1>1
<1>4. /\ a \in Seq(Symbols) /\ b \in Seq(Symbols) /\ x = a \o b /\ Len(a) = n
      /\ Len(b) = Len(x) - n /\ \A k \in 1..Len(b) : b[k] = x[n + k]
    BY DEF CutAt
<1>5. y \in Seq(Symbols) /\ Len(y) = Len(e) + n /\ y \o b = z
    <2>1. \A p, q, r \in Seq(Symbols) : (p \o q) \o r = p \o (q \o r)
        OBVIOUS
    <2>2. y \in Seq(Symbols) /\ Len(y) = Len(e) + n
        <3>1. \A p, q \in Seq(Symbols) : p \o q \in Seq(Symbols) /\ Len(p \o q) = Len(p) + Len(q)
            OBVIOUS
        <3> QED BY <1>0, <1>1, <1>4, <3>1
    <2>3. a \in Seq(Symbols) /\ b \in Seq(Symbols) /\ x = a \o b
        BY <1>4
    <2>4. (e \o a) \o b = e \o (a \o b)
        BY SMTT(40), <1>1, <2>1, <2>3
    <2> QED BY <1>0, <2>2, <2>3, <2>4
<1>6. Settled(z, Len(y))
    <2> SUFFICES ASSUME NEW m \in 1..Len(Secrets), Len(Secrets[m]) > 0, NEW from \in 1..Len(y)
                 PROVE  \E j \in 1..Len(Secrets[m]) :
                            from + j - 1 <= Len(z) /\ z[from + j - 1] # Secrets[m][j]
        BY DEF Settled
    <2>0. PICK t : t = Secrets[m]
        OBVIOUS
    <2>a. /\ Len(t) \in Nat /\ Len(t) > 0
          /\ \A j \in 1..Len(t) : t[j] # Newline
        BY <2>0, SecretsAreBytes
    <2>1. CASE from <= Len(e)
        <3>1. from \in 1..Len(e)
            BY <1>2, <1>5, <2>1
        <3> QED BY <1>1, <3>1 DEF Settled
    <2>2. CASE ~(from <= Len(e))
        <3>1. PICK h : h = from - Len(e)
            OBVIOUS
        <3>2. h \in 1..n /\ h \in 1..Len(x) /\ from = Len(e) + h
            BY <1>2, <1>5, <2>2, <3>1
        <3>3. ASSUME NEW j \in 1..Len(t), h + j - 1 <= Len(x), x[h + j - 1] # t[j]
              PROVE  from + j - 1 <= Len(z) /\ z[from + j - 1] # t[j]
            <4>1. h + j - 1 \in 1..Len(x) /\ Len(e) + (h + j - 1) = from + j - 1
                BY <1>2, <2>a, <3>2, <3>3
            <4> QED BY SMTT(40), <1>2, <3>3, <4>1
        <3>4. CASE h + Len(t) - 1 <= Len(x)
            <4>1. ~OccursAt(t, x, h)
                BY <1>1, <2>0, <2>a, <3>2 DEF HidesAll, HidesUpto, Hides
            <4>2. PICK j \in 1..Len(t) : x[h + j - 1] # t[j]
                BY <3>4, <4>1 DEF OccursAt
            <4>3. h + j - 1 <= Len(x)
                BY <1>2, <2>a, <3>2, <3>4
            <4> QED BY <2>0, <3>3, <4>2, <4>3
        <3>5. CASE ~(h + Len(t) - 1 <= Len(x))
            <4>1. x[n] = Newline /\ n \in 1..Len(x)
                <5>1. ~(Len(t) - 1 <= Len(x) - n)
                    BY <1>2, <2>a, <3>2, <3>5
                <5>2. n # 0
                    BY <3>2
                <5> QED BY <2>0, <5>1, <5>2 DEF MayLeave
            <4>2. PICK j : j = n - h + 1
                OBVIOUS
            <4>3. j \in 1..Len(t) /\ h + j - 1 = n
                <5>1. Len(t) \in Nat /\ Len(x) \in Nat /\ h \in 1..n /\ n \in 1..Len(x)
                    BY <1>2, <2>a, <3>2, <4>1
                <5> QED BY <3>5, <4>2, <5>1
            <4>4. h + j - 1 <= Len(x) /\ x[h + j - 1] # t[j]
                BY SMTT(40), <1>2, <2>a, <4>1, <4>3
            <4> QED BY <2>0, <3>3, <4>3, <4>4
        <3> QED BY <3>4, <3>5
    <2> QED BY <2>1, <2>2
<1>7. HidesAll(b)
    <2> SUFFICES ASSUME NEW m \in 1..Len(Secrets), Len(Secrets[m]) > 0,
                        NEW from \in 1..Len(b), OccursAt(Secrets[m], b, from)
                 PROVE  FALSE
        BY DEF HidesAll, HidesUpto, Hides
    <2>0. PICK t : t = Secrets[m]
        OBVIOUS
    <2>a. Len(t) \in Nat /\ Len(t) > 0
        BY <2>0, SecretsAreBytes
    <2>b. Len(b) = Len(x) - n /\ Len(b) \in Nat
        <3>1. b \in Seq(Symbols) /\ Len(b) = Len(x) - n
            BY <1>4
        <3> QED BY <3>1
    <2>1. from + Len(t) - 1 <= Len(b) /\ \A j \in 1..Len(t) : b[from + j - 1] = t[j]
        BY <2>0 DEF OccursAt
    <2>2. (n + from) + Len(t) - 1 <= Len(x) /\ n + from \in 1..Len(x)
        BY <1>2, <2>a, <2>b, <2>1
    <2>3. ASSUME NEW j \in 1..Len(t)
          PROVE  x[(n + from) + j - 1] = t[j]
        <3>1. from + j - 1 \in 1..Len(b) /\ n + (from + j - 1) = (n + from) + j - 1
            BY SMTT(40), <1>2, <2>a, <2>b, <2>1
        <3> QED BY <1>4, <2>1, <3>1
    <2>4. OccursAt(t, x, n + from)
        BY <2>2, <2>3 DEF OccursAt
    <2> QED BY <1>1, <2>0, <2>2, <2>4 DEF HidesAll, HidesUpto, Hides
<1> QED BY <1>0, <1>1, <1>4, <1>5, <1>6, <1>7 DEF StreamSound

\* Bytes arrive and what is held is redacted again.
LEMMA ArriveKeeps ==
    ASSUME NEW e, NEW x, NEW w, StreamSound(e, x, w), NEW bytes \in Seq(Bytes)
    PROVE  /\ StreamSound(e, redact_bytes(x \o bytes), w \o bytes)
           /\ Len(redact_bytes(x \o bytes)) <= Len(x) + Len(bytes)
<1>0. PICK z, y, r : z = e \o x /\ y = x \o bytes /\ r = redact_bytes(y)
    OBVIOUS
<1>1. /\ e \in Seq(Symbols) /\ x \in Seq(Symbols) /\ w \in Seq(Bytes) /\ bytes \in Seq(Symbols)
      /\ Settled(z, Len(e)) /\ HidesAll(x) /\ Spells(w, z)
    BY <1>0 DEF StreamSound, Symbols
<1>2. /\ z \in Seq(Symbols) /\ Len(z) = Len(e) + Len(x) /\ Len(e) \in Nat /\ Len(x) \in Nat
      /\ \A k \in 1..Len(e) : z[k] = e[k]
      /\ \A k \in 1..Len(x) : z[Len(e) + k] = x[k]
    BY <1>0, <1>1
<1>3. /\ y \in Seq(Symbols) /\ Len(y) = Len(x) + Len(bytes) /\ Len(bytes) \in Nat
      /\ \A k \in 1..Len(x) : y[k] = x[k]
    BY <1>0, <1>1
<1>4. RedactedOf(y, r, Len(Secrets))
    BY <1>0, <1>3, RedactIs
<1>5. r \in Seq(Symbols) /\ Len(r) <= Len(y) /\ Follows(y, r) /\ HidesAll(r)
    BY <1>4 DEF RedactedOf, HidesAll
<1>6. PICK v : v = e \o r
    OBVIOUS
<1>7. /\ v \in Seq(Symbols) /\ Len(v) = Len(e) + Len(r) /\ Len(r) \in Nat
      /\ \A k \in 1..Len(e) : v[k] = e[k]
      /\ \A k \in 1..Len(r) : v[Len(e) + k] = r[k]
    BY <1>1, <1>5, <1>6
<1>8. Settled(v, Len(e))
    <2> SUFFICES ASSUME NEW m \in 1..Len(Secrets), Len(Secrets[m]) > 0, NEW from \in 1..Len(e)
                 PROVE  \E j \in 1..Len(Secrets[m]) :
                            from + j - 1 <= Len(v) /\ v[from + j - 1] # Secrets[m][j]
        BY DEF Settled
    <2>0. PICK t : t = Secrets[m]
        OBVIOUS
    <2>a. Len(t) \in Nat /\ \A j \in 1..Len(t) : t[j] # Marker
        BY <2>0, SecretsAreBytes
    <2>1. PICK j \in 1..Len(t) : from + j - 1 <= Len(z) /\ z[from + j - 1] # t[j]
        BY <1>1, <2>0 DEF Settled
    <2>2. CASE from + j - 1 <= Len(e)
        <3>1. from + j - 1 \in 1..Len(e) /\ from + j - 1 <= Len(v)
            BY SMTT(40), <1>2, <1>7, <2>a, <2>2
        <3> QED BY <1>2, <1>7, <2>0, <2>1, <3>1
    <2>3. CASE ~(from + j - 1 <= Len(e))
        <3>1. PICK k : k = from + j - 1 - Len(e)
            OBVIOUS
        <3>2. k \in 1..Len(x) /\ k \in 1..Len(y) /\ Len(e) + k = from + j - 1
            BY SMTT(40), <1>2, <1>3, <2>a, <2>1, <2>3, <3>1
        <3>3. x[k] # t[j] /\ y[k] = x[k]
            BY <1>2, <1>3, <2>1, <3>2
        <3>4. CASE k <= Len(r) /\ r[k] = y[k]
            <4>1. k \in 1..Len(r) /\ from + j - 1 <= Len(v)
                BY <1>2, <1>7, <2>a, <3>2, <3>4
            <4>2. v[from + j - 1] = r[k]
                BY <1>7, <3>2, <4>1
            <4> QED BY <2>0, <3>3, <3>4, <4>1, <4>2
        <3>5. ASSUME NEW i \in 1..Len(r), i <= k, r[i] = Marker
              PROVE  \E g \in 1..Len(t) : from + g - 1 <= Len(v) /\ v[from + g - 1] # t[g]
            <4>1. PICK g : g = Len(e) + i - from + 1
                OBVIOUS
            <4>2. g \in 1..Len(t) /\ from + g - 1 = Len(e) + i /\ from + g - 1 <= Len(v)
                <5>1. /\ Len(t) \in Nat /\ Len(e) \in Nat /\ Len(r) \in Nat
                      /\ Len(v) = Len(e) + Len(r)
                    BY <1>2, <1>7, <2>a
                <5>2. k \in Nat /\ Len(e) + k = from + j - 1
                    BY <3>2
                <5> QED BY <3>5, <4>1, <5>1, <5>2
            <4>3. v[from + g - 1] = Marker
                BY <1>7, <3>5, <4>2
            <4> QED BY <2>a, <4>2, <4>3
        <3>6. \/ k <= Len(r) /\ r[k] = y[k]
              \/ \E i \in 1..Len(r) : i <= k /\ r[i] = Marker
            BY <1>5, <3>2 DEF Follows
        <3> QED BY <2>0, <3>4, <3>5, <3>6
    <2> QED BY <2>2, <2>3
<1>9. Spells(w \o bytes, v)
    <2>1. Spells(bytes, bytes)
        BY SpellsItself
    <2>2. Spells(w \o bytes, z \o bytes)
        BY <1>1, <1>2, <2>1, SpellsBoth
    <2>3. z \o bytes = e \o y
        <3>1. \A p, q, s \in Seq(Symbols) : (p \o q) \o s = p \o (q \o s)
            OBVIOUS
        <3> QED BY <1>0, <1>1, <3>1
    <2>4. PICK p, q : w \o bytes = p \o q /\ Spells(p, e) /\ Spells(q, y)
        BY ZenonT(40), <1>1, <1>3, <2>2, <2>3, SpellsApart
    <2>5. Spells(q, r)
        BY <1>4, <2>4 DEF RedactedOf
    <2> QED BY <1>1, <1>5, <1>6, <2>4, <2>5, SpellsBoth
<1>10. w \o bytes \in Seq(Bytes) /\ Len(r) <= Len(x) + Len(bytes)
    BY <1>1, <1>3, <1>5
<1> QED BY <1>0, <1>1, <1>5, <1>6, <1>8, <1>9, <1>10 DEF StreamSound

\* Secrets have a longest one.
LEMMA LongestIsMax ==
    LongestSecret \in Nat /\ \A m \in 1..Len(Secrets) : Len(Secrets[m]) <= LongestSecret
<1> DEFINE S == {0} \cup { Len(Secrets[i]) : i \in DOMAIN Secrets }
<1>0. Len(Secrets) \in Nat /\ \A i \in 1..Len(Secrets) : Len(Secrets[i]) \in Nat
    BY SecretsAreBytes
<1>a. DOMAIN Secrets = 1..Len(Secrets)
    BY SecretsAreBytes
<1>1. \E b \in Nat : \A i \in 1..Len(Secrets) : Len(Secrets[i]) <= b
    <2> DEFINE Bad == { n \in 0..Len(Secrets) : ~ \E b \in Nat : \A i \in 1..n : Len(Secrets[i]) <= b }
    <2> SUFFICES ASSUME ~ \E b \in Nat : \A i \in 1..Len(Secrets) : Len(Secrets[i]) <= b
                 PROVE  FALSE
        OBVIOUS
    <2>a. Len(Secrets) \in 0..Len(Secrets)
        BY <1>0
    <2>b. Len(Secrets) \in Bad
        BY <2>a
    <2>1. Bad \subseteq Nat /\ Bad # {}
        <3>1. Bad \subseteq 0..Len(Secrets)
            OBVIOUS
        <3>2. 0..Len(Secrets) \subseteq Nat
            BY <1>0
        <3> QED BY <2>b, <3>1, <3>2, Zenon
    <2>2. PICK n \in Bad : \A k \in Bad : n <= k
        BY <2>1, LeastOf
    <2>3. n # 0
        <3>1. \A i \in 1..0 : Len(Secrets[i]) <= 0
            OBVIOUS
        <3> QED BY <3>1
    <2>4. n - 1 \in 0..Len(Secrets) /\ ~(n <= n - 1) /\ n \in 1..Len(Secrets)
        BY <1>0, <2>3
    <2>5. PICK b \in Nat : \A i \in 1..n - 1 : Len(Secrets[i]) <= b
        BY <2>2, <2>4
    <2>6. PICK c : c = IF Len(Secrets[n]) <= b THEN b ELSE Len(Secrets[n])
        OBVIOUS
    <2>7. PICK l : l = Len(Secrets[n])
        OBVIOUS
    <2>8. l \in Nat /\ c = (IF l <= b THEN b ELSE l)
        BY <1>0, <2>4, <2>6, <2>7
    <2>9. c \in Nat /\ b <= c /\ l <= c
        BY <2>8
    <2>10. ASSUME NEW i \in 1..n
           PROVE  Len(Secrets[i]) <= c
        <3>1. CASE i = n
            BY <2>7, <2>9, <3>1
        <3>2. CASE i # n
            <4>1. i \in 1..n - 1 /\ i \in 1..Len(Secrets)
                BY <1>0, <2>4, <3>2
            <4>2. Len(Secrets[i]) <= b /\ Len(Secrets[i]) \in Nat
                BY <1>0, <2>5, <4>1
            <4>3. \A k \in Nat : k <= b => k <= c
                BY <2>8, <2>9
            <4> QED BY <4>2, <4>3
        <3> QED BY <3>1, <3>2
    <2> QED BY <2>9, <2>10
<1>2. PICK b \in Nat : \A i \in 1..Len(Secrets) : Len(Secrets[i]) <= b
    BY <1>1
<1>3. S \subseteq Nat /\ 0 \in S /\ \A k \in S : k <= b
    BY <1>0, <1>a, <1>2
<1>4. \E k \in S : \A j \in S : k >= j
    <2>0. PICK Q : Q = S
        OBVIOUS
    <2>1. PICK T : T = { b - k : k \in Q }
        OBVIOUS
    <2>2. \A k \in Q : k \in Nat /\ k <= b /\ b - k \in Nat
        BY <1>3, <2>0
    <2>3. T \subseteq Nat /\ T # {}
        BY <1>3, <2>0, <2>1, <2>2
    <2>4. PICK u \in T : \A v \in T : u <= v
        BY <2>3, LeastOf
    <2>5. PICK k \in Q : u = b - k
        BY <2>1
    <2>6. \A j \in Q : k >= j
        <3> TAKE j \in Q
        <3>1. b - j \in T /\ j \in Nat /\ k \in Nat
            BY <2>1, <2>2
        <3> QED BY <2>4, <2>5, <3>1
    <2> QED BY <2>0, <2>6
<1>5. LongestSecret \in S /\ \A j \in S : LongestSecret >= j
    BY <1>4, Zenon DEF LongestSecret, Max
<1>6. \A m \in 1..Len(Secrets) : Len(Secrets[m]) \in S
    BY <1>a
<1>7. LongestSecret \in Nat
    BY <1>3, <1>5
<1> QED BY <1>0, <1>5, <1>6, <1>7

\* A bounded chunk leaves and what is held back is enough.
LEMMA ChunkMayLeave ==
    ASSUME NEW x \in Seq(Symbols), NEW n,
           n = IF Len(x) > Retained THEN Len(x) - Retained ELSE 0
    PROVE  n \in 0..Len(x) /\ MayLeave(x, n)
<1>0. LongestSecret \in Nat /\ Len(x) \in Nat
    BY LongestIsMax
<1>1. Retained \in Nat /\ LongestSecret - 1 <= Retained
    BY <1>0 DEF Retained
<1>2. CASE ~(Len(x) > Retained)
    BY <1>0, <1>2 DEF MayLeave
<1>3. CASE Len(x) > Retained
    <2>1. n \in 1..Len(x) /\ Len(x) - n = Retained
        BY <1>0, <1>1, <1>3
    <2>2. \A m \in 1..Len(Secrets) : Len(Secrets[m]) - 1 <= Len(x) - n
        <3> TAKE m \in 1..Len(Secrets)
        <3>1. Len(Secrets[m]) <= LongestSecret /\ Len(Secrets[m]) \in Nat
            BY LongestIsMax, SecretsAreBytes
        <3>2. \A k \in Nat : k <= LongestSecret => k - 1 <= Retained
            BY <1>0, <1>1
        <3> QED BY <2>1, <3>1, <3>2
    <2>3. n \in 0..Len(x)
        BY <1>0, <2>1
    <2> QED BY <2>1, <2>2, <2>3 DEF MayLeave
<1> QED BY <1>2, <1>3

\* f[i] holds the readings of the first i symbols of x, for every i up to m.
ReadsTo(f, x, m) ==
    f = [i \in 0..m |-> IF i = 0 THEN {<<>>} ELSE Continued(f[i - 1], x[i])]

\* Every sequence has readings.
LEMMA ReadingsExist ==
    ASSUME NEW x, NEW m \in Nat
    PROVE  \E f : ReadsTo(f, x, m)
<1> DEFINE More(T, i) == Continued(T, x[i])
<1>0. \A f, n : ReadsTo(f, x, n) <=> f = [i \in 0..n |-> IF i = 0 THEN {<<>>} ELSE More(f[i - 1], i)]
    BY DEF ReadsTo
<1> HIDE DEF More
<1> SUFFICES ASSUME ~ \E f : ReadsTo(f, x, m)
             PROVE  FALSE
    OBVIOUS
<1> DEFINE Bad == { n \in Nat : ~ \E f : ReadsTo(f, x, n) }
<1>1. PICK n \in Bad : \A k \in Bad : n <= k
    BY LeastOf
<1>2. n # 0
    <2>1. PICK f : f = [i \in 0..0 |-> {<<>>}]
        OBVIOUS
    <2>2. f = [i \in 0..0 |-> IF i = 0 THEN {<<>>} ELSE More(f[i - 1], i)]
        BY <2>1
    <2> QED BY <1>0, <2>2
<1>3. PICK f : f = [i \in 0..n - 1 |-> IF i = 0 THEN {<<>>} ELSE More(f[i - 1], i)]
    <2>1. n \in Nat /\ n - 1 \in Nat /\ ~(n <= n - 1)
        BY <1>2
    <2>2. PICK f : ReadsTo(f, x, n - 1)
        BY <1>1, <2>1
    <2> QED BY <1>0, <2>2
<1>4. PICK g : g = [k \in 0..n |-> IF k = n THEN More(f[n - 1], n) ELSE f[k]]
    OBVIOUS
<1>5. ASSUME NEW k \in 0..n
      PROVE  g[k] = IF k = 0 THEN {<<>>} ELSE More(g[k - 1], k)
    <2>1. \A i \in 0..n - 1 : g[i] = f[i]
        BY <1>2, <1>4
    <2>2. CASE k = n
        <3>1. n - 1 \in 0..n - 1
            BY <1>2
        <3> QED BY <1>2, <1>4, <2>1, <2>2, <3>1
    <2>3. CASE k # n
        <3>1. k \in 0..n - 1
            BY <2>3
        <3>2. f[k] = IF k = 0 THEN {<<>>} ELSE More(f[k - 1], k)
            BY <1>3, <3>1
        <3>3. k # 0 => k - 1 \in 0..n - 1
            BY <3>1
        <3> QED BY <2>1, <3>1, <3>2, <3>3
    <2> QED BY <2>2, <2>3
<1>6. g = [i \in 0..n |-> IF i = 0 THEN {<<>>} ELSE More(g[i - 1], i)]
    <2>1. g = [k \in 0..n |-> g[k]]
        BY <1>4
    <2> QED BY <1>5, <2>1, Zenon
<1> QED BY <1>0, <1>6

\* A slice of a sequence.
SliceOf(v, w, a, b, D) ==
    v \in Seq(D) /\ Len(v) = b - a /\ \A k \in 1..Len(v) : v[k] = w[a + k]

LEMMA SliceFacts ==
    ASSUME NEW D, NEW w \in Seq(D), NEW a \in Nat, NEW b \in 1..Len(w), a < b,
           NEW v, v = SubSeq(w, a + 1, b)
    PROVE  SliceOf(v, w, a, b, D)
<1>1. Len(w) \in Nat /\ \A k \in 1..Len(w) : w[k] \in D
    OBVIOUS
<1>2. PICK c : c = a + 1
    OBVIOUS
<1>3. c \in 1..b /\ b - c + 1 = b - a
    BY <1>1, <1>2
<1>4. v = SubSeq(w, c, b)
    BY <1>2
<1>5. v \in Seq(D) /\ Len(v) = b - c + 1
    BY <1>1, <1>3, <1>4
<1>6. \A k \in 1..b - c + 1 : v[k] = w[c + k - 1]
    BY <1>1, <1>3, <1>4
<1>7. \A k \in 1..b - c + 1 : c + k - 1 = a + k
    BY <1>2, <1>3
<1> QED BY <1>3, <1>5, <1>6, <1>7 DEF SliceOf

\* A text that a sequence spells is one of its readings.
LEMMA SpelledIsRead ==
    ASSUME NEW x \in Seq(Symbols), NEW w, Spells(w, x)
    PROVE  w \in Readings(x)
<1>1. PICK cut : Cuts(cut, w, x)
    BY DEF Spells
<1>2. w \in Seq(Bytes) /\ Len(w) \in Nat /\ Len(x) \in Nat
    BY DEF Spells
<1>3. PICK f : f = CHOOSE g : ReadsTo(g, x, Len(x))
    OBVIOUS
<1>4. ReadsTo(f, x, Len(x))
    BY <1>2, <1>3, ReadingsExist, Zenon
<1>5. Readings(x) = f[Len(x)]
    BY <1>3, Zenon DEF Readings, ReadsTo
<1>6. \A i \in 0..Len(x) :
        f[i] = IF i = 0 THEN {<<>>} ELSE Continued(f[i - 1], x[i])
    BY <1>4, Zenon DEF ReadsTo
<1>7. cut \in [0..Len(x) -> 0..Len(w)] /\ cut[0] = 0 /\ cut[Len(x)] = Len(w)
    BY <1>1, Zenon DEF Cuts
<1>8. \A i, j \in 0..Len(x) : i <= j => cut[i] <= cut[j]
    BY <1>1, Zenon DEF Cuts
<1>9. \A i \in 1..Len(x) : PieceOf(w, cut[i - 1], cut[i], x[i])
    BY <1>1, Zenon DEF Cuts
<1> DEFINE Bad == { i \in 0..Len(x) : SubSeq(w, 1, cut[i]) \notin f[i] }
<1>10. Bad = {}
    <2> SUFFICES ASSUME Bad # {}
                 PROVE  FALSE
        OBVIOUS
    <2>1. Bad \subseteq Nat
        OBVIOUS
    <2>2. PICK i \in Bad : \A j \in Bad : i <= j
        BY <2>1, LeastOf
    <2>3. i # 0
        <3>1. SubSeq(w, 1, 0) = <<>>
            BY <1>2
        <3>2. 0 \in 0..Len(x) /\ f[0] = {<<>>}
            BY <1>2, <1>6
        <3> QED BY <1>7, <3>1, <3>2
    <2>4. i \in 1..Len(x) /\ i - 1 \in 0..Len(x) /\ i \in 0..Len(x) /\ ~(i <= i - 1)
        BY <1>2, <2>3
    <2>5. SubSeq(w, 1, cut[i - 1]) \in f[i - 1]
        BY <2>2, <2>4
    <2>6. PICK a, b : a = cut[i - 1] /\ b = cut[i]
        OBVIOUS
    <2>7. a \in 0..Len(w) /\ b \in 0..Len(w) /\ a <= b /\ PieceOf(w, a, b, x[i])
        <3>1. i - 1 <= i
            BY <2>4
        <3> QED BY <1>7, <1>8, <1>9, <2>4, <2>6, <3>1
    <2>8. PICK u, v : u = SubSeq(w, 1, b) /\ v = SubSeq(w, a + 1, b)
        OBVIOUS
    <2>9. u \in Seq(Bytes) /\ Len(u) = b /\ \A k \in 1..b : u[k] = w[k]
        BY <1>2, <2>7, <2>8
    <2>10. v \in Seq(Bytes) /\ Len(v) = b - a /\ \A k \in 1..Len(v) : v[k] = w[a + k]
        <3>1. v = SubSeq(w, a + 1, b)
            BY <2>8
        <3>2. CASE a < b
            <4>1. a \in Nat /\ b \in 1..Len(w)
                BY <1>2, <2>7, <3>2
            <4>2. SliceOf(v, w, a, b, Bytes)
                BY <1>2, <3>1, <3>2, <4>1, SliceFacts
            <4> QED BY <4>2 DEF SliceOf
        <3>3. CASE a = b
            <4>1. v = <<>>
                BY <1>2, <2>7, <3>1, <3>3
            <4> QED BY <1>2, <2>7, <3>3, <4>1
        <3> QED BY <1>2, <2>7, <3>2, <3>3
    <2>11. SubSeq(w, 1, b) = SubSeq(w, 1, a) \o v
        <3>1. PICK p, q : p = SubSeq(w, 1, a) /\ q = p \o v
            OBVIOUS
        <3>2. p \in Seq(Bytes) /\ Len(p) = a /\ \A k \in 1..a : p[k] = w[k]
            BY <1>2, <2>7, <3>1
        <3>3. /\ q \in Seq(Bytes) /\ Len(q) = Len(p) + Len(v)
              /\ \A k \in 1..Len(p) : q[k] = p[k]
              /\ \A k \in 1..Len(v) : q[Len(p) + k] = v[k]
            <4>1. p \in Seq(Bytes) /\ v \in Seq(Bytes) /\ q = p \o v
                BY <2>10, <3>1, <3>2
            <4> QED BY <4>1, EndToEnd
        <3>4. Len(q) = b /\ Len(p) = a /\ Len(v) = b - a
            BY <1>2, <2>7, <2>10, <3>2, <3>3
        <3>5. ASSUME NEW k \in 1..b
              PROVE  q[k] = u[k]
            <4>1. CASE k <= a
                <5>1. k \in 1..Len(p)
                    BY <2>7, <3>4, <4>1
                <5> QED BY <2>9, <3>2, <3>3, <3>4, <5>1
            <4>2. CASE ~(k <= a)
                <5>1. k - a \in 1..Len(v) /\ a + (k - a) = k
                    BY <1>2, <2>7, <3>4, <4>2
                <5>2. q[a + (k - a)] = v[k - a] /\ v[k - a] = w[a + (k - a)]
                    BY <2>10, <3>3, <3>4, <5>1
                <5> QED BY <2>9, <5>1, <5>2
            <4> QED BY <4>1, <4>2
        <3>6. q = u
            <4>1. q \in Seq(Bytes) /\ u \in Seq(Bytes) /\ Len(q) = Len(u) /\ Len(u) = b
                BY <2>9, <3>3, <3>4
            <4> QED BY <3>5, <4>1
        <3> QED BY <2>8, <3>1, <3>6
    <2>12. v \in StandsFor(x[i])
        <3>1. CASE x[i] = Marker
            <4>1. PICK m \in 1..Len(Secrets) :
                    /\ b = a + Len(Secrets[m])
                    /\ \A j \in 1..Len(Secrets[m]) : w[a + j] = Secrets[m][j]
                BY <2>7, <3>1 DEF PieceOf
            <4>2. PICK t : t = Secrets[m]
                OBVIOUS
            <4>3. t \in Seq(Bytes) /\ Len(t) \in Nat
                BY <4>2, SecretsAreBytes
            <4>4. b = a + Len(t) /\ \A j \in 1..Len(t) : w[a + j] = t[j]
                BY <4>1, <4>2
            <4>5. Len(v) = Len(t)
                BY <2>7, <2>10, <4>3, <4>4
            <4>6. v = t
                BY <2>10, <4>3, <4>4, <4>5
            <4>7. t \in ToSet(Secrets)
                BY <4>2, SecretsAreBytes DEF ToSet
            <4> QED BY <3>1, <4>6, <4>7 DEF StandsFor
        <3>2. CASE x[i] # Marker
            <4>1. b = a + 1 /\ w[b] = x[i]
                BY <2>7, <3>2 DEF PieceOf
            <4>2. Len(v) = 1
                BY <2>7, <2>10, <4>1
            <4>3. v[1] = x[i]
                BY <2>7, <2>10, <4>1, <4>2
            <4>4. v = <<x[i]>>
                <5>1. v \in Seq(Bytes)
                    BY <2>10
                <5>2. v = <<v[1]>>
                    BY <4>2, <5>1
                <5> QED BY <4>3, <5>2
            <4> QED BY <3>2, <4>4 DEF StandsFor
        <3> QED BY <3>1, <3>2
    <2>13. SubSeq(w, 1, b) \in f[i]
        <3>1. f[i] = Continued(f[i - 1], x[i])
            BY <1>6, <2>3, <2>4
        <3>2. \A T, p, q : p \in T /\ q \in StandsFor(x[i]) => p \o q \in Continued(T, x[i])
            <4> SUFFICES ASSUME NEW T, NEW p, NEW q, p \in T, q \in StandsFor(x[i])
                         PROVE  p \o q \in Continued(T, x[i])
                OBVIOUS
            <4>1. <<p, q>> \in T \X StandsFor(x[i]) /\ <<p, q>>[1] = p /\ <<p, q>>[2] = q
                OBVIOUS
            <4> QED BY <4>1 DEF Continued
        <3> QED BY <2>5, <2>6, <2>11, <2>12, <3>1, <3>2
    <2> QED BY <2>6, <2>13
<1>11. Len(x) \in 0..Len(x)
    BY <1>2
<1>12. SubSeq(w, 1, Len(w)) \in f[Len(x)]
    BY <1>7, <1>10, <1>11
<1>13. SubSeq(w, 1, Len(w)) = w
    BY <1>2
<1> QED BY <1>5, <1>12, <1>13

\* What is queued for a stream at the exit.
Queue == [stream : Streams, bytes : Seq(Symbols)]

\* The streams of a process that runs, and of one that exited.
RunningSound ==
    /\ queued = <<>>
    /\ \A s \in Streams : /\ StreamSound(emitted[s], held[s], written[s])
                          /\ Len(held[s]) <= ChunkBytes + MaxWrite

ExitedSound ==
    /\ \A s \in Streams : held[s] = <<>>
    /\ \A i \in 1..Len(queued) :
        StreamSound(emitted[queued[i].stream], queued[i].bytes, written[queued[i].stream])
    /\ \A i, j \in 1..Len(queued) : queued[i].stream = queued[j].stream => i = j
    /\ \A s \in Streams :
        (\A i \in 1..Len(queued) : queued[i].stream # s) => StreamDone(emitted[s], written[s])

RedactInv ==
    /\ written \in [Streams -> Seq(Bytes)] /\ queued \in Seq(Queue)
    /\ held \in [Streams -> Seq(Symbols)] /\ emitted \in [Streams -> Seq(Symbols)]
    /\ exited \in {"running", "queued", "reported"}
    /\ exited = "running" => RunningSound
    /\ exited # "running" => ExitedSound
    /\ exited = "reported" => queued = <<>>

\* The bounds are numbers.
LEMMA RedactBounds == ChunkBytes \in Nat /\ MaxWrite \in Nat
BY RedactionAssumption

\* A stream of which nothing has left yet.
LEMMA NothingIsSound == StreamSound(<<>>, <<>>, <<>>)
<1>1. <<>> \in Seq(Symbols) /\ <<>> \in Seq(Bytes) /\ <<>> \o <<>> = <<>> /\ Len(<<>>) = 0
    OBVIOUS
<1>2. Settled(<<>>, 0) /\ HidesAll(<<>>)
    BY DEF Settled, HidesAll, HidesUpto, Hides
<1> QED BY <1>1, <1>2, SpellsNothing DEF StreamSound

\* The invariant at the start.
LEMMA RedactInitially == RedactionInit => RedactInv
<1> SUFFICES ASSUME RedactionInit
             PROVE  RedactInv
    OBVIOUS
<1>1. \A s \in Streams : written[s] = <<>> /\ held[s] = <<>> /\ emitted[s] = <<>>
    BY DEF RedactionInit
<1>2. queued = <<>> /\ exited = "running"
    BY DEF RedactionInit
<1>3. RunningSound
    <2>1. 0 <= ChunkBytes + MaxWrite
        BY RedactBounds
    <2>2. Len(<<>>) = 0
        OBVIOUS
    <2> QED BY <1>1, <1>2, <2>1, <2>2, NothingIsSound DEF RunningSound
<1>4. /\ written \in [Streams -> Seq(Bytes)] /\ queued \in Seq(Queue)
      /\ held \in [Streams -> Seq(Symbols)] /\ emitted \in [Streams -> Seq(Symbols)]
    BY DEF RedactionInit
<1> QED BY <1>2, <1>3, <1>4 DEF RedactInv

\* Something of what one stream holds leaves.
LEMMA EmitKeeps ==
    ASSUME RedactInv, NEW s \in Streams, NEW n \in 0..Len(held[s]), MayLeave(held[s], n),
           exited = "running", UNCHANGED <<written, queued, exited>>,
           NEW a, NEW b, CutAt(held[s], n, a, b, Symbols),
           emitted' = [emitted EXCEPT ![s] = @ \o a], held' = [held EXCEPT ![s] = b]
    PROVE  RedactInv'
<1>1. /\ written \in [Streams -> Seq(Bytes)] /\ queued \in Seq(Queue)
      /\ held \in [Streams -> Seq(Symbols)] /\ emitted \in [Streams -> Seq(Symbols)]
    BY DEF RedactInv
<1>2. RunningSound
    BY DEF RedactInv
<1>3. a \in Seq(Symbols) /\ b \in Seq(Symbols) /\ Len(b) = Len(held[s]) - n
    BY DEF CutAt
<1>4. emitted[s] \o a \in Seq(Symbols)
    BY <1>1, <1>3
<1>5. emitted' \in [Streams -> Seq(Symbols)] /\ held' \in [Streams -> Seq(Symbols)]
    BY <1>1, <1>3, <1>4
<1>6. ASSUME NEW r \in Streams
      PROVE  /\ StreamSound(emitted'[r], held'[r], written[r])
             /\ Len(held'[r]) <= ChunkBytes + MaxWrite
    <2>1. CASE r = s
        <3>1. emitted'[r] = emitted[s] \o a /\ held'[r] = b
            BY <1>1, <2>1
        <3>2. StreamSound(emitted[s], held[s], written[s]) /\ Len(held[s]) <= ChunkBytes + MaxWrite
            BY <1>2 DEF RunningSound
        <3>3. StreamSound(emitted[s] \o a, b, written[s])
            BY <3>2, LeaveKeeps
        <3>4. Len(b) <= ChunkBytes + MaxWrite
            <4>1. Len(held[s]) \in Nat
                BY <1>1
            <4> QED BY <1>3, <3>2, <4>1, RedactBounds
        <3> QED BY <2>1, <3>1, <3>3, <3>4
    <2>2. CASE r # s
        <3>1. emitted'[r] = emitted[r] /\ held'[r] = held[r]
            BY <1>1, <2>2
        <3> QED BY <1>2, <3>1 DEF RunningSound
    <2> QED BY <2>1, <2>2
<1>7. RunningSound'
    BY <1>2, <1>6 DEF RunningSound
<1> QED BY <1>1, <1>5, <1>7 DEF RedactInv

\* What begins a sequence that hides the secrets hides them.
LEMMA PrefixHides ==
    ASSUME NEW x \in Seq(Symbols), HidesAll(x), NEW n \in 0..Len(x),
           NEW a, NEW b, CutAt(x, n, a, b, Symbols)
    PROVE  HidesAll(a)
<1> SUFFICES ASSUME NEW m \in 1..Len(Secrets), Len(Secrets[m]) > 0,
                    NEW from \in 1..Len(a), OccursAt(Secrets[m], a, from)
             PROVE  FALSE
    BY DEF HidesAll, HidesUpto, Hides
<1>0. PICK t : t = Secrets[m]
    OBVIOUS
<1>1. Len(t) \in Nat /\ Len(t) > 0
    BY <1>0, SecretsAreBytes
<1>2. Len(a) = n /\ Len(x) \in Nat /\ \A k \in 1..n : a[k] = x[k]
    BY DEF CutAt
<1>3. from + Len(t) - 1 <= Len(a) /\ \A j \in 1..Len(t) : a[from + j - 1] = t[j]
    BY <1>0 DEF OccursAt
<1>4. from + Len(t) - 1 <= Len(x) /\ from \in 1..Len(x)
    BY <1>1, <1>2, <1>3
<1>5. ASSUME NEW j \in 1..Len(t)
      PROVE  x[from + j - 1] = t[j]
    <2>1. from + j - 1 \in 1..n
        BY <1>1, <1>2, <1>3
    <2> QED BY <1>2, <1>3, <2>1
<1>6. OccursAt(t, x, from)
    BY <1>4, <1>5 DEF OccursAt
<1> QED BY <1>0, <1>1, <1>4, <1>6 DEF HidesAll, HidesUpto, Hides

\* Redacting what hides the secrets changes nothing.
LEMMA RedactIsIdle ==
    ASSUME NEW x \in Seq(Symbols), HidesAll(x)
    PROVE  redact_bytes(x) = x
BY RedactIs DEF RedactedOf, HidesAll

\* A line leaves: its newline is in no secret.
LEMMA TakeLineKeeps ==
    ASSUME RedactInv, NEW s \in Streams, take_line(s)
    PROVE  RedactInv'
<1> DEFINE end == CHOOSE i \in DOMAIN held[s] :
                    held[s][i] = Newline /\ \A j \in 1..i - 1 : held[s][j] /= Newline
<1>0. held[s] \in Seq(Symbols)
    BY DEF RedactInv
<1>1. exited = "running"
    <2>1. held[s] # <<>>
        BY DEF take_line, HasLine
    <2> QED BY <2>1 DEF RedactInv, ExitedSound
<1>2. \E i \in DOMAIN held[s] : held[s][i] = Newline /\ \A j \in 1..i - 1 : held[s][j] /= Newline
    <2>1. PICK T : T = { i \in 1..Len(held[s]) : held[s][i] = Newline }
        OBVIOUS
    <2>2. DOMAIN held[s] = 1..Len(held[s]) /\ Len(held[s]) \in Nat
        BY <1>0
    <2>3. T \subseteq Nat /\ T # {}
        BY <2>1, <2>2 DEF take_line, HasLine
    <2>4. PICK i \in T : \A k \in T : i <= k
        BY <2>3, LeastOf
    <2>5. ASSUME NEW j \in 1..i - 1
          PROVE  held[s][j] # Newline
        <3>1. j \in 1..Len(held[s]) /\ ~(i <= j)
            BY <2>1, <2>2
        <3> QED BY <2>1, <2>4, <3>1
    <2> QED BY <2>1, <2>2, <2>5
<1>3. end \in DOMAIN held[s] /\ held[s][end] = Newline
    BY <1>2, Zenon
<1>4. end \in 1..Len(held[s]) /\ end \in 0..Len(held[s])
    BY <1>0, <1>3
<1>5. /\ emitted' = [emitted EXCEPT ![s] = @ \o redact_bytes(SubSeq(held[s], 1, end))]
      /\ held' = [held EXCEPT ![s] = SubSeq(@, end + 1, Len(@))]
      /\ UNCHANGED <<written, queued, exited>>
    BY Zenon DEF take_line, Emit
<1> HIDE DEF end
<1>6. PICK a, b : a = SubSeq(held[s], 1, end) /\ b = SubSeq(held[s], end + 1, Len(held[s]))
    OBVIOUS
<1>7. CutAt(held[s], end, a, b, Symbols)
    BY <1>0, <1>4, <1>6, CutInTwo
<1>8. MayLeave(held[s], end)
    BY <1>3, <1>4 DEF MayLeave
<1>9. redact_bytes(a) = a
    <2>1. StreamSound(emitted[s], held[s], written[s])
        BY <1>1 DEF RedactInv, RunningSound
    <2>2. HidesAll(held[s])
        BY <2>1 DEF StreamSound
    <2>3. HidesAll(a)
        BY <1>0, <1>4, <1>7, <2>2, PrefixHides
    <2>4. a \in Seq(Symbols)
        BY <1>7 DEF CutAt
    <2> QED BY <2>3, <2>4, RedactIsIdle
<1>10. emitted' = [emitted EXCEPT ![s] = @ \o a] /\ held' = [held EXCEPT ![s] = b]
    BY <1>5, <1>6, <1>9
<1> QED BY <1>1, <1>4, <1>5, <1>7, <1>8, <1>10, EmitKeeps

\* A chunk leaves, and what is held back can settle every secret that began.
LEMMA TakeChunkKeeps ==
    ASSUME RedactInv, NEW s \in Streams, take_bounded_chunk(s)
    PROVE  RedactInv'
<1>0. held[s] \in Seq(Symbols) /\ Len(held[s]) \in Nat
    BY DEF RedactInv
<1>1. exited = "running"
    <2>1. Len(held[s]) > 0
        BY <1>0, RedactBounds DEF take_bounded_chunk, HasChunk
    <2>2. Len(<<>>) = 0
        OBVIOUS
    <2> QED BY <2>1, <2>2 DEF RedactInv, ExitedSound
<1>2. PICK n : n = IF Len(held[s]) > Retained THEN Len(held[s]) - Retained ELSE 0
    OBVIOUS
<1>3. n \in 0..Len(held[s]) /\ MayLeave(held[s], n)
    BY <1>0, <1>2, ChunkMayLeave
<1>4. PICK a, b : a = SubSeq(held[s], 1, n) /\ b = SubSeq(held[s], n + 1, Len(held[s]))
    OBVIOUS
<1>5. CutAt(held[s], n, a, b, Symbols)
    BY <1>0, <1>3, <1>4, CutInTwo
<1>6. /\ emitted' = [emitted EXCEPT ![s] = @ \o a] /\ held' = [held EXCEPT ![s] = b]
      /\ UNCHANGED <<written, queued, exited>>
    BY <1>2, <1>4 DEF take_bounded_chunk, Emit
<1> QED BY <1>1, <1>3, <1>5, <1>6, EmitKeeps

\* The process wrote something.
LEMMA ReadOutputKeeps ==
    ASSUME RedactInv, NEW s \in Streams, ReadOutput(s)
    PROVE  RedactInv'
<1>0. /\ written \in [Streams -> Seq(Bytes)] /\ queued \in Seq(Queue)
      /\ held \in [Streams -> Seq(Symbols)] /\ emitted \in [Streams -> Seq(Symbols)]
    BY DEF RedactInv
<1>1. exited = "running" /\ RunningSound /\ UNCHANGED <<queued, emitted, exited>> /\ ~HasChunk(s)
    BY DEF ReadOutput, ReadsProcess, RedactInv
<1>2. PICK bytes \in BoundedSeq(Bytes, MaxWrite) :
        /\ written' = [written EXCEPT ![s] = @ \o bytes]
        /\ held' = [held EXCEPT ![s] = redact_bytes(@ \o bytes)]
    BY DEF ReadOutput, append_redacted
<1>3. bytes \in Seq(Bytes) /\ Len(bytes) <= MaxWrite /\ Len(bytes) \in Nat
    <2>1. PICK m \in 0..MaxWrite : bytes \in [1..m -> Bytes]
        BY <1>2 DEF BoundedSeq, SeqOf
    <2>2. m \in Nat /\ m <= MaxWrite
        BY RedactBounds
    <2>3. bytes \in Seq(Bytes) /\ Len(bytes) = m
        BY <2>1, <2>2
    <2> QED BY <2>2, <2>3
<1>4. PICK r, w : r = redact_bytes(held[s] \o bytes) /\ w = written[s] \o bytes
    OBVIOUS
<1>5. StreamSound(emitted[s], held[s], written[s])
    BY <1>1 DEF RunningSound
<1>6. StreamSound(emitted[s], r, w) /\ Len(r) <= Len(held[s]) + Len(bytes)
    BY <1>3, <1>4, <1>5, ArriveKeeps
<1>7. r \in Seq(Symbols) /\ w \in Seq(Bytes)
    BY <1>6 DEF StreamSound
<1>8. Len(r) <= ChunkBytes + MaxWrite
    <2>1. Len(held[s]) <= ChunkBytes /\ Len(held[s]) \in Nat /\ Len(r) \in Nat
        BY <1>0, <1>1, <1>7, RedactBounds DEF HasChunk
    <2> QED BY <1>3, <1>6, <2>1, RedactBounds
<1>9. written' = [written EXCEPT ![s] = w] /\ held' = [held EXCEPT ![s] = r]
    BY <1>2, <1>4
<1>10. written' \in [Streams -> Seq(Bytes)] /\ held' \in [Streams -> Seq(Symbols)]
    BY <1>0, <1>7, <1>9
<1>11. ASSUME NEW q \in Streams
       PROVE  /\ StreamSound(emitted[q], held'[q], written'[q])
              /\ Len(held'[q]) <= ChunkBytes + MaxWrite
    <2>1. CASE q = s
        <3>1. held'[q] = r /\ written'[q] = w
            BY <1>0, <1>9, <2>1
        <3> QED BY <1>6, <1>8, <2>1, <3>1
    <2>2. CASE q # s
        <3>1. held'[q] = held[q] /\ written'[q] = written[q]
            BY <1>0, <1>9, <2>2
        <3> QED BY <1>1, <3>1 DEF RunningSound
    <2> QED BY <2>1, <2>2
<1>12. RunningSound'
    BY <1>1, <1>11 DEF RunningSound
<1> QED BY <1>0, <1>1, <1>10, <1>12 DEF RedactInv

\* The whole of an empty buffer left before the exit.
LEMMA EmptyIsDone ==
    ASSUME NEW e, NEW w, StreamSound(e, <<>>, w)
    PROVE  StreamDone(e, w)
<1>1. e \in Seq(Symbols)
    BY DEF StreamSound
<1>2. e \o <<>> = e
    BY <1>1
<1>3. StreamDone(e \o <<>>, w)
    BY SoundHides
<1> QED BY <1>2, <1>3

\* The events of an exit: what each stream holds, unless that is nothing.
LEMMA QueueExitKeeps ==
    ASSUME RedactInv, queue_exit
    PROVE  RedactInv'
<1>0. /\ written \in [Streams -> Seq(Bytes)] /\ queued \in Seq(Queue)
      /\ held \in [Streams -> Seq(Symbols)] /\ emitted \in [Streams -> Seq(Symbols)]
    BY DEF RedactInv
<1>1. /\ RunningSound /\ UNCHANGED <<written, emitted>> /\ exited' = "queued"
      /\ queued' = Flush("stdout") \o Flush("stderr")
      /\ held' = [s \in Streams |-> <<>>]
    BY DEF queue_exit, RedactInv
<1>2. "stdout" \in Streams /\ "stderr" \in Streams /\ "stdout" # "stderr"
    BY DEF Streams
<1>3. \A s \in Streams : StreamSound(emitted[s], held[s], written[s])
    BY <1>1 DEF RunningSound
<1>4. ASSUME NEW s \in Streams
      PROVE  Flush(s) = IF held[s] = <<>> THEN <<>> ELSE <<[stream |-> s, bytes |-> held[s]]>>
    <2>1. HidesAll(held[s]) /\ held[s] \in Seq(Symbols)
        BY <1>3 DEF StreamSound
    <2>2. redact_bytes(held[s]) = held[s]
        BY <2>1, RedactIsIdle
    <2> QED BY <2>2 DEF Flush
<1>5. PICK q : q = queued'
    OBVIOUS
<1>6. PICK out, err : out = [stream |-> "stdout", bytes |-> held["stdout"]]
                   /\ err = [stream |-> "stderr", bytes |-> held["stderr"]]
    OBVIOUS
<1>7. /\ out \in Queue /\ err \in Queue /\ out.stream = "stdout" /\ err.stream = "stderr"
      /\ out.bytes = held["stdout"] /\ err.bytes = held["stderr"]
    BY <1>0, <1>2, <1>6 DEF Queue
<1>8. q = (IF held["stdout"] = <<>> THEN <<>> ELSE <<out>>) \o
          (IF held["stderr"] = <<>> THEN <<>> ELSE <<err>>)
    BY <1>1, <1>2, <1>4, <1>5, <1>6
<1>9. /\ q \in Seq(Queue)
      /\ \A i \in 1..Len(q) : q[i] \in {out, err}
      /\ \A i, j \in 1..Len(q) : q[i].stream = q[j].stream => i = j
      /\ held["stdout"] # <<>> => \E i \in 1..Len(q) : q[i] = out
      /\ held["stderr"] # <<>> => \E i \in 1..Len(q) : q[i] = err
    <2>1. CASE held["stdout"] = <<>> /\ held["stderr"] = <<>>
        <3>1. q = <<>>
            BY <1>8, <2>1
        <3> QED BY <2>1, <3>1
    <2>2. CASE held["stdout"] = <<>> /\ held["stderr"] # <<>>
        <3>1. q = <<err>>
            BY <1>7, <1>8, <2>2
        <3>2. q \in Seq(Queue) /\ Len(q) = 1 /\ q[1] = err
            BY <1>7, <3>1
        <3> QED BY <2>2, <3>2
    <2>3. CASE held["stdout"] # <<>> /\ held["stderr"] = <<>>
        <3>1. q = <<out>>
            BY <1>7, <1>8, <2>3
        <3>2. q \in Seq(Queue) /\ Len(q) = 1 /\ q[1] = out
            BY <1>7, <3>1
        <3> QED BY <2>3, <3>2
    <2>4. CASE held["stdout"] # <<>> /\ held["stderr"] # <<>>
        <3>1. q = <<out>> \o <<err>>
            BY <1>8, <2>4
        <3>2. q \in Seq(Queue) /\ Len(q) = 2 /\ q[1] = out /\ q[2] = err
            BY <1>7, <3>1
        <3>3. \A i \in 1..Len(q) : i = 1 \/ i = 2
            BY <3>2
        <3> QED BY <1>2, <1>7, <2>4, <3>2, <3>3
    <2> QED BY <2>1, <2>2, <2>3, <2>4
<1>10. ASSUME NEW i \in 1..Len(q)
       PROVE  StreamSound(emitted[q[i].stream], q[i].bytes, written[q[i].stream])
    BY <1>2, <1>3, <1>7, <1>9
<1>11. ASSUME NEW s \in Streams, \A i \in 1..Len(q) : q[i].stream # s
       PROVE  StreamDone(emitted[s], written[s])
    <2>1. s = "stdout" \/ s = "stderr"
        BY DEF Streams
    <2>2. held[s] = <<>>
        BY <1>7, <1>9, <1>11, <2>1
    <2> QED BY <1>3, <2>2, EmptyIsDone
<1>12. \A s \in Streams : held'[s] = <<>>
    BY <1>1
<1>13. held' \in [Streams -> Seq(Symbols)]
    BY <1>1
<1>14. ExitedSound'
    BY <1>1, <1>5, <1>9, <1>10, <1>11, <1>12 DEF ExitedSound
<1> QED BY <1>0, <1>1, <1>5, <1>9, <1>13, <1>14 DEF RedactInv

\* The front of the queue leaves.
LEMMA PopQueuedKeeps ==
    ASSUME RedactInv, PopQueued
    PROVE  RedactInv'
<1>0. /\ written \in [Streams -> Seq(Bytes)] /\ queued \in Seq(Queue)
      /\ held \in [Streams -> Seq(Symbols)] /\ emitted \in [Streams -> Seq(Symbols)]
    BY DEF RedactInv
<1>1. exited = "queued" /\ ExitedSound /\ UNCHANGED <<written, held>>
    BY DEF PopQueued, RedactInv
<1>2. CASE queued = <<>>
    <2>1. exited' = "reported" /\ UNCHANGED <<emitted, queued>>
        BY <1>2 DEF PopQueued
    <2>2. ExitedSound'
        BY <1>1, <2>1 DEF ExitedSound
    <2> QED BY <1>0, <1>1, <1>2, <2>1, <2>2 DEF RedactInv
<1>3. CASE queued # <<>>
    <2>1. PICK s, x : s = queued[1].stream /\ x = queued[1].bytes
        OBVIOUS
    <2>2. /\ emitted' = [emitted EXCEPT ![s] = @ \o x] /\ queued' = Tail(queued)
          /\ exited' = "queued"
        BY <1>1, <1>3, <2>1 DEF PopQueued, Emit
    <2>3. 1 \in 1..Len(queued) /\ queued[1] \in Queue /\ Len(queued) \in Nat
        BY <1>0, <1>3
    <2>4. s \in Streams /\ StreamSound(emitted[s], x, written[s])
        BY <1>1, <2>1, <2>3 DEF ExitedSound, Queue
    <2>5. StreamDone(emitted[s] \o x, written[s])
        BY <2>4, SoundHides
    <2>6. /\ emitted' \in [Streams -> Seq(Symbols)]
          /\ emitted'[s] = emitted[s] \o x
          /\ \A r \in Streams : r # s => emitted'[r] = emitted[r]
        <3>1. emitted[s] \o x \in Seq(Symbols)
            BY <2>5 DEF StreamDone
        <3> QED BY <1>0, <2>2, <2>4, <3>1
    <2>7. PICK q : q = Tail(queued)
        OBVIOUS
    <2>8. /\ q \in Seq(Queue) /\ Len(q) = Len(queued) - 1
          /\ \A i \in 1..Len(q) : q[i] = queued[i + 1] /\ i + 1 \in 1..Len(queued)
        BY <1>0, <1>3, <2>3, <2>7
    <2>9. \A i \in 1..Len(q) : q[i].stream # s /\ q[i].stream \in Streams
        <3> TAKE i \in 1..Len(q)
        <3>1. q[i] = queued[i + 1] /\ i + 1 \in 1..Len(queued) /\ i + 1 # 1 /\ q[i] \in Queue
            BY <2>8
        <3> QED BY <1>1, <2>1, <2>3, <3>1 DEF ExitedSound, Queue
    <2>10. ASSUME NEW i \in 1..Len(q)
           PROVE  StreamSound(emitted'[q[i].stream], q[i].bytes, written[q[i].stream])
        <3>1. emitted'[q[i].stream] = emitted[q[i].stream]
            BY <2>6, <2>9
        <3> QED BY <1>1, <2>8, <3>1 DEF ExitedSound
    <2>11. ASSUME NEW i \in 1..Len(q), NEW j \in 1..Len(q), q[i].stream = q[j].stream
           PROVE  i = j
        <3>1. i + 1 = j + 1
            BY SMTT(40), <1>1, <2>8, <2>11 DEF ExitedSound
        <3> QED BY <2>8, <3>1
    <2>12. ASSUME NEW r \in Streams, \A i \in 1..Len(q) : q[i].stream # r
           PROVE  StreamDone(emitted'[r], written[r])
        <3>1. CASE r = s
            BY <2>5, <2>6, <3>1
        <3>2. CASE r # s
            <4>1. ASSUME NEW i \in 1..Len(queued)
                  PROVE  queued[i].stream # r
                <5>1. CASE i = 1
                    BY <2>1, <3>2, <5>1
                <5>2. CASE i # 1
                    <6>1. i - 1 \in 1..Len(q) /\ (i - 1) + 1 = i
                        BY <2>3, <2>8, <5>2
                    <6> QED BY <2>8, <2>12, <6>1
                <5> QED BY <5>1, <5>2
            <4>2. StreamDone(emitted[r], written[r])
                BY <1>1, <4>1 DEF ExitedSound
            <4> QED BY <2>6, <3>2, <4>2
        <3> QED BY <3>1, <3>2
    <2>13. ExitedSound'
        BY <1>1, <2>2, <2>7, <2>10, <2>11, <2>12 DEF ExitedSound
    <2> QED BY <1>0, <1>1, <2>2, <2>6, <2>7, <2>8, <2>13 DEF RedactInv
<1> QED BY <1>2, <1>3

\* Every step keeps the invariant.
LEMMA RedactStep == RedactInv /\ [RedactionNext]_redactionVars => RedactInv'
<1> SUFFICES ASSUME RedactInv, [RedactionNext]_redactionVars
             PROVE  RedactInv'
    OBVIOUS
<1>1. CASE UNCHANGED redactionVars
    BY <1>1 DEF redactionVars, RedactInv, RunningSound, ExitedSound
<1>2. ASSUME NEW s \in Streams, take_line(s) \/ take_bounded_chunk(s) \/ ReadOutput(s)
      PROVE  RedactInv'
    BY <1>2, TakeLineKeeps, TakeChunkKeeps, ReadOutputKeeps
<1>3. CASE queue_exit
    BY <1>3, QueueExitKeeps
<1>4. CASE PopQueued
    BY <1>4, PopQueuedKeeps
<1> QED BY <1>1, <1>2, <1>3, <1>4 DEF RedactionNext

\* A slice of a sequence, symbol by symbol.
LEMMA MatchOccurs ==
    ASSUME NEW D, NEW e \in Seq(D), NEW t, Len(t) \in Nat, NEW from \in 1..Len(e),
           Matches(e, t, from)
    PROVE  OccursAt(t, e, from)
<1>1. \A n \in Nat : from + n - 1 <= Len(e) =>
        \A k \in 1..n : SubSeq(e, from, from + n - 1)[k] = e[from + k - 1]
    OBVIOUS
<1>2. from + Len(t) - 1 <= Len(e) /\ SubSeq(e, from, from + Len(t) - 1) = t
    BY DEF Matches
<1>3. \A k \in 1..Len(t) : t[k] = e[from + k - 1]
    BY <1>1, <1>2
<1> QED BY <1>2, <1>3 DEF OccursAt

\* The invariant is what the runs check.
LEMMA RedactInvIsSafe == RedactInv => RedactionSafety
<1> SUFFICES ASSUME RedactInv
             PROVE  RedactionSafety
    OBVIOUS
<1>0. /\ written \in [Streams -> Seq(Bytes)] /\ queued \in Seq(Queue)
      /\ held \in [Streams -> Seq(Symbols)] /\ emitted \in [Streams -> Seq(Symbols)]
    BY DEF RedactInv
<1>1. RedactionTypeOK
    <2>1. \A s \in Streams : Len(held[s]) <= ChunkBytes + MaxWrite
        <3> TAKE s \in Streams
        <3>1. CASE exited = "running"
            BY <3>1 DEF RedactInv, RunningSound
        <3>2. CASE exited # "running"
            <4>1. held[s] = <<>>
                BY <3>2 DEF RedactInv, ExitedSound
            <4>2. Len(<<>>) = 0
                OBVIOUS
            <4> QED BY <4>1, <4>2, RedactBounds
        <3> QED BY <3>1, <3>2
    <2>2. exited \in {"running", "queued", "reported"} /\ (exited = "running" => queued = <<>>)
        BY DEF RedactInv, RunningSound
    <2> QED BY <1>0, <2>1, <2>2 DEF RedactionTypeOK, Symbols
<1>2. \A s \in Streams : HidesAll(emitted[s])
    <2> TAKE s \in Streams
    <2>1. CASE exited = "running"
        <3>1. StreamSound(emitted[s], held[s], written[s])
            BY <2>1 DEF RedactInv, RunningSound
        <3> QED BY <3>1, SoundHides
    <2>2. CASE exited # "running"
        <3>1. ExitedSound
            BY <2>2 DEF RedactInv
        <3>2. ASSUME NEW i \in 1..Len(queued), queued[i].stream = s
              PROVE  HidesAll(emitted[s])
            <4>1. StreamSound(emitted[s], queued[i].bytes, written[s])
                BY <3>1, <3>2 DEF ExitedSound
            <4> QED BY <4>1, SoundHides
        <3>3. ASSUME \A i \in 1..Len(queued) : queued[i].stream # s
              PROVE  HidesAll(emitted[s])
            BY <3>1, <3>3 DEF ExitedSound, StreamDone
        <3> QED BY <3>2, <3>3
    <2> QED BY <2>1, <2>2
<1>3. EmittedHidesSecrets
    <2> SUFFICES ASSUME NEW s \in Streams, NEW i \in DOMAIN Secrets, Secrets[i] # <<>>,
                        NEW from \in DOMAIN emitted[s],
                        from + Len(Secrets[i]) - 1 <= Len(emitted[s]),
                        SubSeq(emitted[s], from, from + Len(Secrets[i]) - 1) = Secrets[i]
                 PROVE  FALSE
        BY DEF EmittedHidesSecrets
    <2>1. PICK e, t : e = emitted[s] /\ t = Secrets[i]
        OBVIOUS
    <2>2. e \in Seq(Symbols) /\ from \in 1..Len(e) /\ Len(e) \in Nat
        BY <1>0, <2>1
    <2>3. i \in 1..Len(Secrets) /\ t \in Seq(Bytes) /\ Len(t) \in Nat /\ Len(t) > 0
        <3>1. i \in 1..Len(Secrets)
            BY SecretsAreBytes
        <3>2. t \in Seq(Bytes) /\ t # <<>>
            BY <2>1, <3>1, SecretsAreBytes
        <3> QED BY <3>1, <3>2
    <2>5. Matches(e, t, from)
        BY <2>1 DEF Matches
    <2>6. OccursAt(t, e, from)
        BY <2>2, <2>3, <2>5, MatchOccurs
    <2>7. HidesAll(e)
        BY <1>2, <2>1
    <2> QED BY <2>1, <2>2, <2>3, <2>6, <2>7 DEF HidesAll, HidesUpto, Hides
<1>4. OutputIsComplete
    <2> SUFFICES ASSUME exited = "reported", NEW s \in Streams
                 PROVE  written[s] \in Readings(emitted[s])
        BY DEF OutputIsComplete
    <2>1. ExitedSound /\ queued = <<>>
        BY DEF RedactInv
    <2>2. StreamDone(emitted[s], written[s])
        BY <2>1 DEF ExitedSound
    <2> QED BY <2>2, SpelledIsRead DEF StreamDone
<1> QED BY <1>1, <1>3, <1>4 DEF RedactionSafety

\* However the output of a process is cut into reads, lines and chunks, no
\* secret leaves, and at the exit everything it wrote has left, as itself or
\* under a marker.
THEOREM RedactionIsSafe == RedactionSpec => []RedactionSafety
<1>1. RedactionInit => RedactInv
    BY RedactInitially
<1>2. RedactInv /\ [RedactionNext]_redactionVars => RedactInv'
    BY RedactStep
<1>3. RedactInv => RedactionSafety
    BY RedactInvIsSafe
<1> QED BY <1>1, <1>2, <1>3, PTL DEF RedactionSpec

=============================================================================
