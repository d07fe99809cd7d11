--------------------------- MODULE SeatWorkspace ---------------------------
(***************************************************************************)
(* The private directory of a seat: how SeatWorkspaceManager provisions    *)
(* it (allocate) or reopens it (resume), what a process is refused for,    *)
(* and how the lease gives it up.  Provisioning is a sequence of file      *)
(* system calls: any of them may fail, the server may die between two, and *)
(* two runs of the same match may provision the same seat.                 *)
(*                                                                         *)
(* One directory.  A file is its contents: absent, what this request would *)
(* write, or anything else.  Owners, permission bits and symbolic links    *)
(* are the single fact that the directory is private.                      *)
(***************************************************************************)
EXTENDS Naturals, FiniteSets

CONSTANTS
    Provisioners,   \* callers of allocate and resume
    Requests,       \* identities of requests: run, seat, game, harness, manifest
    RetentionOf     \* the retention policy of the manifest of each request

ASSUME WorkspaceAssumption ==
    RetentionOf \in [Requests -> {"retain_on_failure", "delete_on_finish"}]

VARIABLES
    dir,        \* the seat directory
    prov,       \* the provisioners
    agentProc,  \* the processes that leases have started: provisioner -> BOOLEAN
    spawnedOn,  \* history: the state of the directory when a process was started
    audit       \* history: denials

wsVars == <<dir, prov, agentProc, spawnedOn, audit>>

-----------------------------------------------------------------------------
(* Data *)

\* managed_config_paths.  The last one is below state/, where the agent's
\* process may write.
ConfigFiles == {"mcp", "codex", "cli", "state_config"}
WritableConfigs == {"state_config"}

NoRequest == "no_request"
FileState == Requests \cup {"absent", "foreign"}

\* tainted: some file of the workspace holds a forbidden capability.
Dir == [exists: BOOLEAN, private: BOOLEAN, marker: FileState,
        configs: [ConfigFiles -> FileState], tainted: BOOLEAN]
NoDir == [exists |-> FALSE, private |-> FALSE, marker |-> "absent",
          configs |-> [f \in ConfigFiles |-> "absent"], tainted |-> FALSE]

ProvPc == {"idle", "directories", "marker", "configs", "leased"}

\* integrity: the hashes of the configurations when the lease was made.
Prov == [pc: ProvPc, request: Requests \cup {NoRequest},
         integrity: [ConfigFiles -> FileState]]
IdleProv == [pc |-> "idle", request |-> NoRequest,
             integrity |-> [f \in ConfigFiles |-> "absent"]]

Leased(w) == prov[w].pc = "leased"

-----------------------------------------------------------------------------
(* provision *)

\* What comes before the directory: a capability that the policy forbids is
\* refused and recorded, one that has expired is refused.
Refuse(w, q, forbidden) ==
    /\ prov[w].pc = "idle"
    /\ audit' = IF forbidden THEN audit \cup {q} ELSE audit
    /\ UNCHANGED <<dir, prov, agentProc, spawnedOn>>

\* allocate: create_dir of the seat directory decides between two callers.
allocate(w, q) ==
    /\ prov[w].pc = "idle"
    /\ ~dir.exists
    /\ dir' = [NoDir EXCEPT !.exists = TRUE, !.private = TRUE]
    /\ prov' = [prov EXCEPT ![w].pc = "directories", ![w].request = q]
    /\ UNCHANGED <<agentProc, spawnedOn, audit>>

\* Its subdirectories, and then the marker: each write_private_file is
\* create_new and synced, and may fail; what exists is left behind.
Directories(w) ==
    /\ prov[w].pc = "directories"
    /\ prov' = [prov EXCEPT ![w].pc = "marker"]
    /\ UNCHANGED <<dir, agentProc, spawnedOn, audit>>

WriteMarker(w) ==
    /\ prov[w].pc = "marker"
    /\ dir.exists /\ dir.marker = "absent"
    /\ dir' = [dir EXCEPT !.marker = prov[w].request]
    /\ prov' = [prov EXCEPT ![w].pc = "configs"]
    /\ UNCHANGED <<agentProc, spawnedOn, audit>>

WriteConfig(w, f) ==
    /\ prov[w].pc = "configs"
    /\ dir.exists /\ dir.configs[f] = "absent"
    /\ dir' = [dir EXCEPT !.configs[f] = prov[w].request]
    /\ UNCHANGED <<prov, agentProc, spawnedOn, audit>>

\* The lease, when every file could be written and read back.
Lease(w) ==
    /\ prov[w].pc = "configs"
    /\ \A f \in ConfigFiles : dir.configs[f] # "absent"
    /\ prov' = [prov EXCEPT ![w].pc = "leased", ![w].integrity = dir.configs]
    /\ UNCHANGED <<dir, agentProc, spawnedOn, audit>>

\* A call fails: the directory stays as it is.
ProvisionFails(w) ==
    /\ prov[w].pc \in {"directories", "marker", "configs"}
    /\ prov' = [prov EXCEPT ![w] = IdleProv]
    /\ UNCHANGED <<dir, agentProc, spawnedOn, audit>>

\* Mutant: resume does not read the configurations.
ResumeMarkerOnly(w, q) ==
    /\ prov[w].pc = "idle"
    /\ dir.exists /\ dir.private /\ dir.marker = q
    /\ prov' = [prov EXCEPT ![w] = [pc |-> "leased", request |-> q,
                                    integrity |-> dir.configs]]
    /\ UNCHANGED <<dir, agentProc, spawnedOn, audit>>

\* resume, of a workspace that nobody holds: validate_private_directory, 
\* verify_marker, verify_harness_configs.
workspace_resume(w, q) ==
    /\ prov[w].pc = "idle"
    /\ dir.exists /\ dir.private
    /\ dir.marker = q
    /\ \A f \in ConfigFiles : dir.configs[f] = q
    /\ prov' = [prov EXCEPT ![w] = [pc |-> "leased", request |-> q,
                                    integrity |-> dir.configs]]
    /\ UNCHANGED <<dir, agentProc, spawnedOn, audit>>

-----------------------------------------------------------------------------
(* The lease *)

\* IsolatedSeatProcessAdapter.spawn: verify_integrity, and authority_is_clean on
\* the arguments, the environment and the files.
workspace_spawn(w) ==
    /\ Leased(w) /\ ~agentProc[w]
    /\ dir.exists
    /\ dir.configs = prov[w].integrity
    /\ ~dir.tainted
    /\ agentProc' = [agentProc EXCEPT ![w] = TRUE]
    /\ spawnedOn' = spawnedOn \cup {<<prov[w].request, dir.configs, dir.tainted>>}
    /\ UNCHANGED <<dir, prov, audit>>

\* The denial of a file is recorded, and the process is not started.
SpawnDenied(w) ==
    /\ Leased(w) /\ ~agentProc[w]
    /\ dir.exists /\ dir.configs = prov[w].integrity /\ dir.tainted
    /\ audit' = audit \cup {prov[w].request}
    /\ UNCHANGED <<dir, prov, agentProc, spawnedOn>>

\* What the sandbox lets the process do: write below workspace, state, home, tmp.
AgentWrites(w) ==
    /\ agentProc[w] /\ dir.exists
    /\ \/ dir' = [dir EXCEPT !.tainted = TRUE]
       \/ \E f \in WritableConfigs : dir' = [dir EXCEPT !.configs[f] = "foreign"]
    /\ UNCHANGED <<prov, agentProc, spawnedOn, audit>>

AgentExits(w) ==
    /\ agentProc[w]
    /\ agentProc' = [agentProc EXCEPT ![w] = FALSE]
    /\ UNCHANGED <<dir, prov, spawnedOn, audit>>

\* finish, after the process was terminated.  Removing may fail, which leaves the
\* directory as it is.
workspace_finish(w, failed) ==
    /\ Leased(w) /\ ~agentProc[w]
    /\ prov' = [prov EXCEPT ![w] = IdleProv]
    /\ \/ /\ ~(failed /\ RetentionOf[prov[w].request] = "retain_on_failure")
          /\ dir' = NoDir
       \/ UNCHANGED dir
    /\ UNCHANGED <<agentProc, spawnedOn, audit>>

\* The lease is dropped without finish.
DropLease(w) ==
    /\ Leased(w) /\ ~agentProc[w]
    /\ prov' = [prov EXCEPT ![w] = IdleProv]
    /\ \/ RetentionOf[prov[w].request] = "delete_on_finish" /\ dir' = NoDir
       \/ UNCHANGED dir
    /\ UNCHANGED <<agentProc, spawnedOn, audit>>

\* The server dies; the sandboxed processes die with it.
ServerDies ==
    /\ \E w \in Provisioners : prov[w].pc # "idle"
    /\ prov' = [w \in Provisioners |-> IdleProv]
    /\ agentProc' = [w \in Provisioners |-> FALSE]
    /\ UNCHANGED <<dir, spawnedOn, audit>>

-----------------------------------------------------------------------------
(* Specification *)

WorkspaceInit ==
    /\ dir = NoDir
    /\ prov = [w \in Provisioners |-> IdleProv]
    /\ agentProc = [w \in Provisioners |-> FALSE]
    /\ spawnedOn = {}
    /\ audit = {}

WorkspaceNext ==
    \/ \E w \in Provisioners, q \in Requests, forbidden \in BOOLEAN : Refuse(w, q, forbidden)
    \/ \E w \in Provisioners, q \in Requests : allocate(w, q)
    \/ \E w \in Provisioners, q \in Requests :
          (\A v \in Provisioners : prov[v].pc = "idle") /\ workspace_resume(w, q)
    \/ \E w \in Provisioners : Directories(w)
    \/ \E w \in Provisioners : WriteMarker(w)
    \/ \E w \in Provisioners, f \in ConfigFiles : WriteConfig(w, f)
    \/ \E w \in Provisioners : Lease(w)
    \/ \E w \in Provisioners : ProvisionFails(w)
    \/ \E w \in Provisioners : workspace_spawn(w)
    \/ \E w \in Provisioners : SpawnDenied(w)
    \/ \E w \in Provisioners : AgentWrites(w)
    \/ \E w \in Provisioners : AgentExits(w)
    \/ \E w \in Provisioners, failed \in BOOLEAN : workspace_finish(w, failed)
    \/ \E w \in Provisioners : DropLease(w)
    \/ ServerDies

WorkspaceSpec == WorkspaceInit /\ [][WorkspaceNext]_wsVars

-----------------------------------------------------------------------------
(* Properties *)

WorkspaceTypeOK ==
    /\ dir \in Dir
    /\ prov \in [Provisioners -> Prov]
    /\ agentProc \in [Provisioners -> BOOLEAN]
    /\ audit \subseteq Requests

\* A process is only ever started on the configuration of its own request, in a
\* workspace without a forbidden capability, whatever crashed, raced or was
\* written by an earlier process.
SpawnedOnOwnConfig ==
    \A e \in spawnedOn : e[3] = FALSE /\ \A f \in ConfigFiles : e[2][f] = e[1]

\* A workspace that was left half provisioned is never adopted, by allocate or
\* by resume: a lease has its marker and every configuration of its request.
LeaseIsComplete ==
    \A w \in Provisioners : prov[w].pc = "leased" =>
        \A f \in ConfigFiles : prov[w].integrity[f] = prov[w].request

\* Two callers never provision the directory at the same time.
OneProvisioner ==
    Cardinality({w \in Provisioners : prov[w].pc \in {"directories", "marker", "configs"}}) <= 1

\* A workspace has one provisioner, is leased only complete, and a process is
\* started on its own configuration only.
WorkspaceSafety == WorkspaceTypeOK /\ SpawnedOnOwnConfig /\ LeaseIsComplete /\ OneProvisioner
=============================================================================
