---------------------------- MODULE PackInstall ----------------------------
(***************************************************************************)
(* Installing, removing and loading lexicon packs: processes that share a  *)
(* data directory and an artifact cache.  A pack directory is the set of   *)
(* the pack's intact files in it, an archive is right or wrong.            *)
(***************************************************************************)
EXTENDS Integers, Sequences, FiniteSets, SequencesExt

CONSTANTS
    Packs,        \* registry records of one pack identifier
    PackRequests, \* per process, the lists of packs it calls install_many with
    PackFiles,    \* the files of a pack, manifest and notices included
    Installers,   \* processes
    MaxTrash      \* bound: copies of one pack in the trash

ASSUME PackAssumption ==
    /\ IsFiniteSet(Packs) /\ PackFiles /= {} /\ MaxTrash \in Nat
    /\ \A c \in Installers : \A r \in PackRequests[c] : r /= <<>> /\ r \in Seq(Packs)

VARIABLES
    pkMisbuilt,    \* packs whose published archive is not the pack the registry names
    pkCache,       \* artifact cache: pack -> "absent", "right" or "wrong"
    pkFinal,       \* the content-addressed directory of each pack; {} is absent
    pkTrash,       \* pack -> directories moved to the trash, by suffix
    pkOps,         \* per process, the call under way
    pkPublished,   \* ghost: pack -> number of directories ever published
    pkSeen         \* ghost: per process, packs seen whole at some moment of its call

packVars == <<pkMisbuilt, pkCache, pkFinal, pkTrash, pkOps, pkPublished, pkSeen>>

PackIdle == [kind |-> "idle"]
PackDone(result) == [kind |-> "done", result |-> result]

\* An error before the first commit, or from a commit.
PackFail(c, error) ==
    [kind |-> "done", result |-> error, own |-> pkOps[c].own, answers |-> <<>>]

\* The complete file set and every checksum; the identity the registry names.
validate_pack(files) == files = PackFiles
verify_loaded_identity(pack) == pack \notin pkMisbuilt
verify_at(pack, files) == validate_pack(files) /\ verify_loaded_identity(pack)

-----------------------------------------------------------------------------
(* install and install_many *)

Install(c, request, offline) ==
    /\ pkOps[c] = PackIdle
    /\ pkOps' = [pkOps EXCEPT ![c] = [kind |-> "prepare", left |-> request, offline |-> offline,
                                      staged |-> <<>>, own |-> {}]]
    /\ UNCHANGED <<pkCache, pkFinal, pkTrash, pkPublished>>

\* The next pack to prepare or, once every one is prepared, the commits.
Prepared(op, entry) ==
    IF Len(op.left) > 1
    THEN [kind |-> "prepare", left |-> Tail(op.left), offline |-> op.offline,
          staged |-> Append(op.staged, entry), own |-> op.own]
    ELSE [kind |-> "commit", left |-> Append(op.staged, entry), own |-> op.own,
          answers |-> <<>>]

\* prepare: an existing directory is verified and left alone.
PrepareCheck(c) ==
    LET op == pkOps[c]
        pack == Head(op.left)
    IN /\ op.kind = "prepare"
       /\ pkOps' = [pkOps EXCEPT ![c] =
            IF pkFinal[pack] = {} THEN [op EXCEPT !.kind = "obtain"]
            ELSE IF verify_at(pack, pkFinal[pack])
            THEN Prepared(op, [pack |-> pack, status |-> "already", files |-> {}])
            ELSE PackFail(c, "prepare_error")]
       /\ UNCHANGED <<pkCache, pkFinal, pkTrash, pkPublished>>

\* obtain_archive: a cached archive that verifies, an error when offline, or
\* a download.
ObtainArchive(c) ==
    LET op == pkOps[c] IN
    /\ op.kind = "obtain"
    /\ pkOps' = [pkOps EXCEPT ![c] =
            IF pkCache[Head(op.left)] = "right"
            THEN [kind |-> "extract", left |-> op.left, offline |-> op.offline, staged |-> op.staged,
                  own |-> op.own, files |-> {}]
            ELSE IF op.offline THEN PackFail(c, "prepare_error")
            ELSE [op EXCEPT !.kind = "download"]]
    /\ UNCHANGED <<pkCache, pkFinal, pkTrash, pkPublished>>

\* download_with_curl to a temporary file, verify_archive, persist.
Download(c, outcome) ==
    LET op == pkOps[c] IN
    /\ op.kind = "download"
    /\ IF outcome = "right"
       THEN /\ pkCache' = [pkCache EXCEPT ![Head(op.left)] = "right"]
            /\ pkOps' = [pkOps EXCEPT ![c] =
                    [kind |-> "extract", left |-> op.left, offline |-> op.offline,
                     staged |-> op.staged, own |-> op.own, files |-> {}]]
       ELSE pkOps' = [pkOps EXCEPT ![c] = PackFail(c, "prepare_error")] /\ UNCHANGED pkCache
    /\ UNCHANGED <<pkFinal, pkTrash, pkPublished>>

\* extract_archive, file by file, from the cache into the staging directory;
\* an archive that went bad since it was verified, and one that was never the
\* pack, are found out here or below.
Extract(c, file) ==
    LET op == pkOps[c] IN
    /\ op.kind = "extract" /\ file \notin op.files
    /\ pkOps' = [pkOps EXCEPT ![c] = IF pkCache[Head(op.left)] = "right"
                                     THEN [op EXCEPT !.files = op.files \cup {file}]
                                     ELSE PackFail(c, "prepare_error")]
    /\ UNCHANGED <<pkCache, pkFinal, pkTrash, pkPublished>>

\* verify_at on the staging directory, after the last entry.
VerifyStaged(c) ==
    LET op == pkOps[c]
        pack == Head(op.left)
    IN /\ op.kind = "extract" /\ op.files = PackFiles
       /\ pkOps' = [pkOps EXCEPT ![c] =
            IF verify_at(pack, op.files)
            THEN Prepared(op, [pack |-> pack, status |-> "ready", files |-> op.files])
            ELSE PackFail(c, "prepare_error")]
       /\ UNCHANGED <<pkCache, pkFinal, pkTrash, pkPublished>>

\* The answer for the first pack to commit; the next one, or the end.
Committed(op, status) ==
    LET answers == Append(op.answers, [pack |-> Head(op.left).pack, status |-> status])
        own == IF status = "installed" THEN op.own \cup {Head(op.left).pack} ELSE op.own
    IN IF Len(op.left) > 1
       THEN [op EXCEPT !.left = Tail(op.left), !.answers = answers, !.own = own]
       ELSE [kind |-> "done", result |-> "ok", answers |-> answers, own |-> own]

\* commit: rename the staging directory.  A rename onto a directory that is
\* not empty fails, and so may any other.
CommitStaged(c, fails) ==
    LET op == pkOps[c]
        entry == Head(op.left)
    IN /\ op.kind = "commit"
       /\ IF entry.status = "already"
          THEN pkOps' = [pkOps EXCEPT ![c] = Committed(op, "already")]
               /\ UNCHANGED <<pkFinal, pkPublished>>
          ELSE IF ~fails /\ pkFinal[entry.pack] = {}
          THEN /\ pkFinal' = [pkFinal EXCEPT ![entry.pack] = entry.files]
               /\ pkPublished' = [pkPublished EXCEPT ![entry.pack] = @ + 1]
               /\ pkOps' = [pkOps EXCEPT ![c] = Committed(op, "installed")]
          ELSE pkOps' = [pkOps EXCEPT ![c] = [op EXCEPT !.kind = "collision"]]
               /\ UNCHANGED <<pkFinal, pkPublished>>
       /\ UNCHANGED <<pkCache, pkTrash>>

\* Mutant: whatever stopped the rename, the pack is taken to be there.
CollisionTrusted(c) ==
    LET op == pkOps[c] IN
    /\ op.kind = "collision"
    /\ pkOps' = [pkOps EXCEPT ![c] = Committed([op EXCEPT !.kind = "commit"], "already")]
    /\ UNCHANGED <<pkCache, pkFinal, pkTrash, pkPublished>>

\* The rename failed: a directory that is there now is verified.
CommitCollision(c) ==
    LET op == pkOps[c]
        pack == Head(op.left).pack
    IN /\ op.kind = "collision"
       /\ pkOps' = [pkOps EXCEPT ![c] =
            IF verify_at(pack, pkFinal[pack]) THEN Committed([op EXCEPT !.kind = "commit"], "already")
            ELSE PackFail(c, "commit_error")]
       /\ UNCHANGED <<pkCache, pkFinal, pkTrash, pkPublished>>

-----------------------------------------------------------------------------
(* remove, load, faults *)

\* remove up to the choice of the first free suffix.
RemoveVerify(c, pack) ==
    /\ pkOps[c] = PackIdle
    /\ pkOps' = [pkOps EXCEPT ![c] =
            IF pkFinal[pack] = {} THEN PackDone("not_installed")
            ELSE IF ~verify_at(pack, pkFinal[pack]) THEN PackDone("invalid")
            ELSE [kind |-> "remove", pack |-> pack, suffix |-> Len(pkTrash[pack]) + 1]]
    /\ UNCHANGED <<pkCache, pkFinal, pkTrash, pkPublished>>

\* The rename into the trash: it fails if the source is gone or the
\* destination has been taken meanwhile.
RemoveRename(c) ==
    LET op == pkOps[c] IN
    /\ op.kind = "remove"
    /\ IF pkFinal[op.pack] /= {} /\ Len(pkTrash[op.pack]) < op.suffix
       THEN /\ pkTrash' = [pkTrash EXCEPT ![op.pack] = Append(@, pkFinal[op.pack])]
            /\ pkFinal' = [pkFinal EXCEPT ![op.pack] = {}]
            /\ pkOps' = [pkOps EXCEPT ![c] = PackDone("removed")]
       ELSE pkOps' = [pkOps EXCEPT ![c] = PackDone("io_error")] /\ UNCHANGED <<pkFinal, pkTrash>>
    /\ UNCHANGED <<pkCache, pkPublished>>

\* discover_candidates, as far as load_installed_lexicon uses it.
Discovered(candidates) == candidates

\* load_installed_lexicon: list the versions, refuse none and several.
LoadDiscover(c) ==
    LET found == Discovered({ p \in Packs : pkFinal[p] /= {} }) IN
    /\ pkOps[c] = PackIdle
    /\ pkOps' = [pkOps EXCEPT ![c] =
            IF found = {} THEN PackDone("not_installed")
            ELSE IF Cardinality(found) > 1 THEN PackDone("ambiguous")
            ELSE [kind |-> "load", pack |-> CHOOSE p \in found : TRUE,
                  listed |-> { p \in Packs : pkFinal[p] /= {} }]]
    /\ UNCHANGED <<pkCache, pkFinal, pkTrash, pkPublished>>

\* load_lexicon with the whole validation, then identity against path.
LoadPack(c) ==
    LET op == pkOps[c] IN
    /\ op.kind = "load"
    /\ pkOps' = [pkOps EXCEPT ![c] =
            IF verify_at(op.pack, pkFinal[op.pack])
            THEN [kind |-> "done", result |-> "loaded", pack |-> op.pack, listed |-> op.listed]
            ELSE PackDone("invalid")]
    /\ UNCHANGED <<pkCache, pkFinal, pkTrash, pkPublished>>

PackReturn(c) ==
    /\ pkOps[c].kind = "done"
    /\ pkOps' = [pkOps EXCEPT ![c] = PackIdle]
    /\ UNCHANGED <<pkCache, pkFinal, pkTrash, pkPublished>>

\* A process dies; what it staged stays in .staging, where nobody looks.
PackCrash(c) ==
    /\ pkOps[c].kind \notin {"idle", "done"}
    /\ pkOps' = [pkOps EXCEPT ![c] = PackIdle]
    /\ UNCHANGED <<pkCache, pkFinal, pkTrash, pkPublished>>

\* External: the disk loses a file of an installed pack, or a cached archive;
\* one loss at a time.
DiskDamage ==
    /\ \A p \in Packs : pkFinal[p] \in {{}, PackFiles} /\ pkCache[p] /= "wrong"
    /\ \/ \E p \in Packs, f \in PackFiles :
            /\ f \in pkFinal[p] /\ pkFinal[p] /= {f}
            /\ pkFinal' = [pkFinal EXCEPT ![p] = @ \ {f}] /\ UNCHANGED pkCache
       \/ \E p \in Packs :
            /\ pkCache[p] = "right"
            /\ pkCache' = [pkCache EXCEPT ![p] = "wrong"] /\ UNCHANGED pkFinal
    /\ UNCHANGED <<pkTrash, pkOps, pkPublished>>

PackInit ==
    /\ pkMisbuilt \in SUBSET Packs
    /\ pkCache = [p \in Packs |-> "absent"]
    /\ pkFinal = [p \in Packs |-> {}]
    /\ pkTrash = [p \in Packs |-> <<>>]
    /\ pkOps = [c \in Installers |-> PackIdle]
    /\ pkPublished = [p \in Packs |-> 0]
    /\ pkSeen = [c \in Installers |-> {}]

PackStep ==
    \/ \E c \in Installers :
        \/ \E request \in PackRequests[c], offline \in BOOLEAN : Install(c, request, offline)
        \/ PrepareCheck(c) \/ ObtainArchive(c)
        \/ \E outcome \in {"failed", "right", "wrong"} : Download(c, outcome)
        \/ \E file \in PackFiles : Extract(c, file)
        \/ VerifyStaged(c)
        \/ \E fails \in BOOLEAN : CommitStaged(c, fails)
        \/ CommitCollision(c)
        \/ \E pack \in Packs : Len(pkTrash[pack]) < MaxTrash /\ RemoveVerify(c, pack)
        \/ RemoveRename(c) \/ LoadDiscover(c) \/ LoadPack(c) \/ PackReturn(c) \/ PackCrash(c)
    \/ DiskDamage

PackNext ==
    /\ PackStep
    /\ UNCHANGED pkMisbuilt
    /\ pkSeen' = [c \in Installers |->
            IF pkOps'[c].kind = "idle" THEN {}
            ELSE pkSeen[c] \cup { p \in Packs : pkFinal'[p] = PackFiles }]

PackSpec == PackInit /\ [][PackNext]_packVars

-----------------------------------------------------------------------------
\* Calls are in a known state, and the one thing the disk damages at a time is
\* all that is wrong: a bad download is never kept, a bad pack never published.
PackTypeOK ==
    /\ \A p \in Packs : pkFinal[p] \subseteq PackFiles
    /\ Cardinality({ p \in Packs : pkCache[p] = "wrong" })
         + Cardinality({ p \in Packs : pkFinal[p] \notin {{}, PackFiles} }) <= 1
    /\ \A c \in Installers : pkOps[c].kind \in
        {"idle", "prepare", "obtain", "download", "extract", "commit", "collision", "remove", "load", "done"}

\* install answers Installed or AlreadyInstalled for a pack only if that pack
\* lay there whole at some moment of the call, whatever other processes
\* installed, removed or damaged around it.
InstallAnswerWasTrue ==
    \A c \in Installers : (pkOps[c].kind = "done" /\ pkOps[c].result = "ok") =>
        \A i \in DOMAIN pkOps[c].answers : pkOps[c].answers[i].pack \in pkSeen[c]

\* install_many publishes nothing when a check of any of its packs fails.
PreflightPublishesNothing ==
    \A c \in Installers : (pkOps[c].kind = "done" /\ pkOps[c].result = "prepare_error") =>
        pkOps[c].own = {}

\* Every directory ever published is installed or in the trash: removals and
\* installations that overlap never overwrite one.
NothingIsLost ==
    \A p \in Packs :
        pkPublished[p] = Len(pkTrash[p]) + (IF pkFinal[p] = {} THEN 0 ELSE 1)

\* What the server starts with is a pack whose every file was verified, and
\* the only one of its identifier that was installed when it looked.
LoadedIsTheOnlyOne ==
    \A c \in Installers : (pkOps[c].kind = "done" /\ pkOps[c].result = "loaded") =>
        pkOps[c].listed = {pkOps[c].pack} /\ pkOps[c].pack \in pkSeen[c]

\* A directory appears whole and of an honest archive, and disappears only
\* into the trash; nothing else writes into it but the failing disk.
PublishedWhole ==
    [][ \A p \in Packs : pkFinal'[p] /= pkFinal[p] =>
            \/ pkFinal[p] = {} /\ pkFinal'[p] = PackFiles /\ p \notin pkMisbuilt
            \/ pkFinal'[p] = {} /\ pkTrash'[p] = Append(pkTrash[p], pkFinal[p])
            \/ pkFinal'[p] /= {} /\ pkFinal'[p] \subseteq pkFinal[p] /\ pkOps' = pkOps ]_packVars

\* Processes that install, remove, load, die and share a disk: answers are
\* true, packs appear whole and are never overwritten.
PackSafety ==
    /\ [](PackTypeOK /\ InstallAnswerWasTrue /\ PreflightPublishesNothing)
    /\ [](NothingIsLost /\ LoadedIsTheOnlyOne)
    /\ PublishedWhole
=============================================================================
